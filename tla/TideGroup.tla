----------------------------- MODULE TideGroup -----------------------------
(***************************************************************************)
(* The code the Tide compiler emits for `scope` and `spawn`, running:      *)
(* internal/codegen/codegen.go writePredeclaredGroup (the tideGroup        *)
(* helper) and internal/codegen/concurrency.go emitScopeExpr /             *)
(* emitSpawnStmt (the code around it).                                     *)
(*                                                                         *)
(* A Scope is one evaluation of a scope expression, a Task one goroutine   *)
(* started by a spawn; Main is the goroutine of func main.  What user code *)
(* computes is left out: between two steps of the runtime it may open      *)
(* scopes, spawn, end its body, or fail, in any order the grammar and sema *)
(* allow.                                                                  *)
(*                                                                         *)
(* Two program classes the compiler accepts are switched by constants:     *)
(*   ReturnsInScope  `return` or a failing `try` in a scope body, outside  *)
(*                   any spawn, which leaves the scope's func literal      *)
(*   LateSpawns      a spawn inside a block or `if` that is the scope's    *)
(*                   trailing expression, emitted after the call of Wait   *)
(***************************************************************************)
EXTENDS Naturals, FiniteSets, SequencesExt

CONSTANTS
  Scope, Task, Main,
  NoScope, NoTask,
  WithParent,        \* scopes written scope<T, E>(parent) { ... }
  ReturnsInScope, LateSpawns

ASSUME ThreadsAssumption ==
  /\ IsFiniteSet(Task)
  /\ Main \notin Task
  /\ NoTask \notin Task
ASSUME ScopesAssumption ==
  /\ NoScope \notin Scope
  /\ WithParent \subseteq Scope
ASSUME ClassAssumption ==
  /\ ReturnsInScope \in BOOLEAN
  /\ LateSpawns \in BOOLEAN

Thread == Task \cup {Main}

\* Programs that use neither form.
Disciplined == ~ReturnsInScope /\ ~LateSpawns

VARIABLES
  phase,      \* phase[s]: how far the scope's func literal has run
  owner,      \* owner[s]: the thread that evaluates s
  frames,     \* frames[th]: the scopes th is evaluating, innermost last
  pc,         \* pc[t]: how far goroutine t has run
  ret,        \* ret[t]: what the spawned func returned
  group,      \* group[t]: the scope whose group runs t
  wg,         \* wg[s]: the WaitGroup counter
  once,       \* once[s]: the sync.Once
  err,        \* err[s]: g.err, as the task whose error it is
  ctx,        \* ctx[s]: the derived context
  result,     \* result[s]: the Result the scope expression evaluated to
  parentDone, \* the context given to the scopes of WithParent is cancelled
  exited      \* func main has returned: the process is gone

scopeVars == <<phase, owner, frames, result>>
taskVars  == <<pc, ret, group>>
groupVars == <<wg, once, err, ctx>>
vars      == <<scopeVars, taskVars, groupVars, parentDone, exited>>

Init ==
  /\ phase  = [s \in Scope |-> "unopened"]
  /\ owner  = [s \in Scope |-> Main]
  /\ frames = [th \in Thread |-> <<>>]
  /\ result = [s \in Scope |-> [tag |-> "none", err |-> NoTask]]
  /\ pc     = [t \in Task |-> "idle"]
  /\ ret    = [t \in Task |-> "none"]
  /\ group  = [t \in Task |-> NoScope]
  /\ wg     = [s \in Scope |-> 0]
  /\ once   = [s \in Scope |-> "unused"]
  /\ err    = [s \in Scope |-> NoTask]
  /\ ctx    = [s \in Scope |-> "none"]
  /\ parentDone = FALSE
  /\ exited = FALSE

\* th executes user code: it is not inside Wait, once.Do or a defer.
InUserCode(th) ==
  /\ ~exited
  /\ th \in Task => pc[th] = "running"
  /\ frames[th] # <<>> => phase[Last(frames[th])] \in {"body", "trailing"}

\* The groups a spawn written at th's current position may register on: the
\* top of codegen's groupVars, which inside a spawn body is the group of the
\* scope around it.  sema refuses a spawn outside a scope (E0405).
SpawnTargets(th) ==
  IF frames[th] = <<>>
    THEN {group[t] : t \in {th} \cap Task}
    ELSE {s \in {Last(frames[th])} :
            \/ phase[s] = "body"
            \/ phase[s] = "trailing" /\ LateSpawns}

-----------------------------------------------------------------------------
(* The scope's func literal.                                               *)

\* g, _ := tideNewGroup(parent): a fresh group and its cancellable context.
OpenScope(th, s) ==
  /\ InUserCode(th)
  /\ phase[s] = "unopened"
  /\ phase' = [phase EXCEPT ![s] = "body"]
  /\ owner' = [owner EXCEPT ![s] = th]
  /\ frames' = [frames EXCEPT ![th] = Append(@, s)]
  /\ ctx'   = [ctx EXCEPT ![s] = IF s \in WithParent /\ parentDone
                                   THEN "cancelled" ELSE "live"]
  /\ UNCHANGED <<result, taskVars, wg, once, err, parentDone, exited>>

\* Mutant: the counter is not raised before the goroutine starts.
GoWithoutAdd(th, s, t) ==
  /\ InUserCode(th)
  /\ s \in SpawnTargets(th)
  /\ pc[t] = "idle"
  /\ group' = [group EXCEPT ![t] = s]
  /\ pc'    = [pc EXCEPT ![t] = "running"]
  /\ UNCHANGED <<scopeVars, ret, groupVars, parentDone, exited>>

\* g.Go(f): the caller adds to the counter, then starts the goroutine.
Go(th, s, t) ==
  /\ InUserCode(th)
  /\ s \in SpawnTargets(th)
  /\ pc[t] = "idle"
  /\ wg'    = [wg EXCEPT ![s] = @ + 1]
  /\ group' = [group EXCEPT ![t] = s]
  /\ pc'    = [pc EXCEPT ![t] = "running"]
  /\ UNCHANGED <<scopeVars, ret, once, err, ctx, parentDone, exited>>

\* The thread that evaluates s is at s's own level, in the given phase.
At(s, where) ==
  /\ ~exited
  /\ phase[s] = where
  /\ frames[owner[s]] # <<>>
  /\ Last(frames[owner[s]]) = s

\* The func literal returns: the code around the scope expression goes on.
Leave(s, where, res) ==
  /\ phase'  = [phase EXCEPT ![s] = where]
  /\ result' = [result EXCEPT ![s] = res]
  /\ frames' = [frames EXCEPT ![owner[s]] = Front(@)]
  /\ UNCHANGED owner

\* The statements of the body are done; g.Wait() is called.
CallWait(s) ==
  /\ At(s, "body")
  /\ phase' = [phase EXCEPT ![s] = "waiting"]
  /\ UNCHANGED <<owner, frames, result, taskVars, groupVars, parentDone, exited>>

\* Mutant: the join does not wait for the counter.
JoinReturnEarly(s) ==
  /\ At(s, "waiting")
  /\ phase' = [phase EXCEPT ![s] = "joined"]
  /\ UNCHANGED <<owner, frames, result, taskVars, groupVars, parentDone, exited>>

\* g.wg.Wait() returns.
JoinReturn(s) ==
  /\ At(s, "waiting")
  /\ wg[s] = 0
  /\ phase' = [phase EXCEPT ![s] = "joined"]
  /\ UNCHANGED <<owner, frames, result, taskVars, groupVars, parentDone, exited>>

\* Mutant: Wait returns g.err without cancelling.
WaitWithoutCancel(s) ==
  /\ At(s, "joined")
  /\ phase' = [phase EXCEPT ![s] = "cancelled"]
  /\ UNCHANGED <<owner, frames, result, taskVars, groupVars, parentDone, exited>>

\* g.cancel() releases the context on every way out of Wait.
CancelOwn(s) ==
  /\ At(s, "joined")
  /\ phase' = [phase EXCEPT ![s] = "cancelled"]
  /\ ctx'   = [ctx EXCEPT ![s] = "cancelled"]
  /\ UNCHANGED <<owner, frames, result, taskVars, wg, once, err, parentDone, exited>>

\* if _err := g.Wait(); _err != nil { return ResultErr(_err) }
YieldErr(s) ==
  /\ At(s, "cancelled")
  /\ err[s] # NoTask
  /\ Leave(s, "returned", [tag |-> "err", err |-> err[s]])
  /\ UNCHANGED <<taskVars, groupVars, parentDone, exited>>

\* Mutant: the result of Wait is discarded.
BeginTrailingAnyway(s) ==
  /\ At(s, "cancelled")
  /\ phase' = [phase EXCEPT ![s] = "trailing"]
  /\ UNCHANGED <<owner, frames, result, taskVars, groupVars, parentDone, exited>>

\* No error: the trailing expression is evaluated inside ResultOk(...).
BeginTrailing(s) ==
  /\ At(s, "cancelled")
  /\ err[s] = NoTask
  /\ phase' = [phase EXCEPT ![s] = "trailing"]
  /\ UNCHANGED <<owner, frames, result, taskVars, groupVars, parentDone, exited>>

YieldOk(s) ==
  /\ At(s, "trailing")
  /\ Leave(s, "returned", [tag |-> "ok", err |-> NoTask])
  /\ UNCHANGED <<taskVars, groupVars, parentDone, exited>>

\* `return`, or a `try` that bails, among the body's statements: a plain Go
\* return out of the func literal, with neither Wait nor cancel.
ReturnFromBody(s) ==
  /\ ReturnsInScope
  /\ At(s, "body")
  /\ Leave(s, "left", [tag |-> "left", err |-> NoTask])
  /\ UNCHANGED <<taskVars, groupVars, parentDone, exited>>

-----------------------------------------------------------------------------
(* The goroutine g.Go starts.                                              *)

\* f() returns; its own scopes have all been left.
FuncReturns(t, value) ==
  /\ ~exited
  /\ pc[t] = "running"
  /\ frames[t] = <<>>
  /\ ret' = [ret EXCEPT ![t] = value]
  /\ pc'  = [pc EXCEPT ![t] = IF value = "err" THEN "failed" ELSE "leaving"]
  /\ UNCHANGED <<scopeVars, group, groupVars, parentDone, exited>>

\* Mutant: a flag in place of the once, reset when its holder is through.
OnceWinAgain(t) ==
  /\ ~exited
  /\ pc[t] = "failed"
  /\ once[group[t]] \in {"unused", "done"}
  /\ once' = [once EXCEPT ![group[t]] = "running"]
  /\ pc'   = [pc EXCEPT ![t] = "storing"]
  /\ UNCHANGED <<scopeVars, ret, group, wg, err, ctx, parentDone, exited>>

\* Mutant: the siblings are cancelled before the error is stored.
OnceWinCancelFirst(t) ==
  /\ ~exited
  /\ pc[t] = "failed"
  /\ once[group[t]] = "unused"
  /\ once' = [once EXCEPT ![group[t]] = "running"]
  /\ pc'   = [pc EXCEPT ![t] = "storing"]
  /\ ctx'  = [ctx EXCEPT ![group[t]] = "cancelled"]
  /\ UNCHANGED <<scopeVars, ret, group, wg, err, parentDone, exited>>

\* once.Do, entered first: this goroutine runs the func.
OnceWin(t) ==
  /\ ~exited
  /\ pc[t] = "failed"
  /\ once[group[t]] = "unused"
  /\ once' = [once EXCEPT ![group[t]] = "running"]
  /\ pc'   = [pc EXCEPT ![t] = "storing"]
  /\ UNCHANGED <<scopeVars, ret, group, wg, err, ctx, parentDone, exited>>

\* Mutant: an atomic flag in place of the once, which holds nobody back.
OnceLoseAtOnce(t) ==
  /\ ~exited
  /\ pc[t] = "failed"
  /\ once[group[t]] # "unused"
  /\ pc' = [pc EXCEPT ![t] = "leaving"]
  /\ UNCHANGED <<scopeVars, ret, group, groupVars, parentDone, exited>>

\* once.Do returns to everyone else, only once the winner's call is over.
OnceLose(t) ==
  /\ ~exited
  /\ pc[t] = "failed"
  /\ once[group[t]] = "done"
  /\ pc' = [pc EXCEPT ![t] = "leaving"]
  /\ UNCHANGED <<scopeVars, ret, group, groupVars, parentDone, exited>>

\* g.err = err
StoreErr(t) ==
  /\ ~exited
  /\ pc[t] = "storing"
  /\ err' = [err EXCEPT ![group[t]] = t]
  /\ pc'  = [pc EXCEPT ![t] = "cancelling"]
  /\ UNCHANGED <<scopeVars, ret, group, wg, once, ctx, parentDone, exited>>

\* Mutant: the once is never released.
CancelSiblingsHolding(t) ==
  /\ ~exited
  /\ pc[t] = "cancelling"
  /\ ctx' = [ctx EXCEPT ![group[t]] = "cancelled"]
  /\ pc'  = [pc EXCEPT ![t] = "leaving"]
  /\ UNCHANGED <<scopeVars, ret, group, wg, once, err, parentDone, exited>>

\* g.cancel(), and the once is released as its func returns.
CancelSiblings(t) ==
  /\ ~exited
  /\ pc[t] = "cancelling"
  /\ ctx'  = [ctx EXCEPT ![group[t]] = "cancelled"]
  /\ once' = [once EXCEPT ![group[t]] = "done"]
  /\ pc'   = [pc EXCEPT ![t] = "leaving"]
  /\ UNCHANGED <<scopeVars, ret, group, wg, err, parentDone, exited>>

\* Mutant: Done does not wait for the failure to be recorded.
WgDoneEarly(t) ==
  /\ ~exited
  /\ pc[t] \in {"failed", "leaving"}
  /\ wg' = [wg EXCEPT ![group[t]] = @ - 1]
  /\ pc' = [pc EXCEPT ![t] = "ended"]
  /\ UNCHANGED <<scopeVars, ret, group, once, err, ctx, parentDone, exited>>

\* defer g.wg.Done()
WgDone(t) ==
  /\ ~exited
  /\ pc[t] = "leaving"
  /\ wg' = [wg EXCEPT ![group[t]] = @ - 1]
  /\ pc' = [pc EXCEPT ![t] = "ended"]
  /\ UNCHANGED <<scopeVars, ret, group, once, err, ctx, parentDone, exited>>

-----------------------------------------------------------------------------
(* Around the group.                                                       *)

\* The owner of the parent context cancels it: every context derived from it
\* is done too.  Nothing in the emitted code watches for that.
CancelParent ==
  /\ ~exited
  /\ WithParent # {}
  /\ ~parentDone
  /\ parentDone' = TRUE
  /\ ctx' = [s \in Scope |-> IF s \in WithParent /\ ctx[s] = "live"
                               THEN "cancelled" ELSE ctx[s]]
  /\ UNCHANGED <<scopeVars, taskVars, wg, once, err, exited>>

\* func main returns; Go does not wait for other goroutines.
MainReturns ==
  /\ InUserCode(Main)
  /\ frames[Main] = <<>>
  /\ exited' = TRUE
  /\ UNCHANGED <<scopeVars, taskVars, groupVars, parentDone>>

Exited == exited /\ UNCHANGED vars

ScopeStep(s) ==
  \/ \E th \in Thread : OpenScope(th, s)
  \/ CallWait(s) \/ JoinReturn(s) \/ CancelOwn(s)
  \/ YieldErr(s) \/ BeginTrailing(s) \/ YieldOk(s)
  \/ ReturnFromBody(s)

TaskStep(t) ==
  \/ \E th \in Thread, s \in Scope : Go(th, s, t)
  \/ \E value \in {"ok", "err"} : FuncReturns(t, value)
  \/ OnceWin(t) \/ OnceLose(t) \/ StoreErr(t) \/ CancelSiblings(t)
  \/ WgDone(t)

Next ==
  \/ \E s \in Scope : ScopeStep(s)
  \/ \E t \in Task : TaskStep(t)
  \/ CancelParent
  \/ MainReturns
  \/ Exited

Spec == Init /\ [][Next]_vars

-----------------------------------------------------------------------------
(* Fairness.  Go's scheduler runs every runnable goroutine eventually, so  *)
(* each runtime step is weakly fair.  Of user code only this is assumed: a *)
(* body, a trailing expression and a spawned func each come to an end.     *)

Fairness ==
  /\ \A s \in Scope :
       /\ WF_vars(CallWait(s))
       /\ WF_vars(JoinReturn(s))
       /\ WF_vars(CancelOwn(s))
       /\ WF_vars(YieldErr(s))
       /\ WF_vars(BeginTrailing(s))
       /\ WF_vars(YieldOk(s))
  /\ \A t \in Task :
       /\ WF_vars(\E value \in {"ok", "err"} : FuncReturns(t, value))
       /\ WF_vars(OnceWin(t))
       /\ WF_vars(OnceLose(t))
       /\ WF_vars(StoreErr(t))
       /\ WF_vars(CancelSiblings(t))
       /\ WF_vars(WgDone(t))

FairSpec == Spec /\ Fairness

-----------------------------------------------------------------------------
(* Properties.                                                             *)

Started(t) == pc[t] # "idle"
Ended(t)   == pc[t] = "ended"
InGroup(s) == {t \in Task : Started(t) /\ group[t] = s}

Joined(s)  == phase[s] \in {"joined", "cancelled", "trailing", "returned"}
Over(s)    == phase[s] \in {"returned", "left"}

\* The type of every variable.
TypeOK ==
  /\ phase  \in [Scope -> {"unopened", "body", "waiting", "joined", "cancelled",
                           "trailing", "returned", "left"}]
  /\ owner  \in [Scope -> Thread]
  /\ frames \in [Thread -> Seq(Scope)]
  /\ result \in [Scope -> [tag : {"none", "ok", "err", "left"},
                           err : Task \cup {NoTask}]]
  /\ pc     \in [Task -> {"idle", "running", "failed", "storing", "cancelling",
                          "leaving", "ended"}]
  /\ ret    \in [Task -> {"none", "ok", "err"}]
  /\ group  \in [Task -> Scope \cup {NoScope}]
  /\ wg     \in [Scope -> Nat]
  /\ once   \in [Scope -> {"unused", "running", "done"}]
  /\ err    \in [Scope -> Task \cup {NoTask}]
  /\ ctx    \in [Scope -> {"none", "live", "cancelled"}]
  /\ parentDone \in BOOLEAN
  /\ exited \in BOOLEAN

\* The join contract of the language specification: once the trailing
\* expression runs or the scope expression has a value, by whatever way out,
\* every task of the scope has finished, and so has every scope such a task
\* opened.
JoinContract ==
  \A s \in Scope :
    Joined(s) \/ Over(s) =>
      \A t \in InGroup(s) :
        /\ Ended(t)
        /\ \A inner \in Scope :
             phase[inner] # "unopened" /\ owner[inner] = t => Over(inner)

\* A scope that joined yields Err exactly when one of its tasks failed, the
\* error is that of such a task, and the trailing expression is evaluated
\* only when none did: the read of g.err after Wait never misses a failure
\* that a task was still recording.
FailureContract ==
  \A s \in Scope :
    LET failed == {t \in InGroup(s) : ret[t] = "err"} IN
    /\ phase[s] = "returned" =>
         IF failed = {} THEN result[s].tag = "ok"
         ELSE result[s].tag = "err" /\ result[s].err \in failed
    /\ phase[s] = "trailing" => failed = {}

\* No goroutine of a scope is cut off by the end of func main.
NoOrphanAtExit == exited => \A t \in Task : Started(t) => Ended(t)

\* Every context a scope derived is cancelled by the time the scope is over,
\* so nothing stays registered on its parent.
NoContextLeak == \A s \in Scope : Over(s) => ctx[s] = "cancelled"

\* A scope leaves nothing behind: neither a goroutine that is cut off nor a
\* context that stays registered on its parent.
NothingOutlives == NoOrphanAtExit /\ NoContextLeak

\* A context is cancelled for a reason: a recorded failure, a join, or the
\* parent.  The siblings of running tasks are never signalled before the
\* error that explains it is in place.
CancelHasReason ==
  \A s \in Scope :
    ctx[s] = "cancelled" =>
      \/ err[s] # NoTask
      \/ Joined(s)
      \/ s \in WithParent /\ parentDone

\* A task that failed and is gone has left its mark: an error is recorded and
\* the siblings' context is cancelled.  Losing the once is not a way to lose
\* the failure, and it does not overtake the winner's signal.
FailureIsFelt ==
  \A t \in Task :
    Ended(t) /\ ret[t] = "err" =>
      err[group[t]] # NoTask /\ ctx[group[t]] = "cancelled"

\* A scope's context and its tasks' failures agree at every moment.
FailureCancels == CancelHasReason /\ FailureIsFelt

\* First failure wins: the recorded error is never replaced, and a scope's
\* value never changes after the scope is over.
FirstFailureWins ==
  [][\A s \in Scope :
       /\ err[s] # NoTask => err'[s] = err[s]
       /\ Over(s) => result'[s] = result[s]]_vars

\* In every program, a block that runs behind its scope's join was spawned behind
\* it: the scope had not failed, the block's context is done, and the scope's
\* value is Ok whatever the block returns.
OnlyLateBlocksRemain ==
  \A t \in Task :
    Started(t) /\ ~Ended(t) /\ Joined(group[t]) =>
      /\ phase[group[t]] \in {"trailing", "returned"}
      /\ result[group[t]].tag # "err"
      /\ ctx[group[t]] = "cancelled"

\* The WaitGroup is never reused: once its Wait has returned, no task is
\* added to it (a concurrent Add would be misuse of sync.WaitGroup).
NoAddAfterWait == [][\A s \in Scope : Joined(s) => wg'[s] <= wg[s]]_vars

\* A scope whose body has ended yields a value, unless the process is gone.
ScopeReturns == \A s \in Scope : phase[s] = "waiting" ~> (Over(s) \/ exited)

-----------------------------------------------------------------------------
(* What the runtime implements: blocks are running until their func        *)
(* returned, the error slot is the winner, and everything Wait does before *)
(* the error test leaves the scope open.                                   *)

StageOf(s) ==
  CASE phase[s] = "unopened" -> "unopened"
    [] phase[s] = "trailing" -> "trailing"
    [] Over(s) -> "returned"
    [] OTHER -> "open"

BlockOf(t) == IF pc[t] \in {"idle", "running"} THEN pc[t] ELSE ret[t]

Contract == INSTANCE StructuredScope WITH
  stage  <- [s \in Scope |-> StageOf(s)],
  block  <- [t \in Task |-> BlockOf(t)],
  member <- group,
  winner <- err,
  value  <- result

\* Programs of the disciplined class get exactly what the contract says.
ImplementsContract == Contract!Spec
=============================================================================
