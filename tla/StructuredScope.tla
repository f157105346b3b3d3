-------------------------- MODULE StructuredScope --------------------------
(***************************************************************************)
(* What a `scope` / `spawn` program may rely on, with no mechanism: every  *)
(* spawned block belongs to one scope, a scope yields its result only when *)
(* none of its blocks still runs, the first reported failure is the error  *)
(* it yields, and its trailing expression is evaluated only when every     *)
(* block succeeded.  docs/language-spec.md, "Structured concurrency".      *)
(* TideGroup implements this with a counter, a once and an error slot.     *)
(***************************************************************************)

CONSTANTS Scope, Task, NoScope, NoTask

VARIABLES
  stage,    \* stage[s]: where scope s is in its life
  block,    \* block[t]: what spawned block t is doing, or how it ended
  member,   \* member[t]: the scope t was spawned in
  winner,   \* winner[s]: the block whose failure s yields
  value     \* value[s]: what the scope expression evaluated to

vars == <<stage, block, member, winner, value>>

Members(s) == {t \in Task : member[t] = s}
Quiet(s)   == \A t \in Members(s) : block[t] # "running"
NoFailure(s) == \A t \in Members(s) : block[t] # "err"

Init ==
  /\ stage  = [s \in Scope |-> "unopened"]
  /\ block  = [t \in Task |-> "idle"]
  /\ member = [t \in Task |-> NoScope]
  /\ winner = [s \in Scope |-> NoTask]
  /\ value  = [s \in Scope |-> [tag |-> "none", err |-> NoTask]]

Open(s) ==
  /\ stage[s] = "unopened"
  /\ stage' = [stage EXCEPT ![s] = "open"]
  /\ UNCHANGED <<block, member, winner, value>>

Spawn(s, t) ==
  /\ stage[s] = "open"
  /\ block[t] = "idle"
  /\ block'  = [block EXCEPT ![t] = "running"]
  /\ member' = [member EXCEPT ![t] = s]
  /\ UNCHANGED <<stage, winner, value>>

Finish(t, how) ==
  /\ block[t] = "running"
  /\ block' = [block EXCEPT ![t] = how]
  /\ UNCHANGED <<stage, member, winner, value>>

\* The first failure that reaches the scope is the one it will yield.
Report(s, t) ==
  /\ stage[s] = "open"
  /\ t \in Members(s)
  /\ block[t] = "err"
  /\ winner[s] = NoTask
  /\ winner' = [winner EXCEPT ![s] = t]
  /\ UNCHANGED <<stage, block, member, value>>

Fail(s) ==
  /\ stage[s] = "open"
  /\ Quiet(s)
  /\ winner[s] # NoTask
  /\ stage' = [stage EXCEPT ![s] = "returned"]
  /\ value' = [value EXCEPT ![s] = [tag |-> "err", err |-> winner[s]]]
  /\ UNCHANGED <<block, member, winner>>

BeginTrailing(s) ==
  /\ stage[s] = "open"
  /\ Quiet(s)
  /\ NoFailure(s)
  /\ stage' = [stage EXCEPT ![s] = "trailing"]
  /\ UNCHANGED <<block, member, winner, value>>

Succeed(s) ==
  /\ stage[s] = "trailing"
  /\ stage' = [stage EXCEPT ![s] = "returned"]
  /\ value' = [value EXCEPT ![s] = [tag |-> "ok", err |-> NoTask]]
  /\ UNCHANGED <<block, member, winner>>

Next ==
  \/ \E s \in Scope : Open(s) \/ Fail(s) \/ BeginTrailing(s) \/ Succeed(s)
  \/ \E s \in Scope, t \in Task : Spawn(s, t) \/ Report(s, t)
  \/ \E t \in Task, how \in {"ok", "err"} : Finish(t, how)

Spec == Init /\ [][Next]_vars
=============================================================================
