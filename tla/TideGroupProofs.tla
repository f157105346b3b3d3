-------------------------- MODULE TideGroupProofs --------------------------
(***************************************************************************)
(* Theorems about TideGroup, for every number of scopes and tasks.         *)
(***************************************************************************)
EXTENDS TideGroup, FiniteSetTheorems, TLAPS

USE ThreadsAssumption, ScopesAssumption, ClassAssumption

-----------------------------------------------------------------------------
(* The core invariant: it holds for every program the compiler accepts.    *)

Active(s) == phase[s] \notin {"unopened", "returned", "left"}
Depths(th) == 1 .. Len(frames[th])

\* The stacks of the threads hold exactly the scopes being evaluated, each
\* once and on its owner's stack.
StackInv ==
  /\ \A th \in Thread : \A i, j \in Depths(th) :
       /\ owner[frames[th][i]] = th
       /\ frames[th][i] = frames[th][j] => i = j
  /\ \A s \in Scope :
       Active(s) <=> \E i \in Depths(owner[s]) : frames[owner[s]][i] = s

\* A goroutine evaluates scopes only inside its func, belongs to a group from
\* the start, and has a return value from the moment the func returned.
TaskInv ==
  \A t \in Task :
    /\ frames[t] # <<>> => pc[t] = "running"
    /\ Started(t) => group[t] \in Scope
    /\ pc[t] \in {"idle", "running"} <=> ret[t] = "none"
    /\ pc[t] \in {"failed", "storing", "cancelling"} => ret[t] = "err"

\* The goroutines the WaitGroup of s stands for, and that it counts them.
Live(s) == {t \in Task : pc[t] \notin {"idle", "ended"} /\ group[t] = s}
CountInv == \A s \in Scope : wg[s] = Cardinality(Live(s))

CoreInv == TypeOK /\ StackInv /\ TaskInv /\ CountInv

-----------------------------------------------------------------------------
(* Facts the steps rest on.                                                *)

\* A non-empty stack of scopes has a scope on top; popping and pushing give
\* stacks of scopes again.
LEMMA StackTypes ==
  ASSUME NEW f \in Seq(Scope)
  PROVE  /\ f # <<>> => Last(f) \in Scope /\ Front(f) \in Seq(Scope)
         /\ \A s \in Scope : Append(f, s) \in Seq(Scope)
  BY DEF Last, Front

\* The tasks of a scope that the counter stands for are finitely many.
LEMMA LiveFinite == \A s : IsFiniteSet(Live(s)) /\ Cardinality(Live(s)) \in Nat
<1>1. TAKE s
<1>2. Live(s) \subseteq Task  BY DEF Live
<1> QED  BY <1>2, FS_Subset, FS_CardinalityType

\* One goroutine joining the live ones of a scope raises their number by one,
\* one leaving lowers it, and lowers it to no less than zero.
LEMMA LiveGrows ==
  ASSUME NEW s, NEW t, t \notin Live(s), Live(s)' = Live(s) \cup {t}
  PROVE  Cardinality(Live(s)') = Cardinality(Live(s)) + 1
  BY LiveFinite, FS_AddElement

LEMMA LiveShrinks ==
  ASSUME NEW s, NEW t, t \in Live(s), Live(s)' = Live(s) \ {t}
  PROVE  /\ Cardinality(Live(s)') = Cardinality(Live(s)) - 1
         /\ Cardinality(Live(s)) - 1 \in Nat
<1>1. Cardinality(Live(s)') = Cardinality(Live(s)) - 1
  BY LiveFinite, FS_RemoveElement
<1>2. IsFiniteSet(Live(s) \ {t})  BY LiveFinite, FS_Subset
<1>3. Cardinality(Live(s)') \in Nat  BY <1>2, FS_CardinalityType
<1> QED  BY <1>1, <1>3

\* A step that changes neither pc nor group changes no count.
LEMMA LiveKept ==
  ASSUME CountInv, UNCHANGED <<pc, group, wg>>
  PROVE  CountInv'
<1>1. \A s : Live(s)' = Live(s)  BY DEF Live
<1> QED  BY <1>1 DEF CountInv

-----------------------------------------------------------------------------
(* The initial states.                                                     *)

LEMMA CoreInit == Init => CoreInv
<1> SUFFICES ASSUME Init PROVE CoreInv  OBVIOUS
<1>1. TypeOK
  <2>1. <<>> \in Seq(Scope)  OBVIOUS
  <2>2. frames \in [Thread -> Seq(Scope)]  BY <2>1 DEF Init
  <2>3. owner \in [Scope -> Thread]  BY DEF Init, Thread
  <2> QED  BY <2>2, <2>3 DEF Init, TypeOK
<1>2. StackInv  BY DEF Init, StackInv, Active, Depths, Thread
<1>3. TaskInv  BY DEF Init, TaskInv, Thread, Started
<1>4. \A s : Live(s) = {}  BY DEF Init, Live
<1>5. CountInv  BY <1>4, FS_EmptySet DEF Init, CountInv
<1> QED  BY <1>1, <1>2, <1>3, <1>5 DEF CoreInv

-----------------------------------------------------------------------------
(* The steps of the scope's func literal.                                  *)

LEMMA CoreOpenScope ==
  ASSUME CoreInv, NEW th \in Thread, NEW s \in Scope, OpenScope(th, s)
  PROVE  CoreInv'
<1> USE DEF CoreInv
<1>1. TypeOK'  BY StackTypes DEF OpenScope, TypeOK, taskVars
<1>2. StackInv'
  <2>1. frames[th] \in Seq(Scope) /\ frames'[th] = Append(frames[th], s)
    BY DEF OpenScope, TypeOK
  <2>2. \A o \in Thread : o # th => frames'[o] = frames[o]
    BY DEF OpenScope, TypeOK
  <2>3. ~Active(s) /\ Active(s)'  BY DEF OpenScope, Active, TypeOK
  <2>4. \A o \in Thread : \A i \in Depths(o) : frames[o][i] # s
    BY <2>3 DEF StackInv, TypeOK, Depths
  <2>5. owner'[s] = th /\ \A x \in Scope \ {s} : owner'[x] = owner[x]
    BY DEF OpenScope, TypeOK
  <2>6. Depths(th)' = Depths(th) \cup {Len(frames[th]) + 1}
    BY <2>1 DEF Depths
  <2>7. /\ \A i \in Depths(th) : frames'[th][i] = frames[th][i]
        /\ frames'[th][Len(frames[th]) + 1] = s
    BY <2>1 DEF Depths
  <2>8. ASSUME NEW o \in Thread, NEW i \in Depths(o)', NEW j \in Depths(o)'
        PROVE  /\ owner'[frames'[o][i]] = o
               /\ frames'[o][i] = frames'[o][j] => i = j
    <3>0. \A k \in Depths(o) : frames[o][k] \in Scope  BY DEF TypeOK, Depths
    <3>1. CASE o # th
      BY <2>2, <2>4, <2>5, <3>0, <3>1 DEF StackInv, Depths
    <3>2. CASE o = th
      BY <2>4, <2>5, <2>6, <2>7, <3>0, <3>2 DEF StackInv
    <3> QED  BY <3>1, <3>2
  <2>9. ASSUME NEW x \in Scope
        PROVE  Active(x)' <=> \E i \in Depths(owner[x])' : frames'[owner'[x]][i] = x
    <3>1. CASE x = s
      BY <2>3, <2>5, <2>6, <2>7, <3>1 DEF Depths
    <3>2. CASE x # s
      <4>1. owner'[x] = owner[x] /\ owner[x] \in Thread
        BY <2>5, <3>2 DEF TypeOK
      <4>2. Active(x)' <=> Active(x)
        BY <3>2 DEF OpenScope, Active, TypeOK
      <4>3. CASE owner[x] = th
        BY <2>6, <2>7, <3>2, <4>1, <4>2, <4>3 DEF StackInv, Depths
      <4>4. CASE owner[x] # th
        BY <2>2, <4>1, <4>2, <4>4 DEF StackInv, Depths
      <4> QED  BY <4>3, <4>4
    <3> QED  BY <3>1, <3>2
  <2> QED  BY <2>8, <2>9 DEF StackInv
<1>3. TaskInv'
  <2>1. \A t \in Task : frames'[t] # frames[t] => pc[t] = "running"
    BY DEF OpenScope, InUserCode, TypeOK, Thread
  <2> QED  BY <2>1 DEF OpenScope, taskVars, TaskInv, Started
<1>4. CountInv'  BY LiveKept DEF OpenScope, taskVars
<1> QED  BY <1>1, <1>2, <1>3, <1>4

\* The steps that take a scope from one of its active phases to another.
LEMMA CoreStay ==
  ASSUME CoreInv, NEW s \in Scope, Active(s),
         NEW where \in {"waiting", "joined", "cancelled", "trailing"},
         phase' = [phase EXCEPT ![s] = where],
         ctx' \in [Scope -> {"none", "live", "cancelled"}],
         UNCHANGED <<owner, frames, result, taskVars, wg, once, err, parentDone, exited>>
  PROVE  CoreInv'
<1> USE DEF CoreInv
<1>1. TypeOK'  BY DEF TypeOK, taskVars
<1>2. StackInv'
  <2>1. \A x \in Scope : Active(x)' <=> Active(x)  BY DEF Active, TypeOK
  <2>2. UNCHANGED <<owner, frames>>  OBVIOUS
  <2> QED  BY <2>1, <2>2 DEF StackInv, Depths
<1>3. TaskInv'  BY DEF TaskInv, taskVars, Started
<1>4. CountInv'  BY LiveKept DEF taskVars
<1> QED  BY <1>1, <1>2, <1>3, <1>4

\* The steps that return from the scope's func literal.
LEMMA CoreLeave ==
  ASSUME CoreInv, NEW s \in Scope,
         NEW from \in {"body", "cancelled", "trailing"}, At(s, from),
         NEW where \in {"returned", "left"},
         NEW res \in [tag : {"none", "ok", "err", "left"}, err : Task \cup {NoTask}],
         Leave(s, where, res),
         UNCHANGED <<taskVars, groupVars, parentDone, exited>>
  PROVE  CoreInv'
<1> USE DEF CoreInv
<1>th. PICK th \in Thread : th = owner[s]  BY DEF TypeOK
<1> DEFINE n == Len(frames[th])
<1>0. /\ owner[s] = th /\ frames[th] \in Seq(Scope)
      /\ frames[th] # <<>> /\ Last(frames[th]) = s
  BY <1>th DEF At, TypeOK
<1>1. TypeOK'  BY <1>0, StackTypes DEF Leave, TypeOK, taskVars, groupVars
<1>2. StackInv'
  <2>1. n \in Nat /\ n >= 1 /\ frames[th][n] = s
    BY <1>0 DEF Last
  <2>2. frames'[th] = SubSeq(frames[th], 1, n - 1)
    BY <1>0 DEF Leave, Front, TypeOK
  <2>3. /\ Depths(th) = 1 .. n
        /\ Depths(th)' = 1 .. n - 1
        /\ \A i \in 1 .. n - 1 : frames'[th][i] = frames[th][i]
    BY <1>0, <2>1, <2>2 DEF Depths
  <2>4. \A o \in Thread : o # th => frames'[o] = frames[o]
    BY <1>0 DEF Leave, TypeOK
  <2>5. owner' = owner  BY DEF Leave
  <2>6. Active(s) /\ ~Active(s)' /\ \A x \in Scope \ {s} : Active(x)' <=> Active(x)
    BY DEF At, Leave, Active, TypeOK
  <2>7. \A i \in 1 .. n - 1 : frames[th][i] # s
    BY <1>0, <2>1, <2>3 DEF StackInv
  <2>8. ASSUME NEW o \in Thread, NEW i \in Depths(o)', NEW j \in Depths(o)'
        PROVE  /\ owner'[frames'[o][i]] = o
               /\ frames'[o][i] = frames'[o][j] => i = j
    <3>1. CASE o = th  BY <1>0, <2>1, <2>3, <2>5, <3>1 DEF StackInv
    <3>2. CASE o # th  BY <2>4, <2>5, <3>2 DEF StackInv, Depths
    <3> QED  BY <3>1, <3>2
  <2>9. ASSUME NEW x \in Scope
        PROVE  Active(x)' <=> \E i \in Depths(owner[x])' : frames'[owner'[x]][i] = x
    <3>0. owner[x] \in Thread  BY DEF TypeOK
    <3>1. CASE x = s
      <4>1. owner'[x] = th  BY <1>0, <2>5, <3>1
      <4> QED  BY <2>3, <2>6, <2>7, <3>1, <4>1
    <3>2. CASE x # s /\ owner[x] = th
      <4>1. (\E i \in 1 .. n : frames[th][i] = x) <=> \E i \in 1 .. n - 1 : frames[th][i] = x
        BY <2>1, <3>2
      <4>2. Active(x) <=> \E i \in 1 .. n : frames[th][i] = x
        BY <2>3, <3>2 DEF StackInv
      <4>3. (\E i \in 1 .. n - 1 : frames'[th][i] = x) <=> \E i \in 1 .. n - 1 : frames[th][i] = x
        BY <2>3
      <4>4. owner'[x] = th /\ Depths(th)' = 1 .. n - 1  BY <2>3, <2>5, <3>2
      <4> QED  BY <2>6, <3>2, <4>1, <4>2, <4>3, <4>4
    <3>3. CASE x # s /\ owner[x] # th
      BY <2>4, <2>5, <2>6, <3>0, <3>3 DEF StackInv, Depths
    <3> QED  BY <3>1, <3>2, <3>3
  <2> QED  BY <2>5, <2>8, <2>9 DEF StackInv
<1>3. TaskInv'
  <2>1. th \in Task => pc[th] = "running"  BY <1>0 DEF TaskInv
  <2>2. \A t \in Task : frames'[t] # frames[t] => t = th
    BY <1>0 DEF Leave, TypeOK, Thread
  <2> QED  BY <2>1, <2>2 DEF TaskInv, taskVars, Started
<1>4. CountInv'  BY LiveKept DEF taskVars, groupVars
<1> QED  BY <1>1, <1>2, <1>3, <1>4

LEMMA CoreScopeStep ==
  ASSUME CoreInv, NEW s \in Scope, ScopeStep(s)
  PROVE  CoreInv'
<1>0. TypeOK  BY DEF CoreInv
<1>1. ASSUME NEW th \in Thread, OpenScope(th, s) PROVE CoreInv'
  BY <1>1, CoreOpenScope
<1>2. CASE CallWait(s) \/ JoinReturn(s) \/ CancelOwn(s) \/ BeginTrailing(s)
  <2>1. Active(s)
    BY <1>2 DEF CallWait, JoinReturn, CancelOwn, BeginTrailing, At, Active
  <2>2. /\ ctx' \in [Scope -> {"none", "live", "cancelled"}]
        /\ UNCHANGED <<owner, frames, result, taskVars, wg, once, err, parentDone, exited>>
    BY <1>0, <1>2 DEF CallWait, JoinReturn, CancelOwn, BeginTrailing, TypeOK, groupVars
  <2>3. \E where \in {"waiting", "joined", "cancelled", "trailing"} :
          phase' = [phase EXCEPT ![s] = where]
    BY <1>2 DEF CallWait, JoinReturn, CancelOwn, BeginTrailing
  <2> QED  BY <2>1, <2>2, <2>3, CoreStay
<1>3. CASE YieldErr(s)
  <2>1. err[s] \in Task \cup {NoTask}  BY <1>0 DEF TypeOK
  <2> QED  BY <1>3, <2>1, CoreLeave DEF YieldErr
<1>4. CASE YieldOk(s)  BY <1>4, CoreLeave DEF YieldOk
<1>5. CASE ReturnFromBody(s)  BY <1>5, CoreLeave DEF ReturnFromBody
<1> QED  BY <1>1, <1>2, <1>3, <1>4, <1>5 DEF ScopeStep

-----------------------------------------------------------------------------
(* The steps of a goroutine.                                               *)

\* The scopes a spawn may register on are scopes.
LEMMA TargetsAreScopes ==
  ASSUME CoreInv, NEW th \in Thread, InUserCode(th)
  PROVE  SpawnTargets(th) \subseteq Scope
<1>1. frames[th] \in Seq(Scope)  BY DEF CoreInv, TypeOK
<1>2. frames[th] # <<>> => Last(frames[th]) \in Scope  BY <1>1, StackTypes
<1>3. th \in Task => group[th] \in Scope
  BY DEF CoreInv, TaskInv, InUserCode, Started
<1> QED  BY <1>2, <1>3 DEF SpawnTargets

\* A goroutine step that keeps the stacks keeps StackInv.
LEMMA StackKept ==
  ASSUME StackInv, UNCHANGED <<phase, owner, frames>>
  PROVE  StackInv'
  BY DEF StackInv, Active, Depths

LEMMA CoreGo ==
  ASSUME CoreInv, NEW th \in Thread, NEW s \in Scope, NEW t \in Task, Go(th, s, t)
  PROVE  CoreInv'
<1> USE DEF CoreInv
<1>1. TypeOK'  BY DEF Go, TypeOK, scopeVars
<1>2. StackInv'  BY StackKept DEF Go, scopeVars
<1>3. TaskInv'
  <2>1. UNCHANGED <<frames, ret>>  BY DEF Go, scopeVars
  <2> QED  BY <2>1 DEF Go, TaskInv, Started, TypeOK
<1>4. CountInv'
  <2>1. t \notin Live(s) /\ Live(s)' = Live(s) \cup {t}
    BY DEF Go, Live, TypeOK
  <2>2. \A x \in Scope \ {s} : Live(x)' = Live(x)
    BY DEF Go, Live, TypeOK
  <2>3. wg'[s] = wg[s] + 1 /\ \A x \in Scope \ {s} : wg'[x] = wg[x]
    BY DEF Go, TypeOK
  <2> QED  BY <2>1, <2>2, <2>3, LiveGrows DEF CountInv
<1> QED  BY <1>1, <1>2, <1>3, <1>4

\* The steps of a live goroutine up to its wg.Done change no count.
LEMMA CoreRun ==
  ASSUME CoreInv, NEW t \in Task,
         \/ \E value \in {"ok", "err"} : FuncReturns(t, value)
         \/ OnceWin(t) \/ OnceLose(t) \/ StoreErr(t) \/ CancelSiblings(t)
  PROVE  CoreInv'
<1> USE DEF CoreInv, FuncReturns, OnceWin, OnceLose, StoreErr, CancelSiblings
<1>0. pc[t] \notin {"idle", "ended"} /\ group[t] \in Scope
  BY DEF TaskInv, Started
<1>1. TypeOK'
  <2>1. UNCHANGED <<phase, owner, frames, result, group, wg, parentDone, exited>>
    BY DEF scopeVars, groupVars
  <2>2. pc' \in [Task -> {"idle", "running", "failed", "storing", "cancelling",
                          "leaving", "ended"}]
    <3>1. \E p \in {"failed", "storing", "cancelling", "leaving"} :
            pc' = [pc EXCEPT ![t] = p]
      <4>1. ASSUME NEW value \in {"ok", "err"}, FuncReturns(t, value)
            PROVE  pc' = [pc EXCEPT ![t] = "failed"] \/ pc' = [pc EXCEPT ![t] = "leaving"]
        BY <4>1
      <4> QED  BY <4>1
    <3> QED  BY <3>1 DEF TypeOK
  <2>3. ret' \in [Task -> {"none", "ok", "err"}]
    BY DEF TypeOK, scopeVars, groupVars
  <2>4. once' \in [Scope -> {"unused", "running", "done"}]
    <3>1. \/ once' = once
          \/ once' = [once EXCEPT ![group[t]] = "running"]
          \/ once' = [once EXCEPT ![group[t]] = "done"]
      BY DEF groupVars
    <3> QED  BY <3>1 DEF TypeOK
  <2>5. err' \in [Scope -> Task \cup {NoTask}]
    BY DEF TypeOK, scopeVars, groupVars
  <2>6. ctx' \in [Scope -> {"none", "live", "cancelled"}]
    BY DEF TypeOK, scopeVars, groupVars
  <2> QED  BY <2>1, <2>2, <2>3, <2>4, <2>5, <2>6 DEF TypeOK
<1>2. StackInv'  BY StackKept DEF scopeVars
<1>3. TaskInv'
  <2>1. UNCHANGED <<frames, group>>  BY DEF scopeVars
  <2> QED  BY <2>1 DEF TaskInv, Started, TypeOK
<1>4. CountInv'
  <2>1. pc'[t] \notin {"idle", "ended"} /\ group' = group /\ wg' = wg
    BY DEF groupVars, TypeOK
  <2>2. \A x \in Task \ {t} : pc'[x] = pc[x]  BY DEF TypeOK
  <2>3. \A x : Live(x)' = Live(x)  BY <1>0, <2>1, <2>2 DEF Live
  <2> QED  BY <2>1, <2>3 DEF CountInv
<1> QED  BY <1>1, <1>2, <1>3, <1>4

LEMMA CoreDone ==
  ASSUME CoreInv, NEW t \in Task, WgDone(t)
  PROVE  CoreInv'
<1> USE DEF CoreInv
<1>s. PICK s \in Scope : s = group[t]  BY DEF WgDone, TaskInv, Started
<1>0. group[t] = s  BY <1>s
<1>1. t \in Live(s) /\ Live(s)' = Live(s) \ {t}
  BY <1>0 DEF WgDone, Live, TypeOK
<1>2. \A x \in Scope \ {s} : Live(x)' = Live(x)
  BY <1>0 DEF WgDone, Live, TypeOK
<1>3. wg'[s] = wg[s] - 1 /\ \A x \in Scope \ {s} : wg'[x] = wg[x]
  BY <1>0 DEF WgDone, TypeOK
<1>4. Cardinality(Live(s)') = wg'[s] /\ wg'[s] \in Nat
  BY <1>0, <1>1, <1>3, LiveShrinks DEF CountInv
<1>5. TypeOK'  BY <1>0, <1>3, <1>4 DEF WgDone, TypeOK, scopeVars
<1>6. StackInv'  BY StackKept DEF WgDone, scopeVars
<1>7. TaskInv'
  <2>1. UNCHANGED <<frames, group, ret>>  BY DEF WgDone, scopeVars
  <2> QED  BY <2>1 DEF WgDone, TaskInv, Started, TypeOK
<1>8. CountInv'  BY <1>0, <1>2, <1>3, <1>4 DEF CountInv
<1> QED  BY <1>5, <1>6, <1>7, <1>8

LEMMA CoreTaskStep ==
  ASSUME CoreInv, NEW t \in Task, TaskStep(t)
  PROVE  CoreInv'
<1>1. ASSUME NEW th \in Thread, NEW s \in Scope, Go(th, s, t) PROVE CoreInv'
  BY <1>1, CoreGo
<1> QED  BY <1>1, CoreRun, CoreDone DEF TaskStep

-----------------------------------------------------------------------------
(* The invariant, and type correctness.                                    *)

LEMMA CoreNext == CoreInv /\ [Next]_vars => CoreInv'
<1> SUFFICES ASSUME CoreInv, [Next]_vars PROVE CoreInv'  OBVIOUS
<1>1. ASSUME NEW s \in Scope, ScopeStep(s) PROVE CoreInv'
  BY <1>1, CoreScopeStep
<1>2. ASSUME NEW t \in Task, TaskStep(t) PROVE CoreInv'
  BY <1>2, CoreTaskStep
<1>3. CASE CancelParent \/ MainReturns \/ UNCHANGED vars
  <2> USE <1>3 DEF CoreInv, CancelParent, MainReturns, vars
  <2>1. TypeOK'
    <3>1. UNCHANGED <<scopeVars, taskVars, wg, once, err>>  BY DEF groupVars
    <3>2. parentDone' \in BOOLEAN /\ exited' \in BOOLEAN  BY DEF TypeOK
    <3>3. ctx' \in [Scope -> {"none", "live", "cancelled"}]
      BY DEF TypeOK, groupVars
    <3> QED  BY <3>1, <3>2, <3>3 DEF TypeOK, scopeVars, taskVars
  <2>2. StackInv' /\ TaskInv'
    BY StackKept DEF scopeVars, taskVars, TaskInv, Started
  <2>3. CountInv'  BY LiveKept DEF taskVars, groupVars
  <2> QED  BY <2>1, <2>2, <2>3
<1> QED  BY <1>1, <1>2, <1>3 DEF Next, Exited

\* Every reachable state has the types TypeOK gives: no counter ever falls
\* below zero, which the emitted sync.WaitGroup would answer with a panic.
THEOREM TypeCorrect == Spec => []TypeOK
<1>1. Spec => []CoreInv  BY CoreInit, CoreNext, PTL DEF Spec
<1>2. CoreInv => TypeOK  BY DEF CoreInv
<1> QED  BY <1>1, <1>2, PTL

LEMMA CoreInvariant == Spec => []CoreInv
  BY CoreInit, CoreNext, PTL DEF Spec

-----------------------------------------------------------------------------
(* How a failure is recorded: the once, the error slot and the context of  *)
(* one group, for every program the compiler accepts.                      *)

Recording(t) == pc[t] \in {"storing", "cancelling"}

\* A task that started belongs to a scope that was opened.
Opened == \A t \in Task : Started(t) => phase[group[t]] # "unopened"

\* The error slot is written under the once, by a failed task of the group,
\* before the context is cancelled.
SlotInv ==
  \A s \in Scope :
    /\ once[s] = "unused" => err[s] = NoTask
    /\ once[s] # "unused" => phase[s] # "unopened"
    /\ once[s] = "done" => err[s] # NoTask /\ ctx[s] = "cancelled"
    /\ err[s] # NoTask => Started(err[s]) /\ group[err[s]] = s /\ ret[err[s]] = "err"
    /\ ctx[s] = "cancelled" =>
         err[s] # NoTask \/ Joined(s) \/ (s \in WithParent /\ parentDone)

\* What each position of a failed task says about its group.
RecordInv ==
  \A t \in Task :
    /\ Recording(t) => once[group[t]] = "running"
    /\ pc[t] = "storing" => err[group[t]] = NoTask
    /\ pc[t] = "cancelling" => err[group[t]] = t
    /\ pc[t] \in {"leaving", "ended"} /\ ret[t] = "err" => once[group[t]] = "done"

OneRecorder ==
  \A t, u \in Task : Recording(t) /\ Recording(u) /\ group[t] = group[u] => t = u

OnceInv == Opened /\ SlotInv /\ RecordInv /\ OneRecorder

LEMMA OnceInit == Init => OnceInv
  BY DEF Init, OnceInv, Opened, SlotInv, RecordInv, OneRecorder, Started, Recording, Joined

LEMMA OnceScopeStep ==
  ASSUME CoreInv, OnceInv, NEW s \in Scope, ScopeStep(s)
  PROVE  OnceInv'
<1>0. TypeOK /\ TaskInv  BY DEF CoreInv
<1>1. UNCHANGED <<pc, ret, group, once, err, parentDone>>
  BY DEF ScopeStep, OpenScope, CallWait, JoinReturn, CancelOwn, YieldErr,
         BeginTrailing, YieldOk, ReturnFromBody, taskVars, groupVars
<1>2. \A x \in Scope : phase[x] # "unopened" => phase'[x] # "unopened"
  BY <1>0 DEF ScopeStep, OpenScope, CallWait, JoinReturn, CancelOwn, YieldErr,
              BeginTrailing, YieldOk, ReturnFromBody, Leave, TypeOK
<1>3. \A x \in Scope : Joined(x) => Joined(x)'
  BY <1>0 DEF ScopeStep, OpenScope, CallWait, JoinReturn, CancelOwn, YieldErr,
              BeginTrailing, YieldOk, ReturnFromBody, Leave, At, TypeOK, Joined
<1>4. \A x \in Scope : ctx[x] = "cancelled" /\ phase[x] # "unopened" => ctx'[x] = "cancelled"
  BY <1>0 DEF ScopeStep, OpenScope, CallWait, JoinReturn, CancelOwn, YieldErr,
              BeginTrailing, YieldOk, ReturnFromBody, groupVars, TypeOK
<1>5. \A x \in Scope : ctx'[x] = "cancelled" /\ ctx[x] # "cancelled" =>
        Joined(x)' \/ (x \in WithParent /\ parentDone)
  BY <1>0 DEF ScopeStep, OpenScope, CallWait, JoinReturn, CancelOwn, YieldErr,
              BeginTrailing, YieldOk, ReturnFromBody, groupVars, TypeOK, Joined
<1>6. \A t \in Task : Started(t) => group[t] \in Scope  BY <1>0 DEF TaskInv
<1>7. (\A t \in Task : Started(t) => phase[group[t]] # "unopened")'
  BY <1>1, <1>2, <1>6 DEF OnceInv, Opened, SlotInv, RecordInv, OneRecorder, Started
<1>8. \A x \in Scope :
        /\ once'[x] # "unused" => phase'[x] # "unopened"
        /\ once'[x] = "done" => err'[x] # NoTask /\ ctx'[x] = "cancelled"
        /\ ctx'[x] = "cancelled" =>
             err'[x] # NoTask \/ Joined(x)' \/ (x \in WithParent /\ parentDone')
  BY <1>1, <1>2, <1>3, <1>4, <1>5 DEF OnceInv, Opened, SlotInv, RecordInv, OneRecorder
<1> QED  BY <1>1, <1>7, <1>8 DEF OnceInv, Opened, SlotInv, RecordInv, OneRecorder, Started, Recording

LEMMA OnceGo ==
  ASSUME CoreInv, OnceInv,
         NEW th \in Thread, NEW s \in Scope, NEW t \in Task, Go(th, s, t)
  PROVE  OnceInv'
<1>0. TypeOK /\ TaskInv  BY DEF CoreInv
<1>1. UNCHANGED <<phase, ret, once, err, ctx, parentDone>>
  BY DEF Go, scopeVars
<1>2. phase[s] # "unopened"
  <2>1. CASE frames[th] = <<>>
    BY <2>1 DEF Go, SpawnTargets, InUserCode, OnceInv, Opened, SlotInv, RecordInv, OneRecorder, Started
  <2>2. CASE frames[th] # <<>>
    BY <2>2 DEF Go, SpawnTargets
  <2> QED  BY <2>1, <2>2
<1>3. /\ pc[t] = "idle" /\ pc'[t] = "running" /\ group'[t] = s
      /\ \A x \in Task \ {t} : pc'[x] = pc[x] /\ group'[x] = group[x]
  BY <1>0 DEF Go, TypeOK
<1>4. \A x \in Scope : err[x] # NoTask => err[x] \in Task \ {t}
  BY <1>0, <1>3 DEF OnceInv, Opened, SlotInv, RecordInv, OneRecorder, Started, TypeOK
<1>5. \A x \in Task : Recording(x)' => x # t /\ Recording(x)
  BY <1>3 DEF Recording
<1>6. (\A x \in Task : Started(x) => phase[group[x]] # "unopened")'
  BY <1>1, <1>2, <1>3 DEF OnceInv, Opened, SlotInv, RecordInv, OneRecorder, Started
<1>7. (\A x \in Scope : err[x] # NoTask =>
         Started(err[x]) /\ group[err[x]] = x /\ ret[err[x]] = "err")'
  BY <1>1, <1>3, <1>4 DEF OnceInv, Opened, SlotInv, RecordInv, OneRecorder, Started
<1>8. \A x \in Task :
        /\ Recording(x)' => once'[group'[x]] = "running"
        /\ pc'[x] = "storing" => err'[group'[x]] = NoTask
        /\ pc'[x] = "cancelling" => err'[group'[x]] = x
        /\ pc'[x] \in {"leaving", "ended"} /\ ret'[x] = "err" => once'[group'[x]] = "done"
  BY <1>1, <1>3 DEF OnceInv, Opened, SlotInv, RecordInv, OneRecorder, Recording
<1>9. \A x, y \in Task : Recording(x)' /\ Recording(y)' /\ group'[x] = group'[y] => x = y
  BY <1>3, <1>5 DEF OnceInv, Opened, SlotInv, RecordInv, OneRecorder
<1> QED  BY <1>1, <1>6, <1>7, <1>8, <1>9 DEF OnceInv, Opened, SlotInv, RecordInv, OneRecorder, Joined

LEMMA OnceFuncReturns ==
  ASSUME CoreInv, OnceInv, NEW t \in Task, NEW value \in {"ok", "err"},
         FuncReturns(t, value)
  PROVE  OnceInv'
<1>0. TypeOK /\ TaskInv  BY DEF CoreInv
<1>1. UNCHANGED <<phase, group, once, err, ctx, parentDone>>
  BY DEF FuncReturns, scopeVars, groupVars
<1>2. /\ pc[t] = "running" /\ ret[t] = "none"
      /\ ret'[t] = value
      /\ pc'[t] = IF value = "err" THEN "failed" ELSE "leaving"
      /\ \A x \in Task \ {t} : pc'[x] = pc[x] /\ ret'[x] = ret[x]
  BY <1>0 DEF FuncReturns, TypeOK, TaskInv
<1>3. \A x \in Scope : err[x] # NoTask => err[x] \in Task \ {t}
  BY <1>0, <1>2 DEF OnceInv, Opened, SlotInv, RecordInv, OneRecorder, TypeOK
<1>4. (\A x \in Scope : err[x] # NoTask =>
         Started(err[x]) /\ group[err[x]] = x /\ ret[err[x]] = "err")'
  BY <1>1, <1>2, <1>3 DEF OnceInv, Opened, SlotInv, RecordInv, OneRecorder, Started
<1>5. \A x \in Task : (Started(x)' => Started(x)) /\ (Recording(x)' => Recording(x))
  BY <1>2 DEF Started, Recording
<1>6. \A x \in Task :
        /\ Recording(x)' => once'[group'[x]] = "running"
        /\ pc'[x] = "storing" => err'[group'[x]] = NoTask
        /\ pc'[x] = "cancelling" => err'[group'[x]] = x
        /\ pc'[x] \in {"leaving", "ended"} /\ ret'[x] = "err" => once'[group'[x]] = "done"
  BY <1>1, <1>2 DEF OnceInv, Opened, SlotInv, RecordInv, OneRecorder, Recording
<1> QED  BY <1>1, <1>4, <1>5, <1>6 DEF OnceInv, Opened, SlotInv, RecordInv, OneRecorder, Joined

LEMMA OnceLeaveSteps ==
  ASSUME CoreInv, OnceInv, NEW t \in Task, OnceLose(t) \/ WgDone(t)
  PROVE  OnceInv'
<1>0. TypeOK  BY DEF CoreInv
<1>1. UNCHANGED <<phase, ret, group, once, err, ctx, parentDone>>
  BY DEF OnceLose, WgDone, scopeVars, groupVars
<1>2. /\ pc'[t] \in {"leaving", "ended"}
      /\ ret[t] = "err" => once[group[t]] = "done"
      /\ \A x \in Task \ {t} : pc'[x] = pc[x]
  BY <1>0 DEF OnceLose, WgDone, TypeOK, OnceInv, Opened, SlotInv, RecordInv, OneRecorder
<1>3. \A x \in Task : (Started(x)' <=> Started(x)) /\ (Recording(x)' => Recording(x))
  BY <1>2 DEF OnceLose, WgDone, Started, Recording
<1>4. \A x \in Scope : err[x] # NoTask => err[x] \in Task
  BY <1>0 DEF TypeOK
<1>5. \A x \in Task :
        /\ Recording(x)' => once'[group'[x]] = "running"
        /\ pc'[x] = "storing" => err'[group'[x]] = NoTask
        /\ pc'[x] = "cancelling" => err'[group'[x]] = x
        /\ pc'[x] \in {"leaving", "ended"} /\ ret'[x] = "err" => once'[group'[x]] = "done"
  BY <1>1, <1>2 DEF OnceInv, Opened, SlotInv, RecordInv, OneRecorder, Recording
<1> QED  BY <1>1, <1>3, <1>4, <1>5 DEF OnceInv, Opened, SlotInv, RecordInv, OneRecorder, Joined

\* The winner of the once: it enters, stores its error, then cancels.
LEMMA OnceWinnerSteps ==
  ASSUME CoreInv, OnceInv, NEW t \in Task,
         OnceWin(t) \/ StoreErr(t) \/ CancelSiblings(t)
  PROVE  OnceInv'
<1>t. TypeOK /\ TaskInv  BY DEF CoreInv
<1>s. PICK s \in Scope : s = group[t]
  BY <1>t DEF TaskInv, Started, OnceWin, StoreErr, CancelSiblings
<1>0. /\ UNCHANGED <<phase, ret, group, parentDone>>
      /\ group[t] = s /\ ret[t] = "err" /\ Started(t) /\ phase[s] # "unopened"
  BY <1>s, <1>t DEF OnceWin, StoreErr, CancelSiblings, scopeVars, TaskInv, OnceInv, Opened, RecordInv, OneRecorder, Started
<1>1. \A x \in Task \ {t} : pc'[x] = pc[x]
  BY <1>t DEF OnceWin, StoreErr, CancelSiblings, TypeOK
<1>2. \A x \in Scope \ {s} : once'[x] = once[x] /\ err'[x] = err[x] /\ ctx'[x] = ctx[x]
  BY <1>0, <1>t DEF OnceWin, StoreErr, CancelSiblings, TypeOK
<1>3. \A x \in Task \ {t} : group[x] = s => ~Recording(x)
  BY <1>0 DEF OnceInv, Opened, RecordInv, OneRecorder, Recording, OnceWin, StoreErr, CancelSiblings
<1>4. CASE OnceWin(t)
  <2>1. /\ pc'[t] = "storing" /\ once[s] = "unused" /\ once'[s] = "running"
        /\ err'[s] = err[s] /\ ctx'[s] = ctx[s] /\ err[s] = NoTask
    BY <1>0, <1>4, <1>t DEF OnceWin, TypeOK, OnceInv, SlotInv, RecordInv
  <2>2. Opened'  BY <1>0, <1>1, <2>1 DEF OnceInv, Opened, Started
  <2>3. SlotInv'
    <3>1. \A x \in Scope : err[x] # NoTask => err[x] \in Task  BY <1>t DEF TypeOK
    <3>2. \A x \in Task : Started(x) => Started(x)'  BY <1>1, <2>1 DEF Started
    <3>3. Started(t)'  BY <2>1 DEF Started
    <3> QED  BY <1>0, <1>2, <2>1, <3>1, <3>2, <3>3 DEF OnceInv, SlotInv, Joined
  <2>4. RecordInv'
    <3>1. ASSUME NEW x \in Task, x # t, group[x] = s
          PROVE  ~(pc[x] \in {"leaving", "ended"} /\ ret[x] = "err")
      BY <2>1, <3>1 DEF OnceInv, RecordInv
    <3>2. \A x \in Task \ {t} : Started(x) => group[x] \in Scope
      BY <1>t DEF TaskInv
    <3> QED  BY <1>0, <1>1, <1>2, <1>3, <2>1, <3>1, <3>2
             DEF OnceInv, RecordInv, Recording, Started
  <2>5. OneRecorder'
    BY <1>0, <1>1, <1>3, <2>1 DEF OnceInv, OneRecorder, Recording
  <2> QED  BY <2>2, <2>3, <2>4, <2>5 DEF OnceInv
<1>5. CASE StoreErr(t)
  <2>1. /\ pc[t] = "storing" /\ pc'[t] = "cancelling" /\ once[s] = "running"
        /\ once'[s] = "running" /\ err[s] = NoTask /\ err'[s] = t /\ ctx'[s] = ctx[s]
    BY <1>0, <1>5, <1>t DEF StoreErr, TypeOK, OnceInv, SlotInv, RecordInv, Recording
  <2>2. Opened'  BY <1>0, <1>1, <2>1 DEF OnceInv, Opened, Started
  <2>3. SlotInv'
    <3>1. \A x \in Scope : err[x] # NoTask => err[x] \in Task  BY <1>t DEF TypeOK
    <3>2. \A x \in Task : Started(x) => Started(x)'  BY <1>1, <2>1 DEF Started
    <3>3. Started(t)'  BY <2>1 DEF Started
    <3> QED  BY <1>0, <1>2, <2>1, <3>1, <3>2, <3>3 DEF OnceInv, SlotInv, Joined
  <2>4. RecordInv'
    <3>1. ASSUME NEW x \in Task, x # t, group[x] = s
          PROVE  ~(pc[x] \in {"leaving", "ended"} /\ ret[x] = "err")
      BY <2>1, <3>1 DEF OnceInv, RecordInv
    <3>2. \A x \in Task \ {t} : Started(x) => group[x] \in Scope
      BY <1>t DEF TaskInv
    <3> QED  BY <1>0, <1>1, <1>2, <1>3, <2>1, <3>1, <3>2
             DEF OnceInv, RecordInv, Recording, Started
  <2>5. OneRecorder'
    BY <1>0, <1>1, <1>3, <2>1 DEF OnceInv, OneRecorder, Recording
  <2> QED  BY <2>2, <2>3, <2>4, <2>5 DEF OnceInv
<1>6. CASE CancelSiblings(t)
  <2>1. /\ pc[t] = "cancelling" /\ pc'[t] = "leaving" /\ once[s] = "running"
        /\ once'[s] = "done" /\ err[s] = t /\ err'[s] = t /\ ctx'[s] = "cancelled"
    BY <1>0, <1>6, <1>t DEF CancelSiblings, TypeOK, OnceInv, SlotInv, RecordInv, Recording
  <2>2. Opened'  BY <1>0, <1>1, <2>1 DEF OnceInv, Opened, Started
  <2>3. SlotInv'
    <3>1. \A x \in Scope : err[x] # NoTask => err[x] \in Task  BY <1>t DEF TypeOK
    <3>2. \A x \in Task : Started(x) => Started(x)'  BY <1>1, <2>1 DEF Started
    <3>3. Started(t)'  BY <2>1 DEF Started
    <3> QED  BY <1>0, <1>2, <2>1, <3>1, <3>2, <3>3 DEF OnceInv, SlotInv, Joined
  <2>4. RecordInv'
    <3>1. ASSUME NEW x \in Task, x # t, group[x] = s
          PROVE  ~(pc[x] \in {"leaving", "ended"} /\ ret[x] = "err")
      BY <2>1, <3>1 DEF OnceInv, RecordInv
    <3>2. \A x \in Task \ {t} : Started(x) => group[x] \in Scope
      BY <1>t DEF TaskInv
    <3> QED  BY <1>0, <1>1, <1>2, <1>3, <2>1, <3>1, <3>2
             DEF OnceInv, RecordInv, Recording, Started
  <2>5. OneRecorder'
    BY <1>0, <1>1, <1>3, <2>1 DEF OnceInv, OneRecorder, Recording
  <2> QED  BY <2>2, <2>3, <2>4, <2>5 DEF OnceInv
<1> QED  BY <1>4, <1>5, <1>6

LEMMA OnceNext == CoreInv /\ OnceInv /\ [Next]_vars => OnceInv'
<1> SUFFICES ASSUME CoreInv, OnceInv, [Next]_vars PROVE OnceInv'  OBVIOUS
<1>1. ASSUME NEW s \in Scope, ScopeStep(s) PROVE OnceInv'
  BY <1>1, OnceScopeStep
<1>2. ASSUME NEW t \in Task, TaskStep(t) PROVE OnceInv'
  BY <1>2, OnceGo, OnceFuncReturns, OnceLeaveSteps, OnceWinnerSteps DEF TaskStep
<1>3. CASE CancelParent
  <2>1. UNCHANGED <<phase, pc, ret, group, once, err>> /\ parentDone' = TRUE
    BY <1>3 DEF CancelParent, scopeVars, taskVars
  <2>2. \A x \in Scope :
          ctx'[x] = IF x \in WithParent /\ ctx[x] = "live" THEN "cancelled" ELSE ctx[x]
    BY <1>3 DEF CancelParent
  <2> QED  BY <2>1, <2>2 DEF OnceInv, Opened, SlotInv, RecordInv, OneRecorder, Started, Recording, Joined
<1>4. CASE MainReturns \/ UNCHANGED vars
  <2>1. UNCHANGED <<phase, pc, ret, group, once, err, ctx, parentDone>>
    BY <1>4 DEF MainReturns, vars, scopeVars, taskVars, groupVars
  <2> QED  BY <2>1 DEF OnceInv, Opened, SlotInv, RecordInv, OneRecorder, Started, Recording, Joined
<1> QED  BY <1>1, <1>2, <1>3, <1>4 DEF Next, Exited

LEMMA OnceInvariant == Spec => []OnceInv
  BY CoreInvariant, OnceInit, OnceNext, PTL DEF Spec

\* No accepted program can lose a failure by losing the once: when a failed
\* task is gone, an error is recorded and the scope's context cancelled.
THEOREM FailureAlwaysFelt == Spec => []FailureIsFelt
<1>1. CoreInv /\ OnceInv => FailureIsFelt
  BY DEF CoreInv, OnceInv, Opened, SlotInv, RecordInv, OneRecorder, TaskInv, FailureIsFelt, Ended, Started
<1> QED  BY <1>1, CoreInvariant, OnceInvariant, PTL

\* No context is cancelled before the error, the join or the parent that
\* explains it, in any accepted program.
THEOREM CancelAlwaysExplained == Spec => []CancelHasReason
<1>1. OnceInv => CancelHasReason  BY DEF OnceInv, Opened, SlotInv, RecordInv, OneRecorder, CancelHasReason
<1> QED  BY <1>1, OnceInvariant, PTL

\* Failures cancel, and nothing else does, in any accepted program.
THEOREM FailureAlwaysCancels == Spec => []FailureCancels
<1>1. CancelHasReason /\ FailureIsFelt => FailureCancels  BY DEF FailureCancels
<1> QED  BY <1>1, FailureAlwaysFelt, CancelAlwaysExplained, PTL

\* The first recorded failure stays the scope's error, and the value of a
\* scope expression is given once, in any accepted program.
THEOREM FirstFailureAlwaysWins == Spec => FirstFailureWins
<1>1. ASSUME CoreInv, OnceInv, [Next]_vars, NEW s \in Scope
      PROVE  /\ err[s] # NoTask => err'[s] = err[s]
             /\ Over(s) => result'[s] = result[s]
  <2>0. TypeOK /\ TaskInv  BY <1>1 DEF CoreInv
  <2>1. ASSUME NEW x \in Scope, ScopeStep(x)
        PROVE  err' = err /\ (Over(s) => result'[s] = result[s])
    BY <2>0, <2>1 DEF ScopeStep, OpenScope, CallWait, JoinReturn, CancelOwn, YieldErr,
         BeginTrailing, YieldOk, ReturnFromBody, Leave, At, Over, groupVars, TypeOK
  <2>2. ASSUME NEW t \in Task, TaskStep(t)
        PROVE  result' = result /\ (err[s] # NoTask => err'[s] = err[s])
    <3>1. CASE StoreErr(t)
      BY <1>1, <2>0, <3>1 DEF StoreErr, OnceInv, Opened, SlotInv, RecordInv, OneRecorder, TypeOK, TaskInv, Started, scopeVars
    <3>2. CASE ~StoreErr(t)
      BY <2>2, <3>2 DEF TaskStep, Go, FuncReturns, OnceWin, OnceLose, CancelSiblings,
           WgDone, scopeVars, groupVars
    <3> QED  BY <3>1, <3>2
  <2>3. CASE CancelParent \/ MainReturns \/ UNCHANGED vars
    BY <2>3 DEF CancelParent, MainReturns, vars, scopeVars, groupVars
  <2> QED  BY <1>1, <2>1, <2>2, <2>3 DEF Next, Exited
<1>2. CoreInv /\ OnceInv /\ [Next]_vars =>
        [\A s \in Scope :
           /\ err[s] # NoTask => err'[s] = err[s]
           /\ Over(s) => result'[s] = result[s]]_vars
  BY <1>1
<1> QED  BY <1>2, CoreInvariant, OnceInvariant, PTL DEF Spec, FirstFailureWins

-----------------------------------------------------------------------------
(* The join invariant: what a scope guarantees to disciplined programs,    *)
(* those that neither return from a scope nor spawn behind the join.       *)

Busy(t) == pc[t] \notin {"idle", "ended"}

\* While a goroutine is alive its scope has not been joined; a joined scope's
\* context is cancelled, and its result agrees with the error slot.
JoinInv ==
  /\ \A t \in Task : Busy(t) => ~Joined(group[t])
  /\ \A s \in Scope :
       /\ phase[s] # "left"
       /\ phase[s] \in {"cancelled", "trailing", "returned"} => ctx[s] = "cancelled"
       /\ phase[s] = "trailing" => err[s] = NoTask
       /\ phase[s] = "returned" =>
            result[s] = IF err[s] = NoTask THEN [tag |-> "ok", err |-> NoTask]
                        ELSE [tag |-> "err", err |-> err[s]]

LEMMA JoinInit == Init => JoinInv
  BY DEF Init, JoinInv, Joined, Busy

\* A counter of zero means no goroutine of the scope is alive.
LEMMA ZeroMeansQuiet ==
  ASSUME CoreInv, NEW s \in Scope, wg[s] = 0
  PROVE  \A t \in Task : Busy(t) => group[t] # s
<1>1. Cardinality(Live(s)) = 0 /\ IsFiniteSet(Live(s))
  BY LiveFinite DEF CoreInv, CountInv
<1>2. Live(s) = {}  BY <1>1, FS_EmptySet
<1> QED  BY <1>2 DEF Live, Busy

LEMMA JoinScopeStep ==
  ASSUME Disciplined, CoreInv, OnceInv, JoinInv, NEW s \in Scope, ScopeStep(s)
  PROVE  JoinInv'
<1>0. TypeOK /\ TaskInv  BY DEF CoreInv
<1>1. UNCHANGED <<pc, group, err>> /\ ~ReturnFromBody(s)
  BY DEF Disciplined, ScopeStep, OpenScope, CallWait, JoinReturn, CancelOwn,
         YieldErr, BeginTrailing, YieldOk, ReturnFromBody, taskVars, groupVars
<1>2. \A x \in Scope \ {s} : phase'[x] = phase[x] /\ result'[x] = result[x] /\ ctx'[x] = ctx[x]
  BY <1>0 DEF ScopeStep, OpenScope, CallWait, JoinReturn, CancelOwn, YieldErr,
              BeginTrailing, YieldOk, ReturnFromBody, Leave, groupVars, TypeOK
<1>3. Joined(s)' /\ ~Joined(s) => \A t \in Task : Busy(t) => group[t] # s
  <2>1. Joined(s)' /\ ~Joined(s) => JoinReturn(s)
    BY <1>0, <1>1 DEF ScopeStep, OpenScope, CallWait, CancelOwn, YieldErr,
                BeginTrailing, YieldOk, Leave, At, TypeOK, Joined
  <2> QED  BY <2>1, ZeroMeansQuiet DEF JoinReturn
<1>4. \A t \in Task : Busy(t) => group[t] \in Scope
  BY <1>0 DEF TaskInv, Started, Busy
<1>5. (\A t \in Task : Busy(t) => ~Joined(group[t]))'
  <2> SUFFICES ASSUME NEW t \in Task, Busy(t) PROVE ~Joined(group[t])'
    BY <1>1 DEF Busy
  <2>1. ~Joined(group[t]) /\ group[t] \in Scope /\ group'[t] = group[t]
    BY <1>1, <1>4 DEF JoinInv
  <2>2. CASE group[t] = s  BY <1>1, <1>3, <2>1, <2>2 DEF Joined
  <2>3. CASE group[t] # s  BY <1>2, <2>1, <2>3 DEF Joined
  <2> QED  BY <2>2, <2>3
<1>6. /\ phase'[s] # "left"
      /\ phase'[s] \in {"cancelled", "trailing", "returned"} => ctx'[s] = "cancelled"
      /\ phase'[s] = "trailing" => err'[s] = NoTask
      /\ phase'[s] = "returned" =>
           result'[s] = IF err'[s] = NoTask THEN [tag |-> "ok", err |-> NoTask]
                        ELSE [tag |-> "err", err |-> err'[s]]
  <2>1. ASSUME NEW th \in Thread, OpenScope(th, s) PROVE phase'[s] = "body"
    BY <1>0, <2>1 DEF OpenScope, TypeOK
  <2>2. CASE CallWait(s) \/ JoinReturn(s)
    BY <1>0, <2>2 DEF CallWait, JoinReturn, TypeOK
  <2>3. CASE CancelOwn(s)  BY <1>0, <2>3 DEF CancelOwn, TypeOK
  <2>4. CASE BeginTrailing(s)
    BY <1>0, <1>1, <2>4 DEF BeginTrailing, At, JoinInv, groupVars, TypeOK
  <2>5. CASE YieldErr(s) \/ YieldOk(s)
    BY <1>0, <1>1, <2>5 DEF YieldErr, YieldOk, Leave, At, JoinInv, groupVars, TypeOK
  <2> QED  BY <1>1, <2>1, <2>2, <2>3, <2>4, <2>5 DEF ScopeStep
<1>7. \A x \in Scope \ {s} :
      /\ phase'[x] # "left"
      /\ phase'[x] \in {"cancelled", "trailing", "returned"} => ctx'[x] = "cancelled"
      /\ phase'[x] = "trailing" => err'[x] = NoTask
      /\ phase'[x] = "returned" =>
           result'[x] = IF err'[x] = NoTask THEN [tag |-> "ok", err |-> NoTask]
                        ELSE [tag |-> "err", err |-> err'[x]]
  BY <1>1, <1>2 DEF JoinInv
<1> QED  BY <1>5, <1>6, <1>7 DEF JoinInv

\* A spawn never reaches a scope that has been joined.
LEMMA SpawnsBeforeJoin ==
  ASSUME Disciplined, CoreInv, JoinInv,
         NEW th \in Thread, NEW s \in Scope, NEW t \in Task, Go(th, s, t)
  PROVE  ~Joined(s)
<1>1. CASE frames[th] = <<>>
  BY <1>1 DEF Go, SpawnTargets, InUserCode, JoinInv, Busy
<1>2. CASE frames[th] # <<>>
  BY <1>2 DEF Go, SpawnTargets, Disciplined, Joined
<1> QED  BY <1>1, <1>2

LEMMA JoinTaskStep ==
  ASSUME Disciplined, CoreInv, OnceInv, JoinInv, NEW t \in Task, TaskStep(t)
  PROVE  JoinInv'
<1>0. TypeOK /\ TaskInv  BY DEF CoreInv
<1>1. UNCHANGED <<phase, result>>
  BY DEF TaskStep, Go, FuncReturns, OnceWin, OnceLose, StoreErr, CancelSiblings,
         WgDone, scopeVars
<1>2. ASSUME NEW x \in Task, Busy(x)' PROVE ~Joined(group[x])'
  <2>1. CASE \E th \in Thread, s \in Scope : Go(th, s, t)
    <3>1. PICK th \in Thread, s \in Scope : Go(th, s, t)  BY <2>1
    <3>2. CASE x = t
      BY <1>0, <1>1, <3>1, <3>2, SpawnsBeforeJoin DEF Go, Joined, TypeOK
    <3>3. CASE x # t
      BY <1>0, <1>1, <1>2, <3>1, <3>3 DEF Go, Joined, JoinInv, Busy, TypeOK
    <3> QED  BY <3>2, <3>3
  <2>2. CASE ~\E th \in Thread, s \in Scope : Go(th, s, t)
    <3>1. group' = group /\ Busy(x)
      BY <1>0, <1>2, <2>2 DEF TaskStep, FuncReturns, OnceWin, OnceLose, StoreErr,
                CancelSiblings, WgDone, Busy, TypeOK
    <3> QED  BY <1>1, <3>1 DEF JoinInv, Joined
  <2> QED  BY <2>1, <2>2
<1>3. ASSUME NEW s \in Scope, Joined(s)
      PROVE  err'[s] = err[s] /\ (ctx[s] = "cancelled" => ctx'[s] = "cancelled")
  <2>1. group[t] = s => ~Busy(t)  BY <1>3 DEF JoinInv
  <2> QED  BY <1>0, <2>1 DEF TaskStep, Go, FuncReturns, OnceWin, OnceLose, StoreErr,
                CancelSiblings, WgDone, Busy, groupVars, TypeOK, TaskInv, Started
<1>4. \A s \in Scope : phase[s] \in {"cancelled", "trailing", "returned"} => Joined(s)
  BY DEF Joined
<1> QED  BY <1>1, <1>2, <1>3, <1>4 DEF JoinInv

LEMMA JoinNext ==
  Disciplined /\ CoreInv /\ OnceInv /\ JoinInv /\ [Next]_vars => JoinInv'
<1> SUFFICES ASSUME Disciplined, CoreInv, OnceInv, JoinInv, [Next]_vars
             PROVE  JoinInv'
  OBVIOUS
<1>1. CASE CancelParent \/ MainReturns \/ UNCHANGED vars
  <2>1. UNCHANGED <<phase, pc, group, err, result>>
    BY <1>1 DEF CancelParent, MainReturns, vars, scopeVars, taskVars, groupVars
  <2>2. \A s \in Scope : ctx[s] = "cancelled" => ctx'[s] = "cancelled"
    BY <1>1 DEF CancelParent, MainReturns, vars, groupVars
  <2> QED  BY <2>1, <2>2 DEF JoinInv, Joined, Busy
<1> QED  BY <1>1, JoinScopeStep, JoinTaskStep DEF Next, Exited

LEMMA JoinInvariant == Disciplined => (Spec => []JoinInv)
<1> SUFFICES ASSUME Disciplined PROVE Spec => []JoinInv  OBVIOUS
<1> QED  BY CoreInvariant, OnceInvariant, JoinInit, JoinNext, PTL DEF Spec

-----------------------------------------------------------------------------
(* What remains behind a join, in every program.                           *)

\* A goroutine that is alive behind its scope's join is in a scope that has come
\* to its trailing expression; such a scope's context is cancelled and its result
\* is no error.
LateInv ==
  /\ \A t \in Task : Busy(t) /\ Joined(group[t]) =>
       phase[group[t]] \in {"trailing", "returned"} /\ result[group[t]].tag # "err"
  /\ \A s \in Scope :
       /\ phase[s] \in {"cancelled", "trailing", "returned"} => ctx[s] = "cancelled"
       /\ phase[s] \notin {"returned", "left"} => result[s].tag = "none"

LEMMA LateInit == Init => LateInv
  BY DEF Init, LateInv, Joined, Busy

LEMMA LateScopeStep ==
  ASSUME CoreInv, LateInv, NEW s \in Scope, ScopeStep(s)
  PROVE  LateInv'
<1>0. TypeOK /\ TaskInv  BY DEF CoreInv
<1>1. UNCHANGED <<pc, group>>
  BY DEF ScopeStep, OpenScope, CallWait, JoinReturn, CancelOwn,
         YieldErr, BeginTrailing, YieldOk, ReturnFromBody, taskVars
<1>2. \A x \in Scope \ {s} : phase'[x] = phase[x] /\ result'[x] = result[x] /\ ctx'[x] = ctx[x]
  BY <1>0 DEF ScopeStep, OpenScope, CallWait, JoinReturn, CancelOwn, YieldErr,
              BeginTrailing, YieldOk, ReturnFromBody, Leave, groupVars, TypeOK
<1>3. /\ phase'[s] \in {"cancelled", "trailing", "returned"} => ctx'[s] = "cancelled"
      /\ phase'[s] \notin {"returned", "left"} => result'[s].tag = "none"
  <2>1. ASSUME NEW th \in Thread, OpenScope(th, s)
        PROVE phase'[s] = "body" /\ result' = result /\ phase[s] = "unopened"
    BY <1>0, <2>1 DEF OpenScope, TypeOK
  <2>2. CASE CallWait(s) \/ JoinReturn(s)
    <3>1. /\ phase[s] \in {"body", "waiting"} /\ phase'[s] \in {"waiting", "joined"}
          /\ UNCHANGED <<result, ctx>>
      BY <1>0, <2>2 DEF CallWait, JoinReturn, At, groupVars, TypeOK
    <3> QED  BY <3>1 DEF LateInv
  <2>3. CASE CancelOwn(s)  BY <1>0, <2>3 DEF CancelOwn, At, LateInv, TypeOK
  <2>4. CASE BeginTrailing(s)
    BY <1>0, <2>4 DEF BeginTrailing, At, LateInv, groupVars, TypeOK
  <2>5. CASE YieldErr(s) \/ YieldOk(s)
    BY <1>0, <2>5 DEF YieldErr, YieldOk, Leave, At, LateInv, groupVars, TypeOK
  <2>6. CASE ReturnFromBody(s)
    BY <1>0, <2>6 DEF ReturnFromBody, Leave, TypeOK
  <2> QED  BY <2>1, <2>2, <2>3, <2>4, <2>5, <2>6 DEF ScopeStep, LateInv
<1>4. ASSUME NEW t \in Task, Busy(t), group[t] = s, Joined(s)'
      PROVE  phase'[s] \in {"trailing", "returned"} /\ result'[s].tag # "err"
  <2>1. CASE ~Joined(s)
    <3>1. JoinReturn(s)
      BY <1>0, <1>4, <2>1 DEF ScopeStep, OpenScope, CallWait, CancelOwn, YieldErr,
                BeginTrailing, YieldOk, ReturnFromBody, Leave, At, TypeOK, Joined
    <3> QED  BY <1>4, <3>1, ZeroMeansQuiet DEF JoinReturn
  <2>2. CASE Joined(s)
    <3>1. phase[s] \in {"trailing", "returned"} /\ result[s].tag # "err"
      BY <1>4, <2>2 DEF LateInv
    <3>2. YieldOk(s)
      BY <1>0, <3>1 DEF ScopeStep, OpenScope, CallWait, JoinReturn, CancelOwn, YieldErr,
                BeginTrailing, ReturnFromBody, At
    <3> QED  BY <1>0, <3>2 DEF YieldOk, Leave, TypeOK
  <2> QED  BY <2>1, <2>2
<1>5. ASSUME NEW t \in Task, Busy(t)', Joined(group[t])'
      PROVE  phase'[group'[t]] \in {"trailing", "returned"} /\ result'[group'[t]].tag # "err"
  <2>1. Busy(t) /\ group'[t] = group[t] /\ group[t] \in Scope
    BY <1>0, <1>1, <1>5 DEF Busy, TaskInv, Started
  <2>2. CASE group[t] = s  BY <1>4, <1>5, <2>1, <2>2 DEF Joined
  <2>3. CASE group[t] # s  BY <1>2, <1>5, <2>1, <2>3 DEF Joined, LateInv
  <2> QED  BY <2>2, <2>3
<1> QED  BY <1>2, <1>3, <1>5 DEF LateInv

\* A spawn reaches a scope that has been joined only from its trailing expression,
\* or from a goroutine that is late itself.
LEMMA LateSpawn ==
  ASSUME CoreInv, LateInv,
         NEW th \in Thread, NEW s \in Scope, NEW t \in Task, Go(th, s, t), Joined(s)
  PROVE  phase[s] \in {"trailing", "returned"} /\ result[s].tag # "err"
<1>1. CASE frames[th] = <<>>
  BY <1>1 DEF Go, SpawnTargets, InUserCode, LateInv, Busy
<1>2. CASE frames[th] # <<>>
  <2>1. phase[s] = "trailing"
    BY <1>2 DEF Go, SpawnTargets, Joined
  <2> QED  BY <2>1 DEF LateInv
<1> QED  BY <1>1, <1>2

LEMMA LateTaskStep ==
  ASSUME CoreInv, LateInv, NEW t \in Task, TaskStep(t)
  PROVE  LateInv'
<1>0. TypeOK /\ TaskInv  BY DEF CoreInv
<1>1. UNCHANGED <<phase, result>>
  BY DEF TaskStep, Go, FuncReturns, OnceWin, OnceLose, StoreErr, CancelSiblings,
         WgDone, scopeVars
<1>2. ASSUME NEW x \in Task, Busy(x)', Joined(group[x])'
      PROVE  phase'[group'[x]] \in {"trailing", "returned"} /\ result'[group'[x]].tag # "err"
  <2>1. CASE \E th \in Thread, s \in Scope : Go(th, s, t)
    <3>1. PICK th \in Thread, s \in Scope : Go(th, s, t)  BY <2>1
    <3>2. CASE x = t
      <4>1. group'[x] = s /\ Joined(s)
        BY <1>0, <1>1, <1>2, <3>1, <3>2 DEF Go, Joined, TypeOK
      <4> QED  BY <1>1, <3>1, <4>1, LateSpawn
    <3>3. CASE x # t
      BY <1>0, <1>1, <1>2, <3>1, <3>3 DEF Go, Joined, LateInv, Busy, TypeOK
    <3> QED  BY <3>2, <3>3
  <2>2. CASE ~\E th \in Thread, s \in Scope : Go(th, s, t)
    <3>1. group' = group /\ Busy(x)
      BY <1>0, <1>2, <2>2 DEF TaskStep, FuncReturns, OnceWin, OnceLose, StoreErr,
                CancelSiblings, WgDone, Busy, TypeOK
    <3> QED  BY <1>1, <1>2, <3>1 DEF LateInv, Joined
  <2> QED  BY <2>1, <2>2
<1>3. \A s \in Scope : ctx[s] = "cancelled" => ctx'[s] = "cancelled"
  BY <1>0 DEF TaskStep, Go, FuncReturns, OnceWin, OnceLose, StoreErr,
              CancelSiblings, WgDone, groupVars, TypeOK, TaskInv, Started
<1> QED  BY <1>1, <1>2, <1>3 DEF LateInv

LEMMA LateNext == CoreInv /\ LateInv /\ [Next]_vars => LateInv'
<1> SUFFICES ASSUME CoreInv, LateInv, [Next]_vars PROVE LateInv'
  OBVIOUS
<1>1. CASE CancelParent \/ MainReturns \/ UNCHANGED vars
  <2>1. UNCHANGED <<phase, pc, group, result>>
    BY <1>1 DEF CancelParent, MainReturns, vars, scopeVars, taskVars
  <2>2. \A s \in Scope : ctx[s] = "cancelled" => ctx'[s] = "cancelled"
    BY <1>1 DEF CancelParent, MainReturns, vars, groupVars
  <2> QED  BY <2>1, <2>2 DEF LateInv, Joined, Busy
<1> QED  BY <1>1, LateScopeStep, LateTaskStep DEF Next, Exited

\* In every program the compiler accepts, whatever runs behind a scope's join was
\* spawned behind it, and its failure can no longer change what the scope yields.
THEOREM OnlyLateBlocksEverRemain == Spec => []OnlyLateBlocksRemain
<1>1. CoreInv /\ LateInv => OnlyLateBlocksRemain
  <2> SUFFICES ASSUME CoreInv, LateInv, NEW t \in Task,
                      Started(t), ~Ended(t), Joined(group[t])
               PROVE  /\ phase[group[t]] \in {"trailing", "returned"}
                      /\ result[group[t]].tag # "err"
                      /\ ctx[group[t]] = "cancelled"
    BY DEF OnlyLateBlocksRemain
  <2>1. Busy(t) /\ group[t] \in Scope
    BY DEF CoreInv, TaskInv, Started, Ended, Busy
  <2> QED  BY <2>1 DEF LateInv
<1> QED  BY <1>1, CoreInvariant, LateInit, LateNext, PTL DEF Spec

-----------------------------------------------------------------------------
(* The contracts.                                                          *)

\* The join contract: in a disciplined program neither the trailing expression
\* nor the code after the scope runs before every task of the scope, and
\* every scope such a task opened, has finished.
THEOREM JoinContractHolds == Disciplined => (Spec => []JoinContract)
<1> SUFFICES ASSUME Disciplined PROVE Spec => []JoinContract  OBVIOUS
<1>1. CoreInv /\ JoinInv => JoinContract
  <2> SUFFICES ASSUME CoreInv, JoinInv, NEW s \in Scope, Joined(s) \/ Over(s),
                      NEW t \in InGroup(s)
               PROVE  /\ Ended(t)
                      /\ \A inner \in Scope :
                           phase[inner] # "unopened" /\ owner[inner] = t => Over(inner)
    BY DEF JoinContract
  <2>1. t \in Task /\ Started(t) /\ group[t] = s  BY DEF InGroup
  <2>2. Joined(s)  BY DEF JoinInv, Over, Joined
  <2>3. Ended(t)  BY <2>1, <2>2 DEF JoinInv, Busy, Started, Ended
  <2>4. frames[t] = <<>>  BY <2>1, <2>3 DEF CoreInv, TaskInv, Ended
  <2>5. Depths(t) = {}  BY <2>4 DEF Depths
  <2> QED  BY <2>1, <2>3, <2>5 DEF CoreInv, StackInv, Active, Over
<1> QED  BY <1>1, CoreInvariant, JoinInvariant, PTL

\* The failure contract: a joined scope yields Err exactly when a task of it
\* failed, with such a task's error, and evaluates its trailing expression
\* only when none did.
THEOREM FailureContractHolds == Disciplined => (Spec => []FailureContract)
<1> SUFFICES ASSUME Disciplined PROVE Spec => []FailureContract  OBVIOUS
<1>1. CoreInv /\ OnceInv /\ JoinInv => FailureContract
  <2> SUFFICES ASSUME CoreInv, OnceInv, JoinInv, NEW s \in Scope,
                      phase[s] \in {"trailing", "returned"}
               PROVE  LET failed == {t \in InGroup(s) : ret[t] = "err"} IN
                      /\ phase[s] = "returned" =>
                           IF failed = {} THEN result[s].tag = "ok"
                           ELSE result[s].tag = "err" /\ result[s].err \in failed
                      /\ phase[s] = "trailing" => failed = {}
    BY DEF FailureContract
  <2> DEFINE failed == {t \in InGroup(s) : ret[t] = "err"}
  <2>1. Joined(s)  BY DEF Joined
  <2>2. \A t \in failed : pc[t] = "ended" /\ group[t] = s /\ t \in Task
    BY <2>1 DEF JoinInv, Busy, InGroup, Started
  <2>3. failed # {} => err[s] # NoTask
    BY <2>2 DEF OnceInv, RecordInv, SlotInv
  <2>4. err[s] # NoTask => err[s] \in failed
    BY DEF CoreInv, TypeOK, OnceInv, SlotInv, InGroup
  <2>5. phase[s] = "trailing" => failed = {}  BY <2>3 DEF JoinInv
  <2>6. CASE phase[s] = "returned" /\ failed = {}
    <3>1. err[s] = NoTask  BY <2>4, <2>6
    <3>2. result[s] = [tag |-> "ok", err |-> NoTask]  BY <2>6, <3>1 DEF JoinInv
    <3>3. result[s].tag = "ok"  BY <3>2
    <3> QED  BY <2>6, <3>3
  <2>7. CASE phase[s] = "returned" /\ failed # {}
    <3>1. err[s] # NoTask  BY <2>3, <2>7
    <3>2. result[s] = [tag |-> "err", err |-> err[s]]  BY <2>7, <3>1 DEF JoinInv
    <3>3. result[s].tag = "err" /\ result[s].err = err[s]  BY <3>2
    <3> QED  BY <2>4, <2>7, <3>1, <3>3
  <2> QED  BY <2>5, <2>6, <2>7
<1> QED  BY <1>1, CoreInvariant, OnceInvariant, JoinInvariant, PTL

\* No context outlives its scope in a disciplined program.
THEOREM NoContextLeaks == Disciplined => (Spec => []NoContextLeak)
<1> SUFFICES ASSUME Disciplined PROVE Spec => []NoContextLeak  OBVIOUS
<1>1. JoinInv => NoContextLeak  BY DEF JoinInv, NoContextLeak, Over
<1> QED  BY <1>1, JoinInvariant, PTL

\* The WaitGroup of a scope is never added to after its Wait has returned.
THEOREM NoWaitGroupReuse == Disciplined => (Spec => NoAddAfterWait)
<1> SUFFICES ASSUME Disciplined PROVE Spec => NoAddAfterWait  OBVIOUS
<1>1. ASSUME CoreInv, JoinInv, [Next]_vars, NEW s \in Scope, Joined(s)
      PROVE  wg'[s] <= wg[s]
  <2>0. TypeOK  BY <1>1 DEF CoreInv
  <2>1. wg[s] \in Nat  BY <2>0 DEF TypeOK
  <2>2. ASSUME NEW x \in Scope, ScopeStep(x) PROVE wg' = wg
    BY <2>2 DEF ScopeStep, OpenScope, CallWait, JoinReturn, CancelOwn, YieldErr,
                BeginTrailing, YieldOk, ReturnFromBody, groupVars
  <2>3. ASSUME NEW t \in Task, TaskStep(t) PROVE wg'[s] <= wg[s]
    <3>1. ASSUME NEW th \in Thread, NEW x \in Scope, Go(th, x, t)
          PROVE  wg'[s] = wg[s]
      BY <1>1, <2>0, <3>1, SpawnsBeforeJoin DEF Go, TypeOK
    <3>2. CASE WgDone(t)  BY <2>0, <2>1, <3>2 DEF WgDone, TypeOK
    <3> QED  BY <2>1, <2>3, <3>1, <3>2
             DEF TaskStep, FuncReturns, OnceWin, OnceLose, StoreErr, CancelSiblings, groupVars
  <2>4. CASE CancelParent \/ MainReturns \/ UNCHANGED vars
    BY <2>1, <2>4 DEF CancelParent, MainReturns, vars, groupVars
  <2> QED  BY <1>1, <2>1, <2>2, <2>3, <2>4 DEF Next, Exited
<1>2. CoreInv /\ JoinInv /\ [Next]_vars =>
        [\A s \in Scope : Joined(s) => wg'[s] <= wg[s]]_vars
  BY <1>1
<1> QED  BY <1>2, CoreInvariant, JoinInvariant, PTL DEF Spec, NoAddAfterWait

-----------------------------------------------------------------------------
(* No goroutine is cut off by the end of func main.                        *)

\* A scope belongs to a thread that has started, and the goroutines alive form
\* no closed set: of any of them, one belongs to a scope evaluated outside.
RootInv ==
  /\ \A s \in Scope : phase[s] # "unopened" /\ owner[s] \in Task => Started(owner[s])
  /\ \A T \in SUBSET {t \in Task : Busy(t)} :
       T # {} => \E t \in T : owner[group[t]] \notin T

LEMMA RootInit == Init => RootInv
  BY DEF Init, RootInv, Busy

LEMMA RootGo ==
  ASSUME CoreInv, OnceInv, RootInv,
         NEW th \in Thread, NEW s \in Scope, NEW t \in Task, Go(th, s, t)
  PROVE  RootInv'
<1>0. TypeOK  BY DEF CoreInv
<1>1. /\ UNCHANGED <<phase, owner>> /\ pc[t] = "idle" /\ group'[t] = s /\ pc'[t] = "running"
      /\ \A x \in Task \ {t} : pc'[x] = pc[x] /\ group'[x] = group[x]
  BY <1>0 DEF Go, scopeVars, TypeOK
<1>2. \A x \in Scope : phase[x] # "unopened" => owner[x] # t
  BY <1>1 DEF RootInv, Started
<1>3. phase[s] # "unopened"
  <2>1. CASE frames[th] = <<>>
    BY <2>1 DEF Go, SpawnTargets, InUserCode, OnceInv, Opened, Started
  <2>2. CASE frames[th] # <<>>  BY <2>2 DEF Go, SpawnTargets
  <2> QED  BY <2>1, <2>2
<1>4. ASSUME NEW T \in SUBSET {x \in Task : Busy(x)'}, T # {}
      PROVE  \E x \in T : owner[group'[x]] \notin T
  <2> DEFINE U == T \ {t}
  <2>1. U \in SUBSET {x \in Task : Busy(x)}  BY <1>1 DEF Busy
  <2>2. CASE U = {}
    <3>1. T = {t}  BY <1>4, <2>2
    <3> QED  BY <1>1, <1>2, <1>3, <3>1
  <2>3. CASE U # {}
    <3>1. PICK x \in U : owner[group[x]] \notin U  BY <2>1, <2>3 DEF RootInv
    <3>2. group[x] \in Scope /\ phase[group[x]] # "unopened"
      BY <2>1, <3>1 DEF CoreInv, TaskInv, OnceInv, Opened, Started, Busy
    <3> QED  BY <1>1, <1>2, <2>1, <3>1, <3>2
  <2> QED  BY <2>2, <2>3
<1>5. \A x \in Task : Started(x) => Started(x)'  BY <1>1 DEF Started
<1> QED  BY <1>1, <1>4, <1>5 DEF RootInv

LEMMA RootNext == CoreInv /\ OnceInv /\ RootInv /\ [Next]_vars => RootInv'
<1> SUFFICES ASSUME CoreInv, OnceInv, RootInv, [Next]_vars PROVE RootInv'  OBVIOUS
<1>0. TypeOK /\ TaskInv  BY DEF CoreInv
<1>1. ASSUME NEW s \in Scope, ScopeStep(s) PROVE RootInv'
  <2>1. UNCHANGED <<pc, group>>
    BY <1>1 DEF ScopeStep, OpenScope, CallWait, JoinReturn, CancelOwn, YieldErr,
                BeginTrailing, YieldOk, ReturnFromBody, taskVars
  <2>2. \A x \in Scope :
          phase[x] # "unopened" => owner'[x] = owner[x]
    BY <1>0, <1>1 DEF ScopeStep, OpenScope, CallWait, JoinReturn, CancelOwn, YieldErr,
         BeginTrailing, YieldOk, ReturnFromBody, Leave, At, InUserCode, Started, TypeOK
  <2>3. \A x \in Scope :
          phase'[x] # "unopened" /\ owner'[x] \in Task => Started(owner'[x])
    <3>1. ASSUME NEW th \in Thread, OpenScope(th, s), NEW x \in Scope,
                 phase'[x] # "unopened", owner'[x] \in Task
          PROVE  Started(owner'[x])
      BY <1>0, <3>1 DEF OpenScope, InUserCode, Started, RootInv, TypeOK
    <3>2. CASE ~\E th \in Thread : OpenScope(th, s)
      BY <1>0, <1>1, <3>2 DEF ScopeStep, CallWait, JoinReturn, CancelOwn, YieldErr,
         BeginTrailing, YieldOk, ReturnFromBody, Leave, At, RootInv, TypeOK
    <3> QED  BY <3>1, <3>2
  <2>4. \A t \in Task : Busy(t) => group[t] \in Scope /\ phase[group[t]] # "unopened"
    BY <1>0 DEF TaskInv, OnceInv, Opened, Started, Busy
  <2>5. \A t \in Task : Busy(t) => owner'[group[t]] = owner[group[t]]
    BY <2>2, <2>4
  <2> QED  BY <2>1, <2>3, <2>5 DEF RootInv, Started, Busy
<1>2. ASSUME NEW t \in Task, TaskStep(t), ~\E th \in Thread, s \in Scope : Go(th, s, t)
      PROVE  RootInv'
  <2>1. UNCHANGED <<phase, owner, group>>
    BY <1>2 DEF TaskStep, FuncReturns, OnceWin, OnceLose, StoreErr, CancelSiblings,
                WgDone, scopeVars
  <2>2. \A x \in Task : (Busy(x)' => Busy(x)) /\ (Started(x) => Started(x)')
    BY <1>0, <1>2 DEF TaskStep, FuncReturns, OnceWin, OnceLose, StoreErr, CancelSiblings,
                WgDone, Busy, Started, TypeOK
  <2> QED  BY <2>1, <2>2 DEF RootInv
<1>3. CASE CancelParent \/ MainReturns \/ UNCHANGED vars
  <2>1. UNCHANGED <<phase, owner, pc, group>>
    BY <1>3 DEF CancelParent, MainReturns, vars, scopeVars, taskVars
  <2> QED  BY <2>1 DEF RootInv, Busy, Started
<1> QED  BY <1>1, <1>2, <1>3, RootGo DEF Next, TaskStep, Exited

LEMMA RootInvariant == Spec => []RootInv
  BY CoreInvariant, OnceInvariant, RootInit, RootNext, PTL DEF Spec

\* In a disciplined program func main never returns past a running goroutine,
\* however deep the scopes nest.
THEOREM NoOrphans == Disciplined => (Spec => []NoOrphanAtExit)
<1> SUFFICES ASSUME Disciplined PROVE Spec => []NoOrphanAtExit  OBVIOUS
<1>1. Init => NoOrphanAtExit  BY DEF Init, NoOrphanAtExit
<1>2. CoreInv /\ OnceInv /\ JoinInv /\ RootInv /\ NoOrphanAtExit /\ [Next]_vars
        => NoOrphanAtExit'
  <2> SUFFICES ASSUME CoreInv, OnceInv, JoinInv, RootInv, NoOrphanAtExit, [Next]_vars
               PROVE  NoOrphanAtExit'
    OBVIOUS
  <2>1. CASE exited
    BY <2>1 DEF Next, ScopeStep, TaskStep, OpenScope, CallWait, JoinReturn, CancelOwn,
         YieldErr, BeginTrailing, YieldOk, ReturnFromBody, At, InUserCode, Go,
         FuncReturns, OnceWin, OnceLose, StoreErr, CancelSiblings, WgDone,
         CancelParent, MainReturns, Exited, vars, taskVars, NoOrphanAtExit, Started, Ended
  <2>2. CASE MainReturns
    <3> DEFINE T == {t \in Task : Busy(t)}
    <3>1. T = {}
      <4> SUFFICES ASSUME T # {} PROVE FALSE  OBVIOUS
      <4>1. PICK t \in T : owner[group[t]] \notin T  BY DEF RootInv
      <4>2. group[t] \in Scope /\ Active(group[t])
        BY DEF CoreInv, TaskInv, OnceInv, Opened, JoinInv, Joined, Active, Started, Busy
      <4>3. PICK th \in Thread : th = owner[group[t]]
        BY <4>2 DEF CoreInv, TypeOK
      <4>4. frames[th] # <<>>
        BY <4>2, <4>3 DEF CoreInv, StackInv, Depths
      <4>5. th \in Task => th \in T  BY <4>4 DEF CoreInv, TaskInv, Busy
      <4> QED  BY <2>2, <4>1, <4>3, <4>4, <4>5 DEF MainReturns, Thread
    <3> QED  BY <2>2, <3>1 DEF MainReturns, NoOrphanAtExit, Busy, Started, Ended, taskVars
  <2>3. CASE ~exited /\ ~MainReturns
    <3>1. exited' = exited
      BY <2>3 DEF Next, ScopeStep, TaskStep, OpenScope, CallWait, JoinReturn, CancelOwn,
         YieldErr, BeginTrailing, YieldOk, ReturnFromBody, Go, FuncReturns, OnceWin,
         OnceLose, StoreErr, CancelSiblings, WgDone, CancelParent, Exited, vars
    <3> QED  BY <2>3, <3>1 DEF NoOrphanAtExit
  <2> QED  BY <2>1, <2>2, <2>3
<1> QED  BY <1>1, <1>2, CoreInvariant, OnceInvariant, JoinInvariant, RootInvariant, PTL
        DEF Spec

\* In a disciplined program a scope leaves no goroutine and no context behind.
THEOREM NothingEverOutlives == Disciplined => (Spec => []NothingOutlives)
<1> SUFFICES ASSUME Disciplined PROVE Spec => []NothingOutlives  OBVIOUS
<1>1. NoOrphanAtExit /\ NoContextLeak => NothingOutlives  BY DEF NothingOutlives
<1> QED  BY <1>1, NoOrphans, NoContextLeaks, PTL

-----------------------------------------------------------------------------
(* TideGroup implements StructuredScope for disciplined programs: each     *)
(* step of the emitted code is a step of the contract or invisible to it.  *)

LEMMA RefineInit == Init => Contract!Init
<1> SUFFICES ASSUME Init PROVE Contract!Init  OBVIOUS
<1>1. \A s \in Scope : StageOf(s) = "unopened"  BY DEF Init, StageOf, Over
<1>2. \A t \in Task : BlockOf(t) = "idle"  BY DEF Init, BlockOf
<1> QED  BY <1>1, <1>2 DEF Init, Contract!Init

\* A step that keeps the contract's variables.
LEMMA RefineStutter ==
  ASSUME UNCHANGED <<pc, ret, group, err, result>>,
         \A s \in Scope : StageOf(s)' = StageOf(s)
  PROVE  UNCHANGED Contract!vars
<1>1. [s \in Scope |-> StageOf(s)]' = [s \in Scope |-> StageOf(s)]  OBVIOUS
<1>2. [t \in Task |-> BlockOf(t)]' = [t \in Task |-> BlockOf(t)]  BY DEF BlockOf
<1> QED  BY <1>1, <1>2 DEF Contract!vars

\* A joined scope's blocks have all returned.
LEMMA JoinedIsQuiet ==
  ASSUME CoreInv, JoinInv, NEW s \in Scope, Joined(s)
  PROVE  Contract!Quiet(s)
<1>1. ASSUME NEW t \in Task, group[t] = s PROVE BlockOf(t) # "running"
  <2>1. ~Busy(t)  BY <1>1 DEF JoinInv
  <2>2. ret[t] # "running"  BY DEF CoreInv, TypeOK
  <2> QED  BY <2>1, <2>2 DEF Busy, BlockOf
<1> QED  BY <1>1 DEF Contract!Quiet, Contract!Members

LEMMA RefineScopeStep ==
  ASSUME Disciplined, CoreInv, OnceInv, JoinInv, NEW s \in Scope, ScopeStep(s)
  PROVE  [Contract!Next]_(Contract!vars)
<1>0. TypeOK  BY DEF CoreInv
<1>1. UNCHANGED <<pc, ret, group, err>> /\ ~ReturnFromBody(s)
  BY DEF Disciplined, ScopeStep, OpenScope, CallWait, JoinReturn, CancelOwn,
         YieldErr, BeginTrailing, YieldOk, ReturnFromBody, taskVars, groupVars
<1>2. [t \in Task |-> BlockOf(t)]' = [t \in Task |-> BlockOf(t)]
  BY <1>1 DEF BlockOf
<1>3. ASSUME NEW st,
             phase' = [phase EXCEPT ![s] = st]
      PROVE  [x \in Scope |-> StageOf(x)]' = [[x \in Scope |-> StageOf(x)] EXCEPT ![s] = StageOf(s)']
  <2>1. \A x \in Scope \ {s} : StageOf(x)' = StageOf(x)
    BY <1>0, <1>3 DEF StageOf, Over, TypeOK
  <2> QED  BY <2>1
<1>4. ASSUME NEW th \in Thread, OpenScope(th, s) PROVE Contract!Open(s)
  <2>1. StageOf(s) = "unopened" /\ StageOf(s)' = "open"
    BY <1>0, <1>4 DEF OpenScope, StageOf, Over, TypeOK
  <2> QED  BY <1>1, <1>2, <1>3, <1>4, <2>1 DEF OpenScope, Contract!Open
<1>5. CASE CallWait(s) \/ JoinReturn(s) \/ CancelOwn(s)
  <2>1. \A x \in Scope : StageOf(x)' = StageOf(x)
    BY <1>0, <1>5 DEF CallWait, JoinReturn, CancelOwn, At, StageOf, Over, TypeOK
  <2>2. UNCHANGED result  BY <1>5 DEF CallWait, JoinReturn, CancelOwn
  <2> QED  BY <1>1, <2>1, <2>2, RefineStutter
<1>6. CASE YieldErr(s)
  <2>1. StageOf(s) = "open" /\ StageOf(s)' = "returned" /\ Joined(s)
    BY <1>0, <1>6 DEF YieldErr, At, Leave, StageOf, Over, Joined, TypeOK
  <2>2. Contract!Fail(s)
    BY <1>1, <1>2, <1>3, <1>6, <2>1, JoinedIsQuiet DEF YieldErr, Leave, Contract!Fail
  <2> QED  BY <2>2 DEF Contract!Next
<1>7. CASE BeginTrailing(s)
  <2>1. StageOf(s) = "open" /\ StageOf(s)' = "trailing" /\ Joined(s)
    BY <1>0, <1>7 DEF BeginTrailing, At, StageOf, Over, Joined, TypeOK
  <2>2. Contract!NoFailure(s)
    <3>1. \A t \in Task : group[t] = s => BlockOf(t) # "err"
      BY <1>0, <1>7, <2>1 DEF BeginTrailing, CoreInv, TaskInv, TypeOK, JoinInv, Busy,
           OnceInv, RecordInv, SlotInv, BlockOf
    <3> QED  BY <3>1 DEF Contract!NoFailure, Contract!Members
  <2>3. Contract!BeginTrailing(s)
    BY <1>1, <1>2, <1>3, <1>7, <2>1, <2>2, JoinedIsQuiet
       DEF BeginTrailing, Contract!BeginTrailing
  <2> QED  BY <2>3 DEF Contract!Next
<1>8. CASE YieldOk(s)
  <2>1. StageOf(s) = "trailing" /\ StageOf(s)' = "returned"
    BY <1>0, <1>8 DEF YieldOk, At, Leave, StageOf, Over, TypeOK
  <2>2. Contract!Succeed(s)
    BY <1>1, <1>2, <1>3, <1>8, <2>1 DEF YieldOk, Leave, Contract!Succeed
  <2> QED  BY <2>2 DEF Contract!Next
<1> QED  BY <1>1, <1>4, <1>5, <1>6, <1>7, <1>8 DEF ScopeStep, Contract!Next

LEMMA RefineTaskStep ==
  ASSUME Disciplined, CoreInv, OnceInv, JoinInv, NEW t \in Task, TaskStep(t)
  PROVE  [Contract!Next]_(Contract!vars)
<1>0. TypeOK /\ TaskInv  BY DEF CoreInv
<1>1. UNCHANGED <<phase, result>>
  BY DEF TaskStep, Go, FuncReturns, OnceWin, OnceLose, StoreErr, CancelSiblings,
         WgDone, scopeVars
<1>2. \A s \in Scope : StageOf(s)' = StageOf(s)  BY <1>1 DEF StageOf, Over
<1>3. [s \in Scope |-> StageOf(s)]' = [s \in Scope |-> StageOf(s)]  BY <1>2
<1>4. ASSUME NEW th \in Thread, NEW s \in Scope, Go(th, s, t) PROVE Contract!Next
  <2>1. [x \in Task |-> BlockOf(x)]' = [[x \in Task |-> BlockOf(x)] EXCEPT ![t] = "running"]
    BY <1>0, <1>4 DEF Go, BlockOf, TypeOK
  <2>2. StageOf(s) = "open"
    <3>1. phase[s] = "body" \/ phase[s] = "waiting"
      <4>1. ~Joined(s)  BY <1>4, SpawnsBeforeJoin
      <4>2. phase[s] # "unopened"
        BY <1>4 DEF Go, SpawnTargets, InUserCode, OnceInv, Opened, Started
      <4> QED  BY <1>0, <4>1, <4>2 DEF Joined, JoinInv, TypeOK
    <3> QED  BY <3>1 DEF StageOf, Over
  <2>3. BlockOf(t) = "idle"  BY <1>4 DEF Go, BlockOf
  <2>4. Contract!Spawn(s, t)
    BY <1>1, <1>3, <1>4, <2>1, <2>2, <2>3 DEF Go, Contract!Spawn
  <2> QED  BY <2>4 DEF Contract!Next
<1>5. ASSUME NEW value \in {"ok", "err"}, FuncReturns(t, value) PROVE Contract!Next
  <2>1. [x \in Task |-> BlockOf(x)]' = [[x \in Task |-> BlockOf(x)] EXCEPT ![t] = value]
    BY <1>0, <1>5 DEF FuncReturns, BlockOf, TypeOK
  <2>2. BlockOf(t) = "running"  BY <1>5 DEF FuncReturns, BlockOf
  <2>3. Contract!Finish(t, value)
    BY <1>1, <1>3, <1>5, <2>1, <2>2 DEF FuncReturns, groupVars, Contract!Finish
  <2> QED  BY <2>3 DEF Contract!Next
<1>6. CASE StoreErr(t)
  <2>1. PICK s \in Scope : s = group[t]  BY <1>0, <1>6 DEF StoreErr, TaskInv, Started
  <2>2. [x \in Task |-> BlockOf(x)]' = [x \in Task |-> BlockOf(x)]
    BY <1>0, <1>6 DEF StoreErr, BlockOf, TypeOK
  <2>3. ~Joined(s) /\ phase[s] # "unopened"
    BY <1>6, <2>1 DEF StoreErr, JoinInv, Busy, OnceInv, Opened, Started
  <2>4. StageOf(s) = "open"
    BY <1>0, <2>3 DEF StageOf, Over, Joined, JoinInv, TypeOK
  <2>5. BlockOf(t) = "err" /\ err[s] = NoTask
    BY <1>0, <1>6, <2>1 DEF StoreErr, BlockOf, TaskInv, OnceInv, RecordInv
  <2>6. Contract!Report(s, t)
    BY <1>1, <1>3, <1>6, <2>1, <2>2, <2>4, <2>5
       DEF StoreErr, Contract!Report, Contract!Members
  <2> QED  BY <2>6 DEF Contract!Next
<1>7. CASE OnceWin(t) \/ OnceLose(t) \/ CancelSiblings(t) \/ WgDone(t)
  <2>1. UNCHANGED <<ret, group, err, result>>
    BY <1>1, <1>7 DEF OnceWin, OnceLose, CancelSiblings, WgDone, groupVars
  <2>2. \A x \in Task : BlockOf(x)' = BlockOf(x)
    BY <1>0, <1>7 DEF OnceWin, OnceLose, CancelSiblings, WgDone, BlockOf, TypeOK
  <2>3. [x \in Task |-> BlockOf(x)]' = [x \in Task |-> BlockOf(x)]  BY <2>2
  <2> QED  BY <1>3, <2>1, <2>3 DEF Contract!vars
<1> QED  BY <1>4, <1>5, <1>6, <1>7 DEF TaskStep

\* Every behaviour of a disciplined program, seen as scopes, blocks, winners
\* and values, is one the language's contract for scopes allows.
THEOREM Refinement == Disciplined => (Spec => ImplementsContract)
<1> SUFFICES ASSUME Disciplined PROVE Spec => ImplementsContract  OBVIOUS
<1>1. Init => Contract!Init  BY RefineInit
<1>2. CoreInv /\ OnceInv /\ JoinInv /\ [Next]_vars => [Contract!Next]_(Contract!vars)
  <2> SUFFICES ASSUME CoreInv, OnceInv, JoinInv, [Next]_vars
               PROVE  [Contract!Next]_(Contract!vars)
    OBVIOUS
  <2>1. CASE CancelParent \/ MainReturns \/ UNCHANGED vars
    <3>1. UNCHANGED <<phase, pc, ret, group, err, result>>
      BY <2>1 DEF CancelParent, MainReturns, vars, scopeVars, taskVars, groupVars
    <3>2. \A s \in Scope : StageOf(s)' = StageOf(s)  BY <3>1 DEF StageOf, Over
    <3> QED  BY <3>1, <3>2, RefineStutter
  <2> QED  BY <2>1, RefineScopeStep, RefineTaskStep DEF Next, Exited
<1> QED  BY <1>1, <1>2, CoreInvariant, OnceInvariant, JoinInvariant, PTL
        DEF Spec, ImplementsContract, Contract!Spec
=============================================================================
