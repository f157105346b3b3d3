--------------------------- MODULE FanOutProofs ---------------------------
(***************************************************************************)
(* The fan-out idiom for every number of blocks, every capacity and every  *)
(* interleaving.  The argument is one invariant in four parts: Phases ties *)
(* what a block's code does to what the scope knows of it, Behind says     *)
(* that everything is joined once the scope is past Wait, Collector says   *)
(* where the collector may be, and Tally counts the values sent.           *)
(***************************************************************************)
EXTENDS FanOut, FiniteSetTheorems, TLAPS

SentOf == {w \in Worker : place[w] = "return"}
Past   == stage[TheScope] \in {"trailing", "returned"}

Phases ==
  \A w \in Worker :
    /\ member[w] = TheScope <=> block[w] # "idle"
    /\ place[w] = "send" => block[w] = "running"
    /\ place[w] = "return" => block[w] \in {"running", "ok"}
    /\ block[w] = "ok" => place[w] = "return"

Behind ==
  /\ Past => \A w \in Worker : block[w] \in {"ok", "err"}
  /\ stage[TheScope] = "trailing" \/ value[TheScope].tag = "ok" =>
       \A w \in Worker : block[w] = "ok"
  /\ value[TheScope].tag = "ok" => drained

Collector ==
  /\ chan.closed \/ out # <<>> \/ drained =>
       IF program.afterJoin THEN Past ELSE Spawned
  /\ chan.closed => program.closes
  /\ crashed => chan.closed /\ ~Past

Tally ==
  /\ Zero \in Range(out) =>
       /\ program.polls /\ program.closes /\ ~drained
       /\ chan.closed /\ chan.buf = <<>>
       /\ SentOf \subseteq Range(Front(out))
  /\ drained => chan.buf = <<>> /\ (program.polls => ~program.closes)
             /\ (program.closes => chan.closed)
  /\ Zero \notin Range(out) =>
       /\ Len(out) + Len(chan.buf) = Cardinality(SentOf)
       /\ Range(out) \cup Range(chan.buf) = SentOf
  /\ Len(chan.buf) =< Cardinality(SentOf)

Inv == TypeOK /\ Phases /\ Behind /\ Collector /\ Tally

USE WorkerAssumption, ScopeAssumption, CapAssumption, ProgramAssumption
    DEF TheScope, scopeVars, userVars, vars

-----------------------------------------------------------------------------
(* The steps of the scope, as this module uses them.                       *)

LEMMA Opened ==
  ASSUME Open
  PROVE  /\ ~crashed /\ stage[TheScope] = "unopened"
         /\ stage' = [stage EXCEPT ![TheScope] = "open"]
         /\ UNCHANGED <<block, member, winner, value, userVars>>
BY DEF Open, S!Open

LEMMA SpawnedOne ==
  ASSUME NEW w \in Worker, Spawn(w)
  PROVE  /\ ~crashed /\ stage[TheScope] = "open" /\ block[w] = "idle"
         /\ block'  = [block EXCEPT ![w] = "running"]
         /\ member' = [member EXCEPT ![w] = TheScope]
         /\ UNCHANGED <<stage, winner, value, userVars>>
BY DEF Spawn, S!Spawn

LEMMA Failed ==
  ASSUME NEW w \in Worker, FetchFails(w)
  PROVE  /\ ~crashed /\ place[w] = "fetch" /\ block[w] = "running"
         /\ block' = [block EXCEPT ![w] = "err"]
         /\ UNCHANGED <<stage, member, winner, value, userVars>>
BY DEF FetchFails, S!Finish

LEMMA Returned ==
  ASSUME NEW w \in Worker, ReturnOk(w)
  PROVE  /\ ~crashed /\ place[w] = "return" /\ block[w] = "running"
         /\ block' = [block EXCEPT ![w] = "ok"]
         /\ UNCHANGED <<stage, member, winner, value, userVars>>
BY DEF ReturnOk, S!Finish

LEMMA Reported ==
  ASSUME NEW w \in Worker, Report(w)
  PROVE  /\ winner' = [winner EXCEPT ![TheScope] = w]
         /\ UNCHANGED <<stage, block, member, value, userVars>>
BY DEF Report, S!Report

LEMMA WaitFailed ==
  ASSUME WaitFails, TypeOK, Phases
  PROVE  /\ ~crashed /\ stage[TheScope] = "open" /\ Joined
         /\ \A w \in Worker : block[w] # "running"
         /\ stage' = [stage EXCEPT ![TheScope] = "returned"]
         /\ value' = [value EXCEPT ![TheScope] = [tag |-> "err", err |-> winner[TheScope]]]
         /\ UNCHANGED <<block, member, winner, userVars>>
BY DEF WaitFails, S!Fail, S!Quiet, S!Members, Phases, TypeOK

LEMMA WaitJoined ==
  ASSUME WaitDone, TypeOK, Phases
  PROVE  /\ ~crashed /\ stage[TheScope] = "open" /\ Joined
         /\ \A w \in Worker : block[w] \notin {"running", "err"}
         /\ stage' = [stage EXCEPT ![TheScope] = "trailing"]
         /\ UNCHANGED <<block, member, winner, value, userVars>>
BY DEF WaitDone, S!BeginTrailing, S!Quiet, S!NoFailure, S!Members, Phases, TypeOK

LEMMA Succeeded ==
  ASSUME Succeed
  PROVE  /\ ~crashed /\ drained /\ stage[TheScope] = "trailing"
         /\ stage' = [stage EXCEPT ![TheScope] = "returned"]
         /\ value' = [value EXCEPT ![TheScope] = [tag |-> "ok", err |-> NoWorker]]
         /\ UNCHANGED <<block, member, winner, userVars>>
BY DEF Succeed, S!Succeed

\* Wait is only reached with every block spawned.
LEMMA JoinedSpawned ==
  ASSUME Joined, TypeOK, Collector
  PROVE  Spawned
BY DEF Joined, Collector

-----------------------------------------------------------------------------
(* Every step keeps the invariant.                                         *)

LEMMA TypeStep == TypeOK /\ Phases /\ [Next]_vars => TypeOK'
<1> SUFFICES ASSUME TypeOK, Phases, [Next]_vars PROVE TypeOK'
  OBVIOUS
<1> USE DEF TypeOK
<1>1. CASE Open  BY <1>1, Opened
<1>2. CASE \E w \in Worker : Spawn(w)
  BY <1>2, SpawnedOne, ZenonT(30)
<1>3. CASE Close  BY <1>3 DEF Close, Closed, Chan
<1>4. CASE RangeNext
  <2>1. Recv(chan) = Head(chan.buf) /\ AfterRecv(chan) = Chan(chan.cap, Tail(chan.buf), chan.closed)
    BY <1>4 DEF RangeNext, Recv, AfterRecv
  <2>2. Head(chan.buf) \in Worker /\ Tail(chan.buf) \in Seq(Worker) /\ Len(Tail(chan.buf)) =< Cap
    BY <1>4 DEF RangeNext
  <2> QED  BY <1>4, <2>1, <2>2 DEF RangeNext, Chan
<1>5. CASE RangeEnd  BY <1>5 DEF RangeEnd
<1>6. CASE PollSome
  <2>1. CASE chan.buf = <<>>
    BY <1>6, <2>1 DEF PollSome, TryRecv, Recv, AfterRecv
  <2>2. CASE chan.buf # <<>>
    <3>1. TryRecv(chan) = Head(chan.buf) /\ AfterRecv(chan) = Chan(chan.cap, Tail(chan.buf), chan.closed)
      BY <2>2 DEF TryRecv, CanRecv, Recv, AfterRecv
    <3>2. Head(chan.buf) \in Worker /\ Tail(chan.buf) \in Seq(Worker) /\ Len(Tail(chan.buf)) =< Cap
      BY <2>2
    <3> QED  BY <1>6, <3>1, <3>2 DEF PollSome, Chan
  <2> QED  BY <2>1, <2>2
<1>7. CASE PollNone  BY <1>7 DEF PollNone
<1>8. CASE WaitFails  BY <1>8, WaitFailed
<1>9. CASE WaitDone  BY <1>9, WaitJoined
<1>10. CASE Succeed  BY <1>10, Succeeded
<1>11. ASSUME NEW w \in Worker, FetchFails(w) PROVE TypeOK'
  BY <1>11, Failed
<1>12. ASSUME NEW w \in Worker, Fetched(w) PROVE TypeOK'
  BY <1>12 DEF Fetched
<1>13. ASSUME NEW w \in Worker, Send(w) PROVE TypeOK'
  BY <1>13 DEF Send, CanSend, Sent, Chan
<1>14. ASSUME NEW w \in Worker, SendPanic(w) PROVE TypeOK'
  BY <1>14 DEF SendPanic
<1>15. ASSUME NEW w \in Worker, ReturnOk(w) PROVE TypeOK'
  BY <1>15, Returned
<1>16. ASSUME NEW w \in Worker, Report(w) PROVE TypeOK'
  BY <1>16, Reported
<1>17. CASE Ended \/ UNCHANGED vars  BY <1>17 DEF Ended
<1> QED
  BY <1>1, <1>2, <1>3, <1>4, <1>5, <1>6, <1>7, <1>8, <1>9, <1>10, <1>11, <1>12, <1>13,
     <1>14, <1>15, <1>16, <1>17 DEF Next, Owner, Body

\* The steps that are not a block's own leave every block where it is.
LEMMA OwnerSteps ==
  ASSUME TypeOK, Phases,
         Open \/ Close \/ RangeNext \/ RangeEnd \/ PollSome \/ PollNone
           \/ WaitFails \/ WaitDone \/ Succeed \/ Ended \/ UNCHANGED vars
  PROVE  UNCHANGED <<block, member, place, program>>
<1>1. CASE Open  BY <1>1, Opened
<1>2. CASE WaitFails  BY <1>2, WaitFailed
<1>3. CASE WaitDone  BY <1>3, WaitJoined
<1>4. CASE Succeed  BY <1>4, Succeeded
<1> QED
  BY <1>1, <1>2, <1>3, <1>4
     DEF Close, RangeNext, RangeEnd, PollSome, PollNone, Ended

LEMMA PhasesStep == TypeOK /\ Phases /\ [Next]_vars => Phases'
<1> SUFFICES ASSUME TypeOK, Phases, [Next]_vars PROVE Phases'
  OBVIOUS
<1> USE DEF TypeOK, Phases
<1>1. ASSUME NEW w \in Worker, Spawn(w) PROVE Phases'
  BY <1>1, SpawnedOne
<1>2. ASSUME NEW w \in Worker, FetchFails(w) PROVE Phases'
  BY <1>2, Failed
<1>3. ASSUME NEW w \in Worker, Fetched(w) PROVE Phases'
  BY <1>3 DEF Fetched
<1>4. ASSUME NEW w \in Worker, Send(w) PROVE Phases'
  BY <1>4 DEF Send
<1>5. ASSUME NEW w \in Worker, SendPanic(w) PROVE Phases'
  BY <1>5 DEF SendPanic
<1>6. ASSUME NEW w \in Worker, ReturnOk(w) PROVE Phases'
  BY <1>6, Returned
<1>7. ASSUME NEW w \in Worker, Report(w) PROVE Phases'
  BY <1>7, Reported
<1>8. UNCHANGED <<block, member, place>> => Phases'
  OBVIOUS
<1> QED
  BY <1>1, <1>2, <1>3, <1>4, <1>5, <1>6, <1>7, <1>8, OwnerSteps DEF Next, Owner, Body

\* A block takes a step of its code only while the scope is still open.
LEMMA RunningIsEarly ==
  ASSUME Behind, NEW w \in Worker, block[w] = "running"
  PROVE  ~Past /\ value[TheScope].tag # "ok"
BY DEF Behind, Past

LEMMA BehindStep ==
  TypeOK /\ Phases /\ Behind /\ Collector /\ [Next]_vars => Behind'
<1> SUFFICES ASSUME TypeOK, Phases, Behind, Collector, [Next]_vars PROVE Behind'
  OBVIOUS
<1>1. ASSUME NEW w \in Worker, Spawn(w) PROVE Behind'
  BY <1>1, SpawnedOne DEF TypeOK, Behind, Past
<1>2. ASSUME NEW w \in Worker, FetchFails(w) \/ ReturnOk(w) \/ Report(w) PROVE Behind'
  BY <1>2, Failed, Returned, Reported DEF TypeOK, Behind, Past
<1>3. ASSUME NEW w \in Worker, Fetched(w) \/ Send(w) \/ SendPanic(w) PROVE Behind'
  BY <1>3 DEF Fetched, Send, SendPanic, Behind, Past
<1>4. CASE Open
  BY <1>4, Opened DEF TypeOK, Behind, Past
<1>5. CASE Close \/ RangeNext \/ RangeEnd \/ PollSome \/ PollNone \/ Ended \/ UNCHANGED vars
  BY <1>5 DEF Close, RangeNext, RangeEnd, PollSome, PollNone, Ended, Behind, Past
<1>6. CASE WaitFails
  <2>1. \A w \in Worker : block[w] \in {"ok", "err"}
    BY <1>6, WaitFailed, JoinedSpawned DEF TypeOK, Spawned
  <2> QED
    BY <1>6, <2>1, WaitFailed DEF TypeOK, Behind, Past
<1>7. CASE WaitDone
  <2>1. \A w \in Worker : block[w] = "ok"
    BY <1>7, WaitJoined, JoinedSpawned DEF TypeOK, Spawned
  <2> QED
    BY <1>7, <2>1, WaitJoined DEF TypeOK, Behind, Past
<1>8. CASE Succeed
  BY <1>8, Succeeded DEF TypeOK, Behind, Past
<1> QED
  BY <1>1, <1>2, <1>3, <1>4, <1>5, <1>6, <1>7, <1>8 DEF Next, Owner, Body

LEMMA CollectorStep ==
  TypeOK /\ Phases /\ Behind /\ Collector /\ [Next]_vars => Collector'
<1> SUFFICES ASSUME TypeOK, Phases, Behind, Collector, [Next]_vars PROVE Collector'
  OBVIOUS
<1>1. ASSUME NEW w \in Worker, Spawn(w) PROVE Collector'
  BY <1>1, SpawnedOne DEF TypeOK, Collector, Past, Spawned
<1>2. ASSUME NEW w \in Worker, FetchFails(w) \/ ReturnOk(w) \/ Report(w) PROVE Collector'
  BY <1>2, Failed, Returned, Reported DEF TypeOK, Collector, Past, Spawned
<1>3. ASSUME NEW w \in Worker, Fetched(w) PROVE Collector'
  BY <1>3 DEF Fetched, Collector, Past, Spawned
<1>4. ASSUME NEW w \in Worker, Send(w) PROVE Collector'
  BY <1>4 DEF Send, Sent, Chan, Collector, Past, Spawned
<1>5. ASSUME NEW w \in Worker, SendPanic(w) PROVE Collector'
  BY <1>5, RunningIsEarly DEF SendPanic, SendPanics, Collector, Past, Spawned
<1>6. CASE Open
  BY <1>6, Opened DEF TypeOK, Collector, Past, Spawned
<1>7. Collecting => IF program.afterJoin THEN Past ELSE Spawned
  BY DEF Collecting, Past
<1>8. CASE Close
  BY <1>7, <1>8 DEF Close, Closed, Chan, Collector, Past, Spawned
<1>9. CASE RangeNext \/ PollSome
  <2>1. /\ IF program.afterJoin THEN Past ELSE Spawned
        /\ UNCHANGED <<scopeVars, program, crashed>> /\ chan'.closed = chan.closed
    BY <1>7, <1>9 DEF RangeNext, PollSome, Looping, AfterRecv, Chan
  <2> QED
    BY <2>1 DEF Collector, Past, Spawned
<1>10. CASE RangeEnd \/ PollNone
  BY <1>7, <1>10 DEF RangeEnd, PollNone, Looping, Collector, Past, Spawned
<1>11. CASE WaitFails
  BY <1>11, WaitFailed DEF TypeOK, Collector, Past, Spawned
<1>12. CASE WaitDone
  BY <1>12, WaitJoined DEF TypeOK, Collector, Past, Spawned
<1>13. CASE Succeed
  BY <1>13, Succeeded DEF TypeOK, Collector, Past, Spawned
<1>14. CASE Ended \/ UNCHANGED vars
  BY <1>14 DEF Ended, Collector, Past, Spawned
<1> QED
  BY <1>1, <1>2, <1>3, <1>4, <1>5, <1>6, <1>8, <1>9, <1>10, <1>11, <1>12, <1>13, <1>14
     DEF Next, Owner, Body

-----------------------------------------------------------------------------
(* Counting what is sent.                                                  *)

LEMMA RangeAppend ==
  ASSUME NEW T, NEW s \in Seq(T), NEW x \in T
  PROVE  Range(Append(s, x)) = Range(s) \cup {x}
<1>1. DOMAIN Append(s, x) = 1..(Len(s) + 1) /\ DOMAIN s = 1..Len(s) /\ Len(s) \in Nat
  OBVIOUS
<1>2. Append(s, x)[Len(s) + 1] = x /\ \A i \in 1..Len(s) : Append(s, x)[i] = s[i]
  OBVIOUS
<1> QED
  BY <1>1, <1>2 DEF Range

LEMMA FrontAppend ==
  ASSUME NEW T, NEW s \in Seq(T), NEW x \in T
  PROVE  Front(Append(s, x)) = s
<1>1. Len(Append(s, x)) - 1 = Len(s) /\ Len(s) \in Nat
  OBVIOUS
<1>2. SubSeq(Append(s, x), 1, Len(s)) = s
  OBVIOUS
<1> QED
  BY <1>1, <1>2 DEF Front

LEMMA RangeHeadTail ==
  ASSUME NEW T, NEW s \in Seq(T), s # <<>>
  PROVE  Range(s) = {Head(s)} \cup Range(Tail(s))
<1>1. /\ DOMAIN s = 1..Len(s) /\ Len(s) \in Nat \ {0} /\ Head(s) = s[1]
      /\ DOMAIN Tail(s) = 1..(Len(s) - 1)
      /\ \A i \in 1..(Len(s) - 1) : Tail(s)[i] = s[i + 1]
  OBVIOUS
<1>2. \A i \in 2..Len(s) : i - 1 \in 1..(Len(s) - 1) /\ s[i] = Tail(s)[i - 1]
  BY <1>1
<1>3. ASSUME NEW i \in DOMAIN s PROVE s[i] \in {Head(s)} \cup Range(Tail(s))
  <2>1. CASE i = 1  BY <1>1, <2>1
  <2>2. CASE i # 1
    <3>1. i \in 2..Len(s)  BY <1>1, <2>2
    <3> QED  BY <1>1, <1>2, <3>1 DEF Range
  <2> QED  BY <2>1, <2>2
<1>4. Head(s) \in Range(s)
  BY <1>1 DEF Range
<1>5. ASSUME NEW i \in DOMAIN Tail(s) PROVE Tail(s)[i] \in Range(s)
  <2>1. i + 1 \in DOMAIN s  BY <1>1
  <2> QED  BY <1>1, <2>1 DEF Range
<1> QED
  BY <1>3, <1>4, <1>5 DEF Range

LEMMA SentFinite == IsFiniteSet(SentOf) /\ Cardinality(SentOf) \in Nat
<1>1. SentOf \subseteq Worker  BY DEF SentOf
<1> QED  BY <1>1, FS_Subset, FS_CardinalityType

LEMMA MoveKeepsLength ==
  ASSUME NEW s \in Seq(Worker \cup {Zero}), NEW t \in Seq(Worker), t # <<>>,
         NEW x \in Worker
  PROVE  Len(Append(s, x)) + Len(Tail(t)) = Len(s) + Len(t)
OBVIOUS

\* The collector takes the first value of the buffer.
LEMMA TallyTake ==
  ASSUME TypeOK, Tally, chan.buf # <<>>, ~drained,
         out'  = Append(out, Head(chan.buf)),
         chan' = Chan(chan.cap, Tail(chan.buf), chan.closed),
         UNCHANGED <<program, place, drained>>
  PROVE  Tally'
<1>0. /\ chan.buf # <<>> /\ chan.buf \in Seq(Worker) /\ out \in Seq(Worker \cup {Zero})
      /\ Head(chan.buf) \in Worker
  BY DEF TypeOK
<1>1. Head(chan.buf) \in Worker /\ chan'.buf = Tail(chan.buf) /\ chan'.buf \in Seq(Worker)
      /\ Len(chan'.buf) = Len(chan.buf) - 1 /\ Len(chan.buf) \in Nat \ {0}
  BY DEF TypeOK, Chan
<1>2. Range(chan.buf) = {Head(chan.buf)} \cup Range(chan'.buf)
  BY <1>1, RangeHeadTail DEF TypeOK
<1>3. /\ Range(out') = Range(out) \cup {Head(chan.buf)}
      /\ Len(out') = Len(out) + 1 /\ Len(out) \in Nat
  <2>1. out \in Seq(Worker \cup {Zero}) /\ Head(chan.buf) \in Worker \cup {Zero}
    BY <1>1 DEF TypeOK
  <2> QED  BY <2>1, RangeAppend
<1>4. SentOf' = SentOf
  BY DEF SentOf
<1>5. Zero \notin Range(out) /\ Zero \notin Range(out')
  BY <1>1, <1>3 DEF Tally
<1>6. Range(out') \cup Range(chan'.buf) = Range(out) \cup Range(chan.buf)
  <2>1. \A x : x \in Range(out') <=> x \in Range(out) \/ x = Head(chan.buf)
    BY <1>3
  <2>2. \A x : x \in Range(chan.buf) <=> x = Head(chan.buf) \/ x \in Range(chan'.buf)
    BY <1>2
  <2> QED  BY <2>1, <2>2, Zenon
<1>7. Len(out') + Len(chan'.buf) = Len(out) + Len(chan.buf)
  <2>2. out' = Append(out, Head(chan.buf)) /\ chan'.buf = Tail(chan.buf)
    BY <1>1
  <2> QED  BY <1>0, <2>2, MoveKeepsLength, ZenonT(30)
<1>8. Len(chan'.buf) =< Cardinality(SentOf)
  BY <1>1, SentFinite DEF Tally
<1> QED
  BY <1>4, <1>5, <1>6, <1>7, <1>8 DEF Tally

LEMMA TallyStep == Inv /\ [Next]_vars => Tally'
<1> SUFFICES ASSUME TypeOK, Phases, Behind, Collector, Tally, [Next]_vars PROVE Tally'
  BY DEF Inv
<1>1. UNCHANGED <<program, place, chan, out, drained>> => Tally'
  BY DEF Tally, SentOf
<1>2. ASSUME NEW w \in Worker, Send(w) PROVE Tally'
  <2>1. /\ block[w] = "running" /\ place[w] = "send" /\ ~chan.closed
        /\ UNCHANGED <<program, out, drained>>
        /\ chan'.buf = Append(chan.buf, w) /\ chan'.closed = chan.closed
    BY <1>2 DEF Send, CanSend, Sent, Chan
  <2>2. ~drained
    BY <2>1, RunningIsEarly DEF Tally, Collector, Past, TypeOK
  <2>3. SentOf' = SentOf \cup {w} /\ w \notin SentOf
    BY <1>2, <2>1 DEF Send, SentOf, TypeOK
  <2>4. Cardinality(SentOf') = Cardinality(SentOf) + 1
    BY <2>3, SentFinite, FS_AddElement
  <2>5. Range(chan'.buf) = Range(chan.buf) \cup {w} /\ Len(chan'.buf) = Len(chan.buf) + 1
    BY <2>1, RangeAppend DEF TypeOK
  <2>6. Len(chan.buf) \in Nat /\ Len(out) \in Nat
    BY DEF TypeOK
  <2>7. Len(chan'.buf) =< Cardinality(SentOf')
    BY <2>4, <2>5, <2>6, SentFinite DEF Tally
  <2>8. Zero \notin Range(out) =>
          /\ Len(out) + Len(chan'.buf) = Cardinality(SentOf')
          /\ Range(out) \cup Range(chan'.buf) = SentOf'
    BY <2>3, <2>4, <2>5, <2>6, SentFinite DEF Tally
  <2> QED
    BY <2>1, <2>2, <2>7, <2>8 DEF Tally
<1>3. ASSUME NEW w \in Worker, Fetched(w) PROVE Tally'
  <2>1. SentOf' = SentOf /\ UNCHANGED <<program, chan, out, drained>>
    BY <1>3 DEF Fetched, SentOf, TypeOK
  <2> QED
    BY <2>1 DEF Tally
<1>4. CASE RangeNext
  BY <1>4, TallyTake DEF RangeNext, Looping, Recv, AfterRecv
<1>5. CASE PollSome
  <2>1. CASE chan.buf = <<>>
    <3>1. /\ TryRecv(chan) = Zero /\ chan' = chan /\ chan.closed
          /\ UNCHANGED <<program, place, drained>> /\ program.polls /\ ~drained
      BY <1>5, <2>1 DEF PollSome, TryRecv, CanRecv, Recv, AfterRecv, Looping
    <3>2. CASE OneZero
      <4>1. out' = out
        BY <1>5, <3>2 DEF PollSome
      <4> QED
        BY <1>1, <3>1, <4>1
    <3>3. CASE ~OneZero
      <4>1. out' = Append(out, Zero) /\ out \in Seq(Worker \cup {Zero})
        BY <1>5, <3>1, <3>3 DEF PollSome, TypeOK
      <4>2. Zero \in Range(out') /\ Front(out') = out
        BY <4>1, RangeAppend, FrontAppend
      <4>3. SentOf' = SentOf
        BY <3>1 DEF SentOf
      <4>4. Range(chan.buf) = {}
        BY <2>1 DEF Range
      <4>5. SentOf \subseteq Range(out)
        BY <3>3, <4>4 DEF Tally, OneZero
      <4>6. program.closes
        BY <3>1 DEF Collector
      <4>7. Len(chan'.buf) =< Cardinality(SentOf)
        BY <3>1 DEF Tally
      <4> QED
        BY <2>1, <3>1, <4>2, <4>3, <4>5, <4>6, <4>7 DEF Tally
    <3> QED
      BY <3>2, <3>3
  <2>2. CASE chan.buf # <<>>
    <3>1. ~OneZero
      BY <2>2 DEF Tally, OneZero
    <3> QED
      BY <1>5, <2>2, <3>1, TallyTake DEF PollSome, Looping, TryRecv, CanRecv, Recv, AfterRecv
  <2> QED
    BY <2>1, <2>2
<1>6. CASE RangeEnd
  BY <1>6 DEF RangeEnd, Looping, Drained, Tally, SentOf, Collector, TypeOK
<1>7. CASE PollNone
  <2>1. ~CanRecv(chan)
    <3>1. chan.buf # <<>> => Head(chan.buf) \in Worker
      BY DEF TypeOK
    <3> QED
      BY <1>7, <3>1 DEF PollNone, TryRecv, Recv
  <2>2. chan.buf = <<>> /\ ~chan.closed /\ ~program.closes
    BY <1>7, <2>1 DEF PollNone, Looping, CanRecv
  <2> QED
    BY <1>7, <2>2 DEF PollNone, Tally, SentOf
<1>8. CASE Close
  <2>1. ~chan.closed /\ chan'.buf = chan.buf /\ UNCHANGED <<program, place, out, drained>>
    BY <1>8 DEF Close, ClosePanics, Closed, Chan
  <2>2. Zero \notin Range(out) /\ (drained => chan'.closed) /\ SentOf' = SentOf
    BY <1>8, <2>1 DEF Close, Closed, Chan, Tally, SentOf
  <2> QED
    BY <2>1, <2>2 DEF Tally
<1>9. ASSUME NEW w \in Worker,
             FetchFails(w) \/ SendPanic(w) \/ ReturnOk(w) \/ Report(w) \/ Spawn(w)
      PROVE  Tally'
  BY <1>1, <1>9, Failed, Returned, Reported, SpawnedOne DEF SendPanic
<1>10. CASE Open \/ WaitFails \/ WaitDone \/ Succeed \/ Ended \/ UNCHANGED vars
  BY <1>1, <1>10, Opened, WaitFailed, WaitJoined, Succeeded DEF Ended
<1> QED
  BY <1>2, <1>3, <1>4, <1>5, <1>6, <1>7, <1>8, <1>9, <1>10 DEF Next, Owner, Body

LEMMA InitInv == Init => Inv
<1> SUFFICES ASSUME Init PROVE Inv
  OBVIOUS
<1> USE DEF Init, S!Init
<1>1. TypeOK
  <2>1. value \in [{TheScope} -> [tag : {"none", "ok", "err"}, err : Worker \cup {NoWorker}]]
    OBVIOUS
  <2>2. chan \in [cap : {Cap}, buf : Seq(Worker), closed : BOOLEAN] /\ Len(chan.buf) =< Cap
    BY DEF MakeChannel, Chan
  <2>3. stage \in [{TheScope} -> {"unopened", "open", "trailing", "returned"}]
    OBVIOUS
  <2>4. /\ block \in [Worker -> {"idle", "running", "ok", "err"}]
        /\ member \in [Worker -> {TheScope, NoScope}]
        /\ winner \in [{TheScope} -> Worker \cup {NoWorker}]
        /\ place \in [Worker -> {"fetch", "send", "return"}]
    OBVIOUS
  <2>5. out \in Seq(Worker \cup {Zero})
    <3>1. <<>> \in Seq(Worker \cup {Zero})  OBVIOUS
    <3> QED  BY <3>1, Zenon
  <2>6. program \in Programs /\ drained \in BOOLEAN /\ crashed \in BOOLEAN
    BY Zenon
  <2> QED
    BY <2>1, <2>2, <2>3, <2>4, <2>5, <2>6, Zenon DEF TypeOK
<1>2. Phases  BY DEF Phases
<1>3. Behind  BY DEF Behind, Past
<1>4. Collector  BY DEF Collector, MakeChannel, Chan
<1>5. Tally
  <2>1. SentOf = {} /\ Range(out) = {} /\ Range(chan.buf) = {} /\ Len(out) = 0 /\ Len(chan.buf) = 0
    BY DEF SentOf, Range, MakeChannel, Chan
  <2>2. Cardinality(SentOf) = 0
    BY <2>1, FS_EmptySet
  <2> QED
    BY <2>1, <2>2 DEF Tally
<1> QED
  BY <1>1, <1>2, <1>3, <1>4, <1>5 DEF Inv

LEMMA Invariance == Spec => []Inv
<1>1. Inv /\ [Next]_vars => Inv'
  BY TypeStep, PhasesStep, BehindStep, CollectorStep, TallyStep DEF Inv
<1> QED
  BY <1>1, InitInv, PTL DEF Spec

-----------------------------------------------------------------------------
(* What the programs may rely on.                                          *)

\* The buffer never holds more than it has room for, and the types.
THEOREM TypeCorrect == Spec => []TypeOK
<1>1. Inv => TypeOK  BY DEF Inv
<1> QED  BY <1>1, Invariance, PTL

\* Behind the join, closing and draining are safe, however many blocks there
\* are: no block is left that could send.
THEOREM CollectingAlwaysSafe == Spec => []CollectingIsSafe
<1>1. Inv => CollectingIsSafe
  BY DEF Inv, TypeOK, Collector, CollectingIsSafe
<1> QED
  BY <1>1, Invariance, PTL

\* A block that has its result always finds room for it: the buffer holds at
\* most what the blocks that have sent put there, and this one has not.
THEOREM SiblingsNeverBlock == Spec => []SiblingNeverBlocks
<1>1. Inv => SiblingNeverBlocks
  <2> SUFFICES ASSUME Inv, Cap >= Cardinality(Worker), program.afterJoin,
                      NEW w \in Worker, place[w] = "send"
               PROVE  CanSend(chan)
    BY DEF SiblingNeverBlocks
  <2>1. ~chan.closed
    BY RunningIsEarly DEF Inv, Phases, Collector
  <2>2. w \notin SentOf /\ SentOf \subseteq Worker \ {w}
    BY DEF SentOf
  <2>3. Cardinality(Worker \ {w}) = Cardinality(Worker) - 1 /\ IsFiniteSet(Worker \ {w})
        /\ Cardinality(Worker) \in Nat
    BY FS_RemoveElement, FS_CardinalityType
  <2>4. Cardinality(SentOf) =< Cardinality(Worker \ {w})
    BY <2>2, <2>3, FS_Subset
  <2>5. Len(chan.buf) < Cap
    BY <2>3, <2>4, SentFinite DEF Inv, Tally, TypeOK
  <2> QED
    BY <2>1, <2>5 DEF CanSend, Inv, TypeOK
<1> QED
  BY <1>1, Invariance, PTL

\* Behind the join nothing crashes, and no block that has a result waits.
THEOREM NeverIsStuckOrCrashed == Spec => []NeverStuckOrCrashed
<1>1. CollectingIsSafe /\ SiblingNeverBlocks => NeverStuckOrCrashed
  BY DEF NeverStuckOrCrashed
<1> QED
  BY <1>1, CollectingAlwaysSafe, SiblingsNeverBlock, PTL

\* An Ok result is complete: the collector took every value that was sent, and
\* every block has sent one.
THEOREM OkAlwaysComplete == Spec => []OkIsComplete
<1>1. Inv => OkIsComplete
  <2> SUFFICES ASSUME Inv, value[TheScope].tag = "ok"
               PROVE  Range(out) = Worker /\ Len(out) = Cardinality(Worker)
    BY DEF OkIsComplete
  <2>1. drained /\ chan.buf = <<>> /\ Zero \notin Range(out)
    BY DEF Inv, Behind, Tally
  <2>2. SentOf = Worker
    BY DEF Inv, Behind, Phases, SentOf
  <2>3. Range(<<>>) = {} /\ Len(<<>>) = 0
    BY DEF Range
  <2>4. Len(out) \in Nat
    BY DEF Inv, TypeOK
  <2>5. Len(out) + Len(chan.buf) = Cardinality(Worker)
        /\ Range(out) \cup Range(chan.buf) = Worker
    BY <2>1, <2>2 DEF Inv, Tally
  <2>6. Range(chan.buf) = {} /\ Len(chan.buf) = 0
    BY <2>1, <2>3, Zenon
  <2>7. Len(out) + 0 = Len(out)
    <3>1. \A n \in Nat : n + 0 = n
      OBVIOUS
    <3> QED
      BY <2>4, <3>1, Zenon
  <2>8. Len(out) = Cardinality(Worker)
    BY <2>5, <2>6, <2>7, Zenon
  <2>9. Range(out) = Worker
    BY <2>5, <2>6, Zenon
  <2> QED
    BY <2>8, <2>9
<1> QED
  BY <1>1, Invariance, PTL

\* Only a loop that polls a closed channel collects what nobody sent, and it has
\* collected all that was sent before.
THEOREM OnlySentAlwaysCollected == Spec => []OnlySentIsCollected
<1>1. Inv => OnlySentIsCollected
  BY DEF Inv, Tally, SentOf, OnlySentIsCollected
<1> QED
  BY <1>1, Invariance, PTL

\* What is collected is what was sent.
THEOREM CollectsAlwaysWhatWasSent == Spec => []CollectsWhatWasSent
<1>1. OkIsComplete /\ OnlySentIsCollected => CollectsWhatWasSent
  BY DEF CollectsWhatWasSent
<1> QED
  BY <1>1, OkAlwaysComplete, OnlySentAlwaysCollected, PTL
=============================================================================
