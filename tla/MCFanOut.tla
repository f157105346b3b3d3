----------------------------- MODULE MCFanOut -----------------------------
(* Instances of FanOut for TLC: four blocks are enough for one to have     *)
(* failed, one to wait, one to send and one to have returned.              *)
EXTENDS FanOut

Range0     == [afterJoin |-> FALSE, polls |-> FALSE, closes |-> TRUE]
RangeAfter == [Range0 EXCEPT !.afterJoin = TRUE]
PollAfter  == [afterJoin |-> TRUE, polls |-> TRUE, closes |-> FALSE]
PollClosed == [PollAfter EXCEPT !.closes = TRUE]

AnyForm == {Range0, RangeAfter, PollAfter, PollClosed}
===========================================================================
