----------------------------- MODULE Channels -----------------------------
(***************************************************************************)
(* Buffered channels as Tide programs see them: ch.send, ch.recv,          *)
(* ch.tryRecv, ch.close, for v in ch and select, in the form they lower to *)
(* (internal/codegen/call.go, concurrency.go emitSelectStmt, codegen.go    *)
(* writePredeclaredTryRecv).  Unbuffered channels are not needed here.     *)
(***************************************************************************)
EXTENDS Naturals, Sequences

CONSTANTS
  Zero,   \* the zero value of the element type
  None    \* Option's None

Chan(cap, buf, closed) == [cap |-> cap, buf |-> buf, closed |-> closed]

\* Mutant: room for one value less.
MakeChannelShort(cap) == Chan(cap - 1, <<>>, FALSE)

\* make(chan T, cap)
MakeChannel(cap) == Chan(cap, <<>>, FALSE)

\* ch <- v blocks while the buffer is full and panics once ch is closed.
SendPanics(c) == c.closed
CanSend(c)    == ~c.closed /\ Len(c.buf) < c.cap
Sent(c, v)    == Chan(c.cap, Append(c.buf, v), c.closed)

\* <-ch blocks while the buffer is empty and yields Zero once ch is drained.
Drained(c)  == c.closed /\ c.buf = <<>>
CanRecv(c)  == c.buf # <<>> \/ c.closed
Recv(c)     == IF c.buf = <<>> THEN Zero ELSE Head(c.buf)
AfterRecv(c) == IF c.buf = <<>> THEN c ELSE Chan(c.cap, Tail(c.buf), c.closed)

\* tideTryRecv: a select of <-ch with a default.
TryRecv(c) == IF CanRecv(c) THEN Recv(c) ELSE None

\* Mutant: the call is lowered to nothing.
NotClosed(c) == c

\* close(ch) panics on a closed channel.
ClosePanics(c) == c.closed
Closed(c)      == Chan(c.cap, c.buf, TRUE)
=============================================================================
