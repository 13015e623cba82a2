------------------------------ MODULE SafeChan ------------------------------
(***************************************************************************)
(* The bounded channels of component/safechan/safechan.go.  Reading and    *)
(* writing never panics: an operation on a closed channel returns          *)
(* CHERR_CLOSED, one that could only wait returns CHERR_TIMEOUT or         *)
(* CHERR_EMPTY, or waits.  The values buffered when a channel is closed    *)
(* can still be read.                                                      *)
(***************************************************************************)
EXTENDS Naturals, Sequences

Chan(S) == [buf : Seq(S), open : BOOLEAN]

NewChan == [buf |-> <<>>, open |-> TRUE]

\* Write succeeds; returns CHERR_CLOSED; or waits for room (CHERR_TIMEOUT).
CanWrite(ch, cap) == ch.open /\ Len(ch.buf) < cap
WriteIsClosed(ch) == ~ch.open
WriteWaits(ch, cap) == ch.open /\ Len(ch.buf) >= cap

Written(ch, v) == [ch EXCEPT !.buf = Append(@, v)]

\* Read succeeds; returns CHERR_CLOSED; or waits for a value (CHERR_TIMEOUT or
\* CHERR_EMPTY).
CanRead(ch) == ch.buf # <<>>
ReadIsClosed(ch) == ch.buf = <<>> /\ ~ch.open
ReadWaits(ch) == ch.buf = <<>> /\ ch.open

NextValue(ch) == Head(ch.buf)
Consumed(ch) == [ch EXCEPT !.buf = Tail(@)]

Closed(ch) == [ch EXCEPT !.open = FALSE]
=============================================================================
