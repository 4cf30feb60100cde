----------------------------- MODULE ByteStream -----------------------------
(***************************************************************************)
(* What one direction of a forwarded connection promises to the two        *)
(* applications, whatever relay/stream.go and relay/ctrlconn.go do to keep *)
(* it: an ordered byte stream.  A byte is its position in the stream.      *)
(* The reader takes the bytes in the order they were written, each once,   *)
(* and is told of the end only when the writer has finished and nothing is *)
(* left to read.  The one way to lose bytes is that the reader gives up.   *)
(***************************************************************************)
EXTENDS Integers, Sequences

CONSTANT Streams

VARIABLES
  written,   \* bytes the writer has put into the stream
  queue,     \* bytes written and not yet read, oldest first
  writer,    \* "open" or "finished"
  reader     \* "open", "eof" or "failed"

streams == <<written, queue, writer, reader>>

Init ==
  /\ written = [s \in Streams |-> 0]
  /\ queue = [s \in Streams |-> <<>>]
  /\ writer = [s \in Streams |-> "open"]
  /\ reader = [s \in Streams |-> "open"]

(* The next n bytes; a reader that failed leaves them unread. *)
Write(s, n) ==
  /\ writer[s] = "open" /\ reader[s] # "eof"
  /\ written' = [written EXCEPT ![s] = @ + n]
  /\ queue' = [queue EXCEPT ![s] =
                 IF reader[s] = "failed" THEN <<>>
                 ELSE @ \o [i \in 1..n |-> written[s] + i]]
  /\ UNCHANGED <<writer, reader>>

Finish(s) ==
  /\ writer[s] = "open"
  /\ writer' = [writer EXCEPT ![s] = "finished"]
  /\ UNCHANGED <<written, queue, reader>>

Take(s, n) ==
  /\ reader[s] = "open"
  /\ queue' = [queue EXCEPT ![s] = SubSeq(@, n + 1, Len(@))]
  /\ UNCHANGED <<written, writer, reader>>

ReachEnd(s) ==
  /\ reader[s] = "open" /\ writer[s] = "finished" /\ queue[s] = <<>>
  /\ reader' = [reader EXCEPT ![s] = "eof"]
  /\ UNCHANGED <<written, queue, writer>>

GiveUp(s) ==
  /\ reader[s] = "open"
  /\ reader' = [reader EXCEPT ![s] = "failed"]
  /\ queue' = [queue EXCEPT ![s] = <<>>]
  /\ UNCHANGED <<written, writer>>

Next ==
  \E s \in Streams :
    \/ \E n \in 1..(written'[s] - written[s]) : Write(s, n)
    \/ \E n \in 1..Len(queue[s]) : Take(s, n)
    \/ Finish(s) \/ ReachEnd(s) \/ GiveUp(s)

Spec == Init /\ [][Next]_streams
=============================================================================
