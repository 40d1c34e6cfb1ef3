------------------------------- MODULE MCPipe -------------------------------
(* Instances of Pipe for TLC: a pipe with the descriptions r and w, and a  *)
(* socket pair with the descriptions a and b.                              *)
EXTENDS Pipe, TLC

CONSTANTS r, w, a, b, pipe, ab, ba, p1, p2, p3, b0, b1

Reads == (r :> pipe) @@ (w :> None) @@ (a :> ba) @@ (b :> ab)
Writes == (r :> None) @@ (w :> pipe) @@ (a :> ab) @@ (b :> ba)

(* A reader and a writer move two kinds of bytes through the ring.         *)
Data == [uses |-> (p1 :> {r}) @@ (p2 :> {w}) @@ (p3 :> {}),
         bytes |-> {b0, b1}, lens |-> [read |-> {2}, write |-> {1}], modes |-> {FALSE}, dup |-> 1, signalled |-> {}]

(* One reader, one writer: partial writes, dup, close, signals.            *)
Calls == [uses |-> (p1 :> {r}) @@ (p2 :> {w}) @@ (p3 :> {}),
          bytes |-> {b0}, lens |-> [read |-> {1}, write |-> {3}], modes |-> {FALSE}, dup |-> 2, signalled |-> {p1}]

(* Two writers share a description; calls may be O_NONBLOCK.               *)
TwoWriters == [uses |-> (p1 :> {w}) @@ (p2 :> {w}) @@ (p3 :> {r}),
               bytes |-> {b0}, lens |-> [read |-> {2}, write |-> {2}], modes |-> BOOLEAN, dup |-> 2, signalled |-> {p1}]

(* A socket pair, one process at each end.                                 *)
Pair == [uses |-> (p1 :> {a}) @@ (p2 :> {b}) @@ (p3 :> {}),
         bytes |-> {b0}, lens |-> [read |-> {2}, write |-> {2}], modes |-> {FALSE}, dup |-> 1, signalled |-> {}]

AllScenes == {Data, Calls, TwoWriters, Pair}
PairScene == {Pair}
=============================================================================
