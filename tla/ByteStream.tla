----------------------------- MODULE ByteStream -----------------------------
(* What a pipe promises: a bounded byte stream.  Bytes come out in the     *)
(* order they went in, each once, whatever sizes they are moved in.        *)
EXTENDS Integers, Sequences

CONSTANTS Pipes, Byte, Capacity

VARIABLES
    stream,     (* bytes in transit, per pipe                              *)
    delivered   (* the bytes the last read returned                        *)

Init == stream = [x \in Pipes |-> <<>>] /\ delivered = <<>>

Put(x) ==
    \E n \in 1 .. Capacity - Len(stream[x]) : \E s \in [1 .. n -> Byte] :
        stream' = [stream EXCEPT ![x] = @ \o s] /\ UNCHANGED delivered

Take(x) ==
    \E n \in 1 .. Len(stream[x]) :
        /\ delivered' = SubSeq(stream[x], 1, n)
        /\ stream' = [stream EXCEPT ![x] = SubSeq(@, n + 1, Len(@))]

Next == \E x \in Pipes : Put(x) \/ Take(x)

Spec == Init /\ [][Next]_<<stream, delivered>>
=============================================================================
