------------------------------ MODULE MCSockets ------------------------------
(* Small instances of the Sockets layer under the most general upper layer. *)
EXTENDS Sockets, TLC

CONSTANTS m1, m2

\* Nothing under the general upper layer reads the content of scQ, only
\* whether it is full: states that differ by that content only are one.
LayerView == <<socks, inQ, signal, raising, thr, Len(scQ)>>

\* Buffers are interchangeable.
MsgSymmetry == Permutations(Msgs)
=============================================================================
