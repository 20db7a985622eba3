----------------------------- MODULE MCScSockets -----------------------------
(* Small instances of the secure channel layer on top of the sockets. *)
EXTENDS ScSockets

\* No property reads the content of the queued and written buffers: states
\* that differ by it only are one.
ScView == <<[i \in Slots |-> [socks[i] EXCEPT !.writeQueue = Len(@), !.given = 0, !.wire = 0]],
            inQ, signal, raising, thr, scQ, scVars>>
=============================================================================
