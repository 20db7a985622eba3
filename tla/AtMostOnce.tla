----------------------------- MODULE AtMostOnce -----------------------------
(***************************************************************************)
(* What a secure channel promises to the two layers of services above it,  *)
(* as abstract calls: a request reaches the server's services at most      *)
(* once, the client's services are told how it ended and it stays so, as   *)
(* answered only if the server had it, and every request ends.  A request  *)
(* that ended without an answer may have been executed or not.             *)
(***************************************************************************)
EXTENDS Naturals

CONSTANT Calls        \* the requests of the client's services

VARIABLES
  status,             \* what the client's services know of each request
  executed            \* how many times the server's services received it

rpcVars == <<status, executed>>

RpcInit ==
  /\ status = [c \in Calls |-> "idle"]
  /\ executed = [c \in Calls |-> 0]

Issue(c) ==
  /\ status[c] = "idle"
  /\ status' = [status EXCEPT ![c] = "pending"]
  /\ UNCHANGED executed

\* The request may be on its way when the client has given up already.
Execute(c) ==
  /\ status[c] # "idle"
  /\ executed[c] = 0
  /\ executed' = [executed EXCEPT ![c] = 1]
  /\ UNCHANGED status

Answer(c) ==
  /\ status[c] = "pending"
  /\ executed[c] = 1
  /\ status' = [status EXCEPT ![c] = "answered"]
  /\ UNCHANGED executed

\* A request may be refused at once, and the end of the channel ends several
\* requests at the same time.
Fail(H) ==
  /\ \A c \in H : status[c] \in {"idle", "pending"}
  /\ status' = [c \in Calls |-> IF c \in H THEN "failed" ELSE status[c]]
  /\ UNCHANGED executed

TimeOut(c) ==
  /\ status[c] = "pending"
  /\ status' = [status EXCEPT ![c] = "timedout"]
  /\ UNCHANGED executed

RpcNext ==
  \/ \E c \in Calls : Issue(c) \/ Execute(c) \/ Answer(c) \/ TimeOut(c)
  \/ \E H \in SUBSET Calls : Fail(H)

RpcSafety == RpcInit /\ [][RpcNext]_rpcVars

\* A request that is pending does not stay so.
RpcLiveness == \A c \in Calls : WF_rpcVars(status[c] = "pending" /\ (TimeOut(c) \/ Answer(c)))

RpcSpec == RpcSafety /\ RpcLiveness
=============================================================================
