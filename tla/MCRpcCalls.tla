----------------------------- MODULE MCRpcCalls -----------------------------
(* RpcCalls for TLC: three calls of all kinds and two message ids, so that   *)
(* an id is given out again while the call that had it waits.                 *)
EXTENDS RpcCalls

CONSTANTS c1, c2, c3

MCOps ==
    [c \in Calls |->
        CASE c = c1 -> {"ping", "leave"} [] c = c2 -> {"store"} [] c = c3 -> {"find", "bootstrap"}]
=============================================================================
