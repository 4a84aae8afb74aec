------------------------------- MODULE MCServer -------------------------------
(***************************************************************************)
(* A coroutine that has the state saved and stops the server, one that     *)
(* starts it, bootstraps and starts it again, and one that uses it.        *)
(***************************************************************************)
EXTENDS Server

MCMakes ==
    [c \in Callers |->
        CASE c = "main"  -> {"stop", "save_state_regularly"}
          [] c = "join"  -> {"listen", "bootstrap"}
          [] c = "serve" -> {"use", "save_state"}]
=============================================================================
