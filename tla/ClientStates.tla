---------------------------- MODULE ClientStates ----------------------------
(***************************************************************************)
(* What ha_client_run relies on in the websocket library: the states a     *)
(* client goes through between its creation and its destruction when auto  *)
(* reconnect is off. A client is destroyed only when its task is over or   *)
(* can do no more than end. HaSession is written against this module, and  *)
(* ClientLifetime, the library at the grain of single accesses, implements *)
(* it.                                                                     *)
(***************************************************************************)
VARIABLES client, \* s_client # NULL
          state   \* the client's state as is_connected and the stop see it

vars == <<client, state>>

States == {"unknown", "init", "connected", "wait_timeout"}

Init == client = FALSE /\ state = "unknown"

Create == ~client /\ client' = TRUE /\ state' = "init"

Connect == client /\ state = "init" /\ state' = "connected" /\ UNCHANGED client

Break ==
  /\ client /\ state \in {"init", "connected"}
  /\ state' = "wait_timeout"
  /\ UNCHANGED client

\* The end of the task, asked for or by itself.
End == client /\ state # "unknown" /\ state' = "unknown" /\ UNCHANGED client

Destroy == client /\ state = "unknown" /\ client' = FALSE /\ UNCHANGED state

Next == Create \/ Connect \/ Break \/ End \/ Destroy

Spec == Init /\ [][Next]_vars
=============================================================================
