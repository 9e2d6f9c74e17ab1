------------------------ MODULE ConnectionLifecycle ------------------------
(***************************************************************************)
(* What the connection of one Chronicle client promises to the parts that  *)
(* follow it (reactors, reducers, read model watchers, event stores): the  *)
(* object of connection/ConnectionLifecycle.ts, together with the order in *)
(* which a client that has not been disposed may call it.                  *)
(*                                                                         *)
(* A connection id names one registration with the kernel.  It is renewed  *)
(* by disconnected(), after the handlers of the disconnect have completed. *)
(***************************************************************************)
EXTENDS Naturals

VARIABLES
  isConnected,    \* _isConnected
  failure,        \* _failure is set: recovery has stopped for good
  connectionId,   \* _connectionId, as the number of times it was renewed
  renewing        \* calls of disconnected() that still await their handlers

lifecycleVars == <<isConnected, failure, connectionId, renewing>>

TypeOK ==
  /\ isConnected \in BOOLEAN
  /\ failure \in BOOLEAN
  /\ connectionId \in Nat
  /\ renewing \in Nat

Init ==
  /\ isConnected = FALSE
  /\ failure = FALSE
  /\ connectionId = 0
  /\ renewing = 0

-----------------------------------------------------------------------------

\* failed(): only the first failure is taken, and it drops the connection.
Failed ==
  /\ ~failure
  /\ failure' = TRUE
  /\ isConnected' = FALSE
  /\ UNCHANGED <<connectionId, renewing>>

\* connected(): ignored after a failure.  The promise adds the order: nobody
\* announces a second connection, nor one while an earlier disconnect is still
\* being handled, because the id that the handlers read would change under them.
Connected ==
  /\ ~failure
  /\ ~isConnected
  /\ renewing = 0
  /\ isConnected' = TRUE
  /\ UNCHANGED <<failure, connectionId, renewing>>

\* disconnected(), up to its await.
BeginDisconnect ==
  /\ isConnected
  /\ isConnected' = FALSE
  /\ renewing' = renewing + 1
  /\ UNCHANGED <<failure, connectionId>>

\* disconnected(), after the handlers.
RenewId ==
  /\ renewing > 0
  /\ renewing' = renewing - 1
  /\ connectionId' = connectionId + 1
  /\ UNCHANGED <<isConnected, failure>>

Next == Failed \/ Connected \/ BeginDisconnect \/ RenewId

Spec == Init /\ [][Next]_lifecycleVars
=============================================================================
