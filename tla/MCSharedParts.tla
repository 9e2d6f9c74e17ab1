--------------------------- MODULE MCSharedParts ---------------------------
(***************************************************************************)
(* What the calls of a client share: access tokens, the check of the wire  *)
(* contract, the selection of a server, and the event stores.  These parts *)
(* share no state with each other: a behaviour is one of one of them, and  *)
(* the others rest in their initial states.                                *)
(***************************************************************************)
EXTENDS TokenProvider, Compatibility, ServerSelection, EventStores, TLC

VARIABLE part   \* the part that this behaviour is of

partVars == <<part, vars, compatibilityVars, selectionVars, storeVars>>

PartsInit ==
  /\ part \in {"tokens", "compatibility", "selection", "stores"}
  /\ Init /\ ContractInit /\ SelectionInit /\ StoresInit
  /\ part # "compatibility" => compatible = {} /\ channels[1].server = CHOOSE s \in Servers : TRUE
  /\ part # "selection" => balancer = "roundRobin"

PartsNext ==
  /\ UNCHANGED part
  /\ \/ /\ part = "tokens" /\ Next
        /\ UNCHANGED <<compatibilityVars, selectionVars, storeVars>>
     \/ /\ part = "compatibility" /\ ContractNext
        /\ UNCHANGED <<vars, selectionVars, storeVars>>
     \/ /\ part = "selection" /\ SelectionNext
        /\ UNCHANGED <<vars, compatibilityVars, storeVars>>
     \/ /\ part = "stores" /\ StoresNext
        /\ UNCHANGED <<vars, compatibilityVars, selectionVars>>

PartsSpec == PartsInit /\ [][PartsNext]_partVars

\* The same interchangeable calls take tokens and get stores.
ASSUME SharedCalls == Calls = Callers
Symmetry == Permutations(Calls)
=============================================================================
