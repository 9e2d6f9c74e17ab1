------------------------------ MODULE MCParts ------------------------------
(***************************************************************************)
(* Units of work, and the parts of the client that are checked beside      *)
(* them.  The parts share no state: a behaviour is one of one part, and    *)
(* the others rest in their initial states.                                *)
(***************************************************************************)
EXTENDS MCUnitOfWork, UnitOfWorkManager, ReactorDelivery, Reductions, ReadModelWatcher

VARIABLE part   \* the part that this behaviour is of

partVars == <<part, vars, deliveryVars, reductionVars, watcherVars, managerVars>>

OfPartition(partition, type) == [partition |-> partition, type |-> type]

DeliveryLog ==
  <<OfPartition("a", "event"), OfPartition("a", "event"), OfPartition("b", "once"),
    OfPartition("a", "batch"), OfPartition("b", "unhandled")>>

ReductionLog ==
  <<OfPartition("a", "reduce"), OfPartition("b", "reduce"), OfPartition("a", "remove"),
    OfPartition("b", "unhandled"), OfPartition("a", "reduce")>>

-----------------------------------------------------------------------------

PartsInit ==
  /\ part \in {"units", "deliveries", "reductions", "watchers", "managers"}
  /\ Init /\ DeliveryInit /\ ReductionInit /\ WatcherInit /\ ManagerInit
  /\ part # "reductions" => ~batchMethod
  /\ part # "watchers" => ~(resume \/ failOnOverflow \/ callback \/ online)

PartsNext ==
  /\ UNCHANGED part
  /\ \/ /\ part = "units" /\ Next
        /\ UNCHANGED <<deliveryVars, reductionVars, watcherVars, managerVars>>
     \/ /\ part = "deliveries" /\ DeliveryNext
        /\ UNCHANGED <<vars, reductionVars, watcherVars, managerVars>>
     \/ /\ part = "reductions" /\ ReductionNext
        /\ UNCHANGED <<vars, deliveryVars, watcherVars, managerVars>>
     \/ /\ part = "watchers" /\ WatcherNext
        /\ UNCHANGED <<vars, deliveryVars, reductionVars, managerVars>>
     \/ /\ part = "managers" /\ ManagerNext
        /\ UNCHANGED <<vars, deliveryVars, reductionVars, watcherVars>>

\* The kernel delivers what is pending and answers a subscription, the loop of a
\* stream goes on until it has answered, a stream that ended is opened again, as
\* Observations shows, and timers fire.
PartsFairness ==
  /\ WF_deliveryVars(part = "deliveries" /\ DeliveryProgress)
  /\ WF_reductionVars(part = "reductions" /\ ReductionProgress)
  /\ WF_watcherVars(part = "watchers" /\ WatcherProgress)

PartsSpec == PartsInit /\ [][PartsNext]_partVars /\ PartsFairness

-----------------------------------------------------------------------------

\* EverythingIsObserved and EverythingIsReduced, of the parts that they are about.
EveryEventIsObserved == part = "deliveries" => EverythingIsObserved
EveryEventIsReduced == part = "reductions" => EverythingIsReduced
=============================================================================
