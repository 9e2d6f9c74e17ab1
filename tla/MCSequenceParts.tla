-------------------------- MODULE MCSequenceParts --------------------------
(***************************************************************************)
(* Appends to an event sequence, and the parts of the client that fill     *)
(* sequences or replay them.  The parts share no state: a behaviour is one *)
(* of one part, and the others rest in their initial states.               *)
(***************************************************************************)
EXTENDS MCEventSequence, EventSeeding, InProcessEventSequence, ScenarioProjection, ProjectionVariants

VARIABLE part   \* the part that this behaviour is of

partVars == <<part, vars, seedingVars, sequenceVars, scenarioVars, variantVars>>

\* Two variants of one identity, and a third of the same or of another.
Declare(identity, entering, handled, removedWith) ==
  [identity |-> identity, entering |-> entering, handled |-> handled, removedWith |-> removedWith]

VariantGroups ==
  {[variants |-> "u" :> Declare("I", entersU, handlesU, {})
                   @@ "v" :> Declare("I", entersV, handlesV, {})
                   @@ "w" :> Declare(identity, {"e3"}, {"e3"}, removed),
    shared |-> "I" :> shared @@ "J" :> {"t"}] :
     entersU \in {{"e1"}, {"e1", "t"}}, handlesU \in {{"e1"}, {"e1", "e2", "e3", "t"}},
     entersV \in {{"e2"}, {"e2", "t"}}, handlesV \in {{"e2"}, {"e1", "e2"}},
     identity \in {"I", "J"}, removed \in {{}, {"t"}}, shared \in {{}, {"t"}}}

-----------------------------------------------------------------------------

PartsInit ==
  /\ Init /\ SeedingInit /\ InProcessInit /\ ScenarioInit /\ VariantsInit
  /\ part \in {"appends", "seeding", "inProcess", "scenarios", "variants"}
  /\ part # "inProcess" => definition = CHOOSE d \in Definitions : TRUE
  /\ part # "scenarios" => joins
  /\ part # "variants" => group = CHOOSE g \in VariantGroups : TRUE

PartsNext ==
  /\ UNCHANGED part
  /\ \/ /\ part = "appends" /\ Next
        /\ UNCHANGED <<seedingVars, sequenceVars, scenarioVars, variantVars>>
     \/ /\ part = "seeding" /\ SeedingNext
        /\ UNCHANGED <<vars, sequenceVars, scenarioVars, variantVars>>
     \/ /\ part = "inProcess" /\ InProcessNext
        /\ UNCHANGED <<vars, seedingVars, scenarioVars, variantVars>>
     \/ /\ part = "scenarios" /\ ScenarioNext
        /\ UNCHANGED <<vars, seedingVars, sequenceVars, variantVars>>
     \/ /\ part = "variants" /\ VariantsNext
        /\ UNCHANGED <<vars, seedingVars, sequenceVars, scenarioVars>>

PartsSpec == PartsInit /\ [][PartsNext]_partVars
=============================================================================
