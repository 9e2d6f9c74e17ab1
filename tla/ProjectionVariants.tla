------------------------- MODULE ProjectionVariants -------------------------
(***************************************************************************)
(* Variants of a read model (projections/VariantReclassifier.ts, as        *)
(* ProjectionDefinitionCompiler.ts uses it): projections of one identity,  *)
(* of which at most one is to be active for a key.  Compiling merges the   *)
(* handlers the identity shares into each, turns every handler of an event *)
(* that does not enter the variant into a join of the row with itself,     *)
(* which updates and never creates, and removes a variant with the events  *)
(* that enter its siblings.  What the kernel then makes of events with the *)
(* compiled definitions is external.                                       *)
(***************************************************************************)
EXTENDS Naturals, Sequences, FiniteSetsExt

CONSTANTS
  Variants,      \* the projections declared as variants
  VariantEvents, \* event types
  VariantKeys,   \* event sources, the keys of the rows
  Groups,        \* what may be declared: a record of these two of each
                 \*   variants: [Variants -> [identity, entering, handled, removedWith]]
                 \*   shared: [identity -> the event types its globalFor handlers map]
  MaxObserved    \* bound: events

VARIABLES
  group,    \* what is declared; never changes
  observed, \* the events appended: type, key
  rows      \* per variant and key: the event whose mapping the row shows, 0 for no row

variantVars == <<group, observed, rows>>

VariantsTypeOK ==
  /\ group \in Groups
  /\ observed \in Seq([type : VariantEvents, key : VariantKeys])
  /\ rows \in [Variants -> [VariantKeys -> 0..Len(observed)]]

Declared(v) == group.variants[v]
Siblings(v) == {w \in Variants \ {v} : Declared(w).identity = Declared(v).identity}

-----------------------------------------------------------------------------
(* What compile() makes of the declarations. *)

\* mergeGlobalHandlers, before reclassify.
Merged(v) == Declared(v).handled \cup group.shared[Declared(v).identity]

\* reclassify
From(v) == Merged(v) \cap Declared(v).entering
SelfJoins(v) == Merged(v) \ Declared(v).entering

\* Mutant: crossWireGroups reaches one sibling only.
RemovedWithOneSibling(v) ==
  Declared(v).removedWith
    \cup (IF Siblings(v) = {} THEN {} ELSE Declared(CHOOSE w \in Siblings(v) : TRUE).entering)

\* crossWireGroups adds to what the variant declares itself.
RemovedWith(v) == Declared(v).removedWith \cup UNION {Declared(w).entering : w \in Siblings(v)}

\* reclassify throws VariantMustDeclareEntersOnEvent.
Compiles(g) == \A v \in Variants : g.variants[v].entering # {}

VariantsInit ==
  /\ group \in {g \in Groups : Compiles(g)}
  /\ observed = <<>>
  /\ rows = [v \in Variants |-> [k \in VariantKeys |-> 0]]

-----------------------------------------------------------------------------
(* The kernel. *)

\* A join on the key of the row itself finds the row or nothing.
Mapped(v, row, type, n) ==
  IF type \in From(v) \/ (type \in SelfJoins(v) /\ row # 0) THEN n ELSE row

\* With an event that a variant both maps and is removed with, either comes last.
RowAfter(v, row, type, n, removesLast) ==
  IF type \notin RemovedWith(v) THEN Mapped(v, row, type, n)
  ELSE IF removesLast THEN 0 ELSE Mapped(v, 0, type, n)

Observe(type, key) ==
  LET n == Len(observed) + 1 IN
    /\ n <= MaxObserved
    /\ observed' = Append(observed, [type |-> type, key |-> key])
    /\ \E removesLast \in BOOLEAN :
         rows' = [v \in Variants |->
                    [rows[v] EXCEPT ![key] = RowAfter(v, @, type, n, removesLast)]]
    /\ UNCHANGED group

VariantsNext == \E type \in VariantEvents, key \in VariantKeys : Observe(type, key)

VariantsSpec == VariantsInit /\ [][VariantsNext]_variantVars

-----------------------------------------------------------------------------
(* Properties. *)

Numbers(key, types) == {n \in DOMAIN observed : observed[n].key = key /\ observed[n].type \in types}
LatestOf(numbers) == IF numbers = {} THEN 0 ELSE Max(numbers)

\* Compiling does not insist on any of this: that an event enters one variant of
\* an identity, that a variant maps what enters it, and that it is not removed
\* with its own.
WellDeclared(v) ==
  /\ Declared(v).entering \subseteq Merged(v) \ Declared(v).removedWith
  /\ \A w \in Siblings(v) : Declared(v).entering \cap Declared(w).entering = {}

\* When no event enters two variants, the row of a variant exists exactly from
\* an event that entered it until one that entered a sibling, or that it is
\* removed with, whatever else happened in between; and it then shows the last
\* event that it, or a handler that the identity shares, maps.  So for a key one
\* variant at the most is active, and no other event ever creates one.
ExclusiveVariants ==
  \A v \in Variants, key \in VariantKeys :
    LET enter == LatestOf(Numbers(key, Declared(v).entering))
        leave == LatestOf(Numbers(key, Declared(v).removedWith
                                     \cup UNION {Declared(w).entering : w \in Siblings(v)}))
    IN  WellDeclared(v)
          => rows[v][key] = IF enter > leave THEN LatestOf(Numbers(key, Merged(v))) ELSE 0
=============================================================================
