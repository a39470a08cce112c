------------------------------ MODULE MCCatalog ------------------------------
(***************************************************************************)
(* Instances of Catalog for TLC.                                           *)
(***************************************************************************)
EXTENDS Catalog

CONSTANTS mug, print, local, none

\* A synced mug that the merchant gave one variant; the print is still to be
\* imported, and does not ship.
MCExternals == {mug, print}
MCAlwaysListed == {print}
MCInitialRows ==
    [i \in 1..MaxRows |->
        IF i = 1 THEN [ext |-> mug, stock |-> 1, listed |-> TRUE, flag |-> TRUE] ELSE none]
MCInitialOwners == [v \in 1..MaxVariants |-> IF v = 1 THEN 1 ELSE 0]

MCInitialSources ==
    {[e \in {mug, print} |-> [stock |-> q, listed |-> TRUE]] : q \in {1}}
    \union {[e \in {mug, print} |->
               IF e = mug THEN [stock |-> 0, listed |-> FALSE] ELSE none]}

\* Connected with a page that takes all the store sells, or only one product
\* of it; or not connected.
MCSetups == {[keyed |-> TRUE, page |-> 2], [keyed |-> TRUE, page |-> 1],
             [keyed |-> FALSE, page |-> 2]}

\* What three slots may serve; the one with "job" is the scheduler's.
Slots(first, second, third) ==
    [h \in Handlers |-> IF h = 1 THEN first ELSE IF h = 2 THEN second ELSE third]
MCLoads ==
    {Slots({}, {"edit"}, {"edit"}),
     Slots({"import"}, {"create"}, {"create", "csv"}),
     Slots({"import"}, {"import"}, {"sale", "delete"}),
     Slots({"import"}, {"edit", "sale"}, {"delete"}),
     Slots({"job"}, {"manual"}, {}),
     Slots({"job"}, {"import", "delete", "sale", "edit"}, {})}
=============================================================================
