------------------------------- MODULE Catalog --------------------------------
(***************************************************************************)
(* The inventory catalog of fridge.json as a value: product identities,    *)
(* each with one canonical name and aliases, and what the operations of    *)
(* src/src/repositories/json_fridge.py make of it.  Quantities, storage,   *)
(* dates, comments and categories are left out.                            *)
(***************************************************************************)
EXTENDS Naturals, FiniteSets, Functions

CONSTANTS
  Names,     \* normalized product names
  Ids,       \* identities; one is never used twice
  Unused,    \* an identity that was never used
  Merged,    \* one that was merged into another
  MaxCycle   \* bound: how often one identity runs out of stock

Items == [name : Names, aliases : SUBSET Names, available : BOOLEAN,
          ever : BOOLEAN, cycle : 0 .. MaxCycle]
Catalogs == [Ids -> Items \cup {Unused, Merged}]

ASSUME CatalogConstants ==
  /\ MaxCycle \in Nat
  /\ Unused \notin Items /\ Merged \notin Items /\ Unused # Merged

Known(cat) == {i \in Ids : cat[i] \notin {Unused, Merged}}
Fresh(cat) == {i \in Ids : cat[i] = Unused}

Identity(item) == {item.name} \cup item.aliases
Owners(cat, n) == {i \in Known(cat) : n \in Identity(cat[i])}
Named(cat, n) == {i \in Known(cat) : cat[i].name = n}
Available(cat) == {i \in Known(cat) : cat[i].available}
StockedNames(cat) == UNION {Identity(cat[i]) : i \in Available(cat)}

\* A catalog that _save_items_unlocked accepts and load_catalog_items reads.
Sound(cat) ==
  \A i, j \in Known(cat) : i # j => Identity(cat[i]) \cap Identity(cat[j]) = {}

\* Mutant: the generic name is not kept as an alias.
NewItemNoAlias(n, aliases, stocked) ==
  [name |-> n, aliases |-> {}, available |-> stocked, ever |-> stocked, cycle |-> 0]

NewItem(n, aliases, stocked) ==
  [name |-> n, aliases |-> aliases \ {n}, available |-> stocked, ever |-> stocked, cycle |-> 0]

\* Mutant: availability is withdrawn with the stock cycle as it was.
OutOfStockSameCycle(item) == [item EXCEPT !.available = FALSE]

\* _with_availability(item, False).
OutOfStock(item) == [item EXCEPT !.available = FALSE, !.cycle = @ + 1]

\* _replenished.
InStock(item) == [item EXCEPT !.available = TRUE, !.ever = TRUE]

\* remove_items: every item in stock that answers to a name of S goes out.
Withdrawn(cat, S) ==
  LET gone == {i \in Available(cat) : Identity(cat[i]) \cap S # {}} IN
  [i \in Ids |-> IF i \in gone THEN OutOfStock(cat[i]) ELSE cat[i]]

\* _save_names_unlocked with the names of S beyond those in stock: an identity
\* that answers to one is replenished, the unknown ones get the identities id.
Restocked(cat, S, id) ==
  LET back == {i \in Known(cat) : Identity(cat[i]) \cap S # {}} IN
  [i \in Ids |-> IF i \in back THEN InStock(cat[i])
                 ELSE IF \E n \in DOMAIN id : id[n] = i
                      THEN NewItem(CHOOSE n \in DOMAIN id : id[n] = i, {}, TRUE)
                 ELSE cat[i]]

\* An item whose canonical name becomes n, with more aliases.
Renamed(item, n, aliases) ==
  [item EXCEPT !.name = n, !.aliases = (@ \cup aliases) \ {n}]

\* receive_product: refine or replenish the identity that the requested name
\* or else the exact name leads to; none, when they lead to two.
Receivers(cat, requested, exact) ==
  LET R == Owners(cat, requested)
      E == Named(cat, exact)
  IN IF R = {} THEN E ELSE IF E \subseteq R THEN R ELSE {}
Conflicting(cat, requested, exact) ==
  LET R == Owners(cat, requested) IN R # {} /\ ~(Named(cat, exact) \subseteq R)

Received(item, requested, exact) == InStock(Renamed(item, exact, {item.name, requested}))

\* merge_product_identity: the target takes over every name of the source.
Absorbing(cat, source, target) ==
  [cat EXCEPT ![source] = Merged,
              ![target] = Renamed(@, @.name, Identity(cat[source]))]
===============================================================================
