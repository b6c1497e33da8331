--------------------------- MODULE MCShoppingReceipt --------------------------
(***************************************************************************)
(* Small instances of ShoppingReceipt for TLC.                             *)
(***************************************************************************)
EXTENDS ShoppingReceipt, TLC

\* Names are interchangeable, and so are identities.
Symmetry == Permutations(Names) \cup Permutations(Ids)

\* Bounds: what is needed twice is the only need, one name is lost to a rename,
\* and when a third name is used, there is one request and no second use.
NamesInUse ==
  {n \in Names : uses[n] > 0} \cup forsaken \cup {work.name, work.exact}
    \cup UNION {Identity(catalog[i]) : i \in Known(catalog)}
    \cup UNION {{requests[x].name, requests[x].pending, requests[x].exact} : x \in DOMAIN requests}
SmallShop ==
  /\ Cardinality(forsaken) <= 1
  /\ \A m, n \in Names : uses[m] > 1 /\ m # n => uses[n] = 0
  /\ Cardinality(NamesInUse \ {None}) > 2 =>
       Cardinality(DOMAIN requests) <= 1 /\ \A n \in Names : uses[n] <= 1
===============================================================================
