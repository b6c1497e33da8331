---------------------------- MODULE ShoppingReceipt ---------------------------
(***************************************************************************)
(* The shopping list of one week and the tool that turns a bought item     *)
(* into inventory (src/src/handlers/receive_shopping_item.py), with the    *)
(* tools that change what it relies on: plan, catalog, manual requests.    *)
(*                                                                         *)
(* Every tool runs in the scope that AuditJournal models, so two tools     *)
(* never interleave and a write is all or nothing (AtomicStore).  But      *)
(* receive_shopping_item writes three documents, one after another, and    *)
(* it may crash or fail between any two: the agent then retries, at any    *)
(* later time, and other tools run in between.                             *)
(***************************************************************************)
EXTENDS Catalog

CONSTANTS
  None,
  Manuals,   \* ids of manual requests (shopreq_...)
  MaxUses,    \* bound: how often the plan uses one ingredient
  MaxRequests \* bound: rows of shopping_requests.json

ASSUME ReceiptConstants ==
  None \notin Names \cup Ids \cup Manuals /\ MaxUses \in Nat /\ MaxRequests \in Nat

VARIABLES
  catalog,    \* fridge.json
  requests,   \* shopping_requests.json: rows by request id
  uses,       \* the plan: cooking occurrences per ingredient
  readable,   \* the plan: load_strict accepts it, with its shopping snapshot
  work,       \* the receive_shopping_item that runs
  bought,     \* history: the identities that each request put in stock
  forsaken    \* history: names that a rename took from an identity

world   == <<catalog, requests, uses, readable>>
history == <<bought, forsaken>>
vars    == <<world, work, history>>

\* The id of a derived row: the ingredient, and, when an identity that has been
\* in stock answers to it, that identity and its stock cycle.
DerivedIds == [name : Names, item : Ids \cup {None}, cycle : 0 .. MaxCycle]
RequestIds == DerivedIds \cup Manuals

ASSUME ManualIds == Manuals \cap DerivedIds = {}

Rows == [name : Names, pending : Names \cup {None},
         product : Ids \cup {None}, exact : Names \cup {None}]
Active(row) == row.product = None
Winner(row) == IF Active(row) THEN row.pending ELSE row.exact

Idle == [step |-> "idle", id |-> None, name |-> None, exact |-> None, product |-> None]

TypeOK ==
  /\ catalog \in Catalogs /\ Sound(catalog)
  /\ DOMAIN requests \subseteq RequestIds
  /\ requests \in [DOMAIN requests -> Rows]
  /\ uses \in [Names -> 0 .. MaxUses]
  /\ readable \in BOOLEAN
  /\ work \in [step : {"idle", "receive", "complete", "refresh"}, id : RequestIds \cup {None},
               name : Names \cup {None}, exact : Names \cup {None}, product : Ids \cup {None}]
  /\ bought \subseteq RequestIds \X Ids
  /\ forsaken \subseteq Names

Init ==
  /\ catalog = [i \in Ids |-> Unused]
  /\ requests = [x \in {} |-> None]
  /\ uses = [n \in Names |-> 0]
  /\ readable = TRUE
  /\ work = Idle
  /\ bought = {} /\ forsaken = {}

-------------------------------------------------------------------------------
(***************************************************************************)
(* The projection.                                                         *)
(***************************************************************************)

\* shopping_item_id, classify_shopping_items.
DerivedId(n) ==
  LET K == {i \in Owners(catalog, n) : catalog[i].ever}
      i == CHOOSE j \in K : TRUE
  IN IF K = {} THEN [name |-> n, item |-> None, cycle |-> 0]
     ELSE [name |-> n, item |-> i, cycle |-> catalog[i].cycle]

\* One unit in stock covers one use.
ToBuy(n) == uses[n] > (IF n \in StockedNames(catalog) THEN 1 ELSE 0)
Derived == {DerivedId(n) : n \in {m \in Names : ToBuy(m)}}

ActiveIds == {x \in DOMAIN requests : Active(requests[x])}

\* persistable_shopping(build_current_shopping(...)): rows to buy, rows that
\* stock covers, and active requests that are no derived row.
Projection ==
  [n \in Names |-> (IF uses[n] > 0 THEN 1 ELSE 0)
                     + Cardinality({x \in ActiveIds \ Derived : requests[x].name = n})]

\* validate_shopping_snapshot: each ingredient once.
Valid(rows) == \A n \in Names : rows[n] <= 1

-------------------------------------------------------------------------------
(***************************************************************************)
(* receive_shopping_item.                                                  *)
(***************************************************************************)
New(X) == IF Cardinality(DOMAIN requests) < MaxRequests THEN X \ DOMAIN requests ELSE {}
PutRow(x, row) ==
  requests' = [y \in DOMAIN requests \cup {x} |-> IF y = x THEN row ELSE requests[y]]

\* Mutant: the exact name of the last caller wins.
ReserveLast(x, exact) ==
  LET n == IF x \in DOMAIN requests THEN requests[x].name ELSE x.name IN
  /\ work = Idle /\ readable
  /\ x \in ActiveIds \cup New(Derived)
  /\ PutRow(x, [name |-> n, pending |-> exact, product |-> None, exact |-> None])
  /\ work' = [step |-> "receive", id |-> x, name |-> n, exact |-> exact, product |-> None]
  /\ UNCHANGED <<catalog, uses, readable, history>>

\* From the first line to reserve_receipt: the row is active, or a derived row
\* of the current list without a request yet, and no other exact name has won.
\* A completed row is only replayed, and changes nothing.
Reserve(x, exact) ==
  LET n == IF x \in DOMAIN requests THEN requests[x].name ELSE x.name IN
  /\ work = Idle /\ readable
  /\ x \in ActiveIds \cup New(Derived)
  /\ x \in ActiveIds => Winner(requests[x]) \in {None, exact}
  /\ PutRow(x, [name |-> n, pending |-> exact, product |-> None, exact |-> None])
  /\ work' = [step |-> "receive", id |-> x, name |-> n, exact |-> exact, product |-> None]
  /\ UNCHANGED <<catalog, uses, readable, history>>

\* receive_product, unless it raises: then the reservation stays behind.
Receive ==
  /\ work.step = "receive"
  /\ \/ /\ ~Conflicting(catalog, work.name, work.exact)
        /\ \E i \in Ids :
             /\ LET R == Receivers(catalog, work.name, work.exact)
                    item == IF R = {} THEN NewItem(work.exact, {work.name}, TRUE)
                            ELSE Received(catalog[i], work.name, work.exact)
                IN /\ i \in (IF R = {} THEN Fresh(catalog) ELSE R)
                   /\ catalog' = [catalog EXCEPT ![i] = item]
             /\ bought' = bought \cup {<<work.id, i>>}
             /\ work' = [work EXCEPT !.step = "complete", !.product = i]
        /\ Sound(catalog')
     \/ /\ work' = Idle
        /\ UNCHANGED <<catalog, bought>>
  /\ UNCHANGED <<requests, uses, readable, forsaken>>

\* complete: the row becomes a tombstone with the product it was received as.
Complete ==
  /\ work.step = "complete"
  /\ PutRow(work.id, [name |-> work.name, pending |-> None,
                      product |-> work.product, exact |-> work.exact])
  /\ work' = [work EXCEPT !.step = "refresh"]
  /\ UNCHANGED <<catalog, uses, readable, history>>

\* The snapshot is replaced by the current projection, when there is one: a
\* missing recipe or prep definition is reported as a warning.
Refresh ==
  /\ work.step = "refresh"
  /\ readable' \in {readable, Valid(Projection)}
  /\ work' = Idle
  /\ UNCHANGED <<catalog, requests, uses, history>>

\* The process dies, or a commit raises and is rolled back.
Crash ==
  /\ work # Idle
  /\ work' = Idle
  /\ UNCHANGED <<world, history>>

-------------------------------------------------------------------------------
(***************************************************************************)
(* The other tools, in between.                                            *)
(***************************************************************************)

\* add_manual_shopping_item: no second active manual request of a name.
AddManual(x, n) ==
  /\ work = Idle /\ x \in New(Manuals)
  /\ \A y \in ActiveIds \cap Manuals : requests[y].name # n
  /\ PutRow(x, [name |-> n, pending |-> None, product |-> None, exact |-> None])
  /\ UNCHANGED <<catalog, uses, readable, work, history>>

\* add_meal_to_plan, remove_meal_from_plan: they drop the snapshot.  (What
\* generate_shopping_list saves it has validated: the plan stays readable.)
ChangePlan(n) ==
  /\ work = Idle /\ readable
  /\ \E k \in 0 .. MaxUses \ {uses[n]} : uses' = [uses EXCEPT ![n] = k]
  /\ UNCHANGED <<catalog, requests, readable, work, history>>

\* Mutant: the catalog is written without _validate_identity_names.
SaveUnchecked(cat) ==
  /\ catalog' = cat
  /\ UNCHANGED <<requests, uses, readable, work, bought>>

\* _save_items_unlocked, by a tool with a scope of its own.
Save(cat) ==
  /\ Sound(cat)
  /\ catalog' = cat
  /\ UNCHANGED <<requests, uses, readable, work, bought>>

\* update_fridge_inventory, and with one name add_item and replenish_item: names
\* that are not in stock.
AddItems(S) ==
  LET unknown == {n \in S : Owners(catalog, n) = {}} IN
  /\ work = Idle /\ S # {} /\ S \cap StockedNames(catalog) = {}
  /\ \E id \in Injection(unknown, Fresh(catalog)) : Save(Restocked(catalog, S, id))
  /\ UNCHANGED forsaken

\* set_product_category with allow_create: a product that was never stocked.
CreateProduct(n) ==
  /\ work = Idle /\ Owners(catalog, n) = {}
  /\ \E i \in Fresh(catalog) : Save([catalog EXCEPT ![i] = NewItem(n, {}, FALSE)])
  /\ UNCHANGED forsaken

\* remove_items, remove_item, clear_fridge: cooked, thrown away or taken off.
RemoveItems(S) ==
  /\ work = Idle /\ S \cap StockedNames(catalog) # {}
  /\ \A i \in Available(catalog) : Identity(catalog[i]) \cap S # {} => catalog[i].cycle < MaxCycle
  /\ Save(Withdrawn(catalog, S))
  /\ UNCHANGED forsaken

\* edit_item, rename_fridge_item: the old name is not kept as an alias.
Rename(i, n) ==
  /\ work = Idle /\ i \in Available(catalog) /\ catalog[i].name # n
  /\ Save([catalog EXCEPT ![i] = Renamed(@, n, {})])
  /\ forsaken' = forsaken \cup {catalog[i].name}

\* Mutant: a completed row does not hold a merge back.
MergeConflictsActive(source) ==
  {x \in ActiveIds :
     \/ x \notin Manuals /\ requests[x].name \in Identity(catalog[source])
     \/ requests[x].pending \in Identity(catalog[source])}

\* identity_merge_conflicts: rows that refer to the source or to its names.
MergeConflicts(source) ==
  {x \in DOMAIN requests :
     LET row == requests[x] names == Identity(catalog[source]) IN
     \/ ~Active(row) /\ row.product = source
     \/ Active(row) /\ x \notin Manuals /\ row.name \in names
     \/ Active(row) /\ row.pending \in names}

\* merge_product_identity.
Merge(source, target) ==
  /\ work = Idle
  /\ source \in Known(catalog) \ Available(catalog)
  /\ target \in Available(catalog)
  /\ MergeConflicts(source) = {}
  /\ Save(Absorbing(catalog, source, target))
  /\ UNCHANGED forsaken

Next ==
  \/ \E x \in RequestIds, exact \in Names : Reserve(x, exact)
  \/ Receive \/ Complete \/ Refresh \/ Crash
  \/ \E n \in Names :
       \/ ChangePlan(n) \/ CreateProduct(n)
       \/ \E x \in Manuals : AddManual(x, n)
       \/ \E i \in Ids : Rename(i, n)
  \/ \E S \in SUBSET Names : AddItems(S) \/ RemoveItems(S)
  \/ \E i, j \in Ids : Merge(i, j)

Spec == Init /\ [][Next]_vars

-------------------------------------------------------------------------------
(***************************************************************************)
(* Correctness.                                                            *)
(***************************************************************************)

\* "Durably bind one shopping identity to an exact receipt winner": whatever
\* crashes and whoever retries, a request never changes its exact name.
WinnerIsFinal ==
  [][\A x \in DOMAIN requests : Winner(requests[x]) # None =>
       x \in DOMAIN requests' /\ Winner(requests'[x]) = Winner(requests[x])]_vars

\* The replay of a completed receipt finds its product: no merge has taken the
\* identity away.
ReplayFindsProduct ==
  \A x \in DOMAIN requests : ~Active(requests[x]) => requests[x].product \in Known(catalog)

\* However often a receipt is interrupted and retried, and whatever its product
\* is called by then, it stocks one identity: the alias for the requested name
\* leads there, unless a rename took that very name away.
OneIdentityPerRequest ==
  \A x \in DOMAIN requests : \A i, j \in Known(catalog) :
    <<x, i>> \in bought /\ <<x, j>> \in bought /\ requests[x].name \notin forsaken => i = j

\* An ingredient that the plan needs and that is out of stock can be received:
\* its derived id is not that of an earlier purchase, completed and closed.
Receivable(n) ==
  /\ ToBuy(n) /\ n \notin StockedNames(catalog)
  /\ DerivedId(n) \in DOMAIN requests
  => Active(requests[DerivedId(n)])

\* A bought and used up ingredient gets a row of its own again, with the next
\* stock cycle in its id, whatever was received, merged or retried before;
\* only a name that a rename took from its identity is excepted.
NeedsReceivable == \A n \in Names \ forsaken : Receivable(n)

\* The week plan stays readable: docs/issues/SHOP-1 calls its file a "validated
\* shopping/budget snapshot".
PlanReadable == readable
===============================================================================
