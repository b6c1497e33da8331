-------------------------- MODULE ShoppingReceiptProofs -----------------------
(***************************************************************************)
(* For any names, identities and requests: a receipt keeps the exact name  *)
(* that won, the product of a completed receipt is never merged away, a    *)
(* request stocks one identity, and what runs out can be bought again.     *)
(***************************************************************************)
EXTENDS ShoppingReceipt, TLAPS

Works == [step : {"idle", "receive", "complete", "refresh"}, id : RequestIds \cup {None},
          name : Names \cup {None}, exact : Names \cup {None}, product : Ids \cup {None}]

\* What a receipt relies on between two of its writes.
Reserved ==
  work.step \in {"receive", "complete"} =>
    /\ work.id \in DOMAIN requests
    /\ Active(requests[work.id]) /\ requests[work.id].pending = work.exact
    /\ work.exact \in Names /\ work.name \in Names
Stocked == work.step \in {"complete", "refresh"} => work.product \in Known(catalog)

Shape ==
  /\ catalog \in Catalogs
  /\ DOMAIN requests \subseteq RequestIds
  /\ requests \in [DOMAIN requests -> Rows]
  /\ work \in Works

ReceiptInv == Shape /\ Reserved /\ Stocked /\ ReplayFindsProduct

-------------------------------------------------------------------------------
\* What the operators on items return.
LEMMA ItemTypes ==
  /\ \A n \in Names, S \in SUBSET Names, b \in BOOLEAN : NewItem(n, S, b) \in Items
  /\ \A item \in Items : InStock(item) \in Items
  /\ \A item \in Items : item.cycle < MaxCycle => OutOfStock(item) \in Items
  /\ \A item \in Items, n \in Names, S \in SUBSET Names : Renamed(item, n, S) \in Items
  /\ \A item \in Items : Identity(item) \in SUBSET Names
<1>1. ASSUME NEW n \in Names, NEW S \in SUBSET Names, NEW b \in BOOLEAN
      PROVE  NewItem(n, S, b) \in Items
  BY CatalogConstants DEF Items, NewItem
<1>2. ASSUME NEW item \in Items
      PROVE  InStock(item) \in Items
  BY DEF Items, InStock
<1>3. ASSUME NEW item \in Items, item.cycle < MaxCycle
      PROVE  OutOfStock(item) \in Items
  <2>1. item.cycle + 1 \in 0 .. MaxCycle
    BY <1>3, CatalogConstants DEF Items
  <2> QED BY <2>1 DEF Items, OutOfStock
<1>4. ASSUME NEW item \in Items, NEW n \in Names, NEW S \in SUBSET Names
      PROVE  Renamed(item, n, S) \in Items
  BY DEF Items, Renamed
<1>5. ASSUME NEW item \in Items
      PROVE  Identity(item) \in SUBSET Names
  BY DEF Items, Identity
<1> QED BY <1>1, <1>2, <1>3, <1>4, <1>5

\* An identity that is known stays known when it is given another item.
LEMMA KnownPut ==
  ASSUME NEW cat \in Catalogs, NEW i \in Ids, NEW item \in Items
  PROVE  LET new == [cat EXCEPT ![i] = item] IN
         new \in Catalogs /\ Known(new) = Known(cat) \cup {i}
BY CatalogConstants DEF Catalogs, Known

\* A merge takes away the source and nothing else.
LEMMA KnownAbsorbing ==
  ASSUME NEW cat \in Catalogs, NEW s \in Known(cat), NEW t \in Known(cat), s # t
  PROVE  Absorbing(cat, s, t) \in Catalogs /\ Known(Absorbing(cat, s, t)) = Known(cat) \ {s}
<1>1. s \in Ids /\ t \in Ids /\ cat[s] \in Items /\ cat[t] \in Items
  BY DEF Known, Catalogs
<1> DEFINE item == Renamed(cat[t], cat[t].name, Identity(cat[s]))
<1>2. cat[t].name \in Names
  BY <1>1 DEF Items
<1>3. item \in Items
  BY <1>1, <1>2, ItemTypes
<1>4. Absorbing(cat, s, t) = [cat EXCEPT ![s] = Merged, ![t] = item]
  BY <1>1 DEF Absorbing, Catalogs
<1> HIDE DEF item
<1> QED BY <1>1, <1>3, <1>4, CatalogConstants DEF Known, Catalogs

\* A catalog that is saved keeps every identity with a completed receipt.
LEMMA SaveKeeps ==
  ASSUME ReceiptInv, work = Idle, NEW cat \in Catalogs, Save(cat),
         \A x \in DOMAIN requests : ~Active(requests[x]) => requests[x].product \in Known(cat)
  PROVE  ReceiptInv'
BY DEF ReceiptInv, Shape, Reserved, Stocked, ReplayFindsProduct, Save, Idle, Known, Works

LEMMA InitHolds == Init => ReceiptInv
BY CatalogConstants
   DEF Init, ReceiptInv, Shape, Reserved, Stocked, ReplayFindsProduct, Idle, Works, Catalogs

\* Putting an active row leaves every completed receipt as it is, unless it is
\* put over one.
LEMMA PutActive ==
  ASSUME ReceiptInv, NEW x \in RequestIds, NEW row \in Rows, PutRow(x, row),
         Active(row), catalog' = catalog
  PROVE  /\ DOMAIN requests' \subseteq RequestIds
         /\ requests' \in [DOMAIN requests' -> Rows]
         /\ ReplayFindsProduct'
BY DEF ReceiptInv, Shape, ReplayFindsProduct, PutRow, Active, Known

LEMMA ReserveKeeps ==
  ASSUME ReceiptInv, NEW x \in RequestIds, NEW exact \in Names, Reserve(x, exact)
  PROVE  ReceiptInv'
<1> DEFINE n == IF x \in DOMAIN requests THEN requests[x].name ELSE x.name
           row == [name |-> n, pending |-> exact, product |-> None, exact |-> None]
<1>1. n \in Names
  <2>1. CASE x \in DOMAIN requests
    BY <2>1 DEF ReceiptInv, Shape, Rows
  <2>2. CASE x \notin DOMAIN requests
    BY <2>2 DEF Reserve, New, Derived, DerivedId, ActiveIds
  <2> QED BY <2>1, <2>2
<1>2. row \in Rows /\ Active(row)
  BY <1>1 DEF Rows, Active
<1>3. PutRow(x, row) /\ catalog' = catalog
      /\ work' = [step |-> "receive", id |-> x, name |-> n, exact |-> exact, product |-> None]
  BY DEF Reserve
<1> HIDE DEF n
<1>4. Shape' /\ ReplayFindsProduct'
  BY <1>1, <1>2, <1>3, PutActive DEF ReceiptInv, Shape, Works
<1>5. Reserved'
  BY <1>1, <1>2, <1>3 DEF Reserved, PutRow, Active, ReceiptInv, Shape
<1>6. Stocked'
  BY <1>3 DEF Stocked
<1> QED BY <1>4, <1>5, <1>6 DEF ReceiptInv

LEMMA ReceiveKeeps == ReceiptInv /\ Receive => ReceiptInv'
<1> SUFFICES ASSUME ReceiptInv, Receive PROVE ReceiptInv'
  OBVIOUS
<1>1. CASE work' = Idle /\ UNCHANGED catalog
  BY <1>1 DEF Receive, ReceiptInv, Shape, Reserved, Stocked, ReplayFindsProduct, Idle, Works, Known
<1>2. CASE \E i \in Ids :
             /\ LET R == Receivers(catalog, work.name, work.exact)
                    item == IF R = {} THEN NewItem(work.exact, {work.name}, TRUE)
                            ELSE Received(catalog[i], work.name, work.exact)
                IN /\ i \in (IF R = {} THEN Fresh(catalog) ELSE R)
                   /\ catalog' = [catalog EXCEPT ![i] = item]
             /\ work' = [work EXCEPT !.step = "complete", !.product = i]
  <2> DEFINE R == Receivers(catalog, work.name, work.exact)
             item(i) == IF R = {} THEN NewItem(work.exact, {work.name}, TRUE)
                        ELSE Received(catalog[i], work.name, work.exact)
  <2>1. PICK i \in Ids : /\ i \in (IF R = {} THEN Fresh(catalog) ELSE R)
                         /\ catalog' = [catalog EXCEPT ![i] = item(i)]
                         /\ work' = [work EXCEPT !.step = "complete", !.product = i]
    BY <1>2
  <2>2. work.step = "receive" /\ work.name \in Names /\ work.exact \in Names
    BY DEF Receive, ReceiptInv, Reserved
  <2>3. R \subseteq Known(catalog)
    BY DEF Receivers, Owners, Named
  <2>4. item(i) \in Items
    <3>1. CASE R = {}
      BY <3>1, <2>2, ItemTypes
    <3>2. CASE R # {}
      <4>1. catalog[i] \in Items
        BY <3>2, <2>1, <2>3 DEF Known, ReceiptInv, Shape, Catalogs
      <4>2. catalog[i].name \in Names
        BY <4>1 DEF Items
      <4>3. Renamed(catalog[i], work.exact, {catalog[i].name, work.name}) \in Items
        BY <4>1, <4>2, <2>2, ItemTypes
      <4> QED BY <3>2, <4>3, ItemTypes DEF Received
    <3> QED BY <3>1, <3>2
  <2> HIDE DEF item, R
  <2>5. catalog' \in Catalogs /\ Known(catalog') = Known(catalog) \cup {i}
    BY <2>1, <2>4, KnownPut DEF ReceiptInv, Shape
  <2>6. UNCHANGED requests
    BY DEF Receive
  <2>7. work' \in Works /\ work'.step = "complete" /\ work'.product = i
        /\ work'.id = work.id /\ work'.name = work.name /\ work'.exact = work.exact
    BY <2>1, <2>2 DEF ReceiptInv, Shape, Works
  <2>8. Shape' /\ Reserved' /\ Stocked'
    BY <2>2, <2>5, <2>6, <2>7 DEF ReceiptInv, Shape, Reserved, Stocked, Active
  <2>9. ReplayFindsProduct'
    BY <2>5, <2>6 DEF ReceiptInv, ReplayFindsProduct, Active
  <2> QED BY <2>8, <2>9 DEF ReceiptInv
<1> QED BY <1>1, <1>2 DEF Receive

LEMMA CompleteKeeps == ReceiptInv /\ Complete => ReceiptInv'
<1> SUFFICES ASSUME ReceiptInv, Complete PROVE ReceiptInv'
  OBVIOUS
<1> DEFINE row == [name |-> work.name, pending |-> None,
                   product |-> work.product, exact |-> work.exact]
<1>1. /\ work.step = "complete" /\ work.id \in DOMAIN requests
      /\ work.exact \in Names /\ work.name \in Names
      /\ work.product \in Known(catalog)
  BY DEF Complete, ReceiptInv, Reserved, Stocked
<1>2. row \in Rows
  BY <1>1 DEF Rows, Known
<1>3. PutRow(work.id, row) /\ catalog' = catalog /\ work' = [work EXCEPT !.step = "refresh"]
  BY DEF Complete
<1>4. DOMAIN requests' = DOMAIN requests
      /\ \A y \in DOMAIN requests : requests'[y] = IF y = work.id THEN row ELSE requests[y]
  BY <1>1, <1>3 DEF PutRow
<1>5. work' \in Works /\ work'.step = "refresh" /\ work'.product = work.product
  BY <1>3 DEF ReceiptInv, Shape, Works
<1>6. requests' \in [DOMAIN requests' -> Rows]
  BY <1>2, <1>3, <1>4 DEF PutRow, ReceiptInv, Shape
<1>7. Shape' /\ Reserved' /\ Stocked'
  BY <1>1, <1>3, <1>4, <1>5, <1>6 DEF ReceiptInv, Shape, Reserved, Stocked
<1>8. ReplayFindsProduct'
  BY <1>1, <1>3, <1>4 DEF ReceiptInv, ReplayFindsProduct, Active
<1> QED BY <1>7, <1>8 DEF ReceiptInv

\* A step that ends the receipt and leaves the documents that it relies on.
LEMMA EndKeeps ==
  ASSUME ReceiptInv, work' = Idle, UNCHANGED <<catalog, requests>>
  PROVE  ReceiptInv'
BY DEF ReceiptInv, Shape, Reserved, Stocked, ReplayFindsProduct, Idle, Works, Known, Active

LEMMA AddManualKeeps ==
  ASSUME ReceiptInv, NEW x \in Manuals, NEW n \in Names, AddManual(x, n)
  PROVE  ReceiptInv'
<1> DEFINE row == [name |-> n, pending |-> None, product |-> None, exact |-> None]
<1>1. row \in Rows /\ Active(row) /\ x \in RequestIds
  BY DEF Rows, Active, RequestIds
<1>2. PutRow(x, row) /\ UNCHANGED <<catalog, work>> /\ work = Idle
  BY DEF AddManual
<1>3. Shape' /\ ReplayFindsProduct'
  BY <1>1, <1>2, PutActive DEF ReceiptInv, Shape
<1> QED BY <1>2, <1>3 DEF ReceiptInv, Reserved, Stocked, Idle

\* An operation on one item keeps every identity known.
LEMMA PutKeeps ==
  ASSUME ReceiptInv, work = Idle, NEW i \in Ids, NEW item \in Items,
         Save([catalog EXCEPT ![i] = item])
  PROVE  ReceiptInv'
BY SaveKeeps, KnownPut DEF ReceiptInv, Shape, ReplayFindsProduct

\* An operation on several items keeps every identity known.
LEMMA KnownAll ==
  ASSUME NEW cat \in Catalogs, NEW new \in Catalogs,
         \A i \in Known(cat) : new[i] \in Items
  PROVE  Known(cat) \subseteq Known(new)
BY CatalogConstants DEF Known

LEMMA AllKeep ==
  ASSUME ReceiptInv, work = Idle, NEW new \in Catalogs, Save(new),
         \A i \in Known(catalog) : new[i] \in Items
  PROVE  ReceiptInv'
BY KnownAll, SaveKeeps DEF ReceiptInv, Shape, ReplayFindsProduct

LEMMA AddItemsKeep ==
  ASSUME ReceiptInv, NEW S \in SUBSET Names, AddItems(S)
  PROVE  ReceiptInv'
<1> DEFINE unknown == {n \in S : Owners(catalog, n) = {}}
<1>1. PICK id \in Injection(unknown, Fresh(catalog)) : Save(Restocked(catalog, S, id))
  BY DEF AddItems
<1>2. DOMAIN id \subseteq Names
  BY DEF Injection
<1> DEFINE new == Restocked(catalog, S, id)
<1>3. ASSUME NEW i \in Ids
      PROVE  /\ new[i] \in Items \cup {Unused, Merged}
             /\ i \in Known(catalog) => new[i] \in Items
  <2>1. catalog[i] \in Items \cup {Unused, Merged} /\ (i \in Known(catalog) => catalog[i] \in Items)
    BY DEF ReceiptInv, Shape, Catalogs, Known
  <2>2. CASE i \in Known(catalog) /\ Identity(catalog[i]) \cap S # {}
    BY <2>1, <2>2, ItemTypes DEF Restocked
  <2>3. CASE ~(i \in Known(catalog) /\ Identity(catalog[i]) \cap S # {})
             /\ \E n \in DOMAIN id : id[n] = i
    <3>1. (CHOOSE n \in DOMAIN id : id[n] = i) \in Names
      BY <2>3, <1>2
    <3>2. new[i] = NewItem(CHOOSE n \in DOMAIN id : id[n] = i, {}, TRUE)
      BY <2>3 DEF Restocked
    <3> QED BY <3>1, <3>2, ItemTypes
  <2>4. CASE ~(i \in Known(catalog) /\ Identity(catalog[i]) \cap S # {})
             /\ ~ \E n \in DOMAIN id : id[n] = i
    BY <2>1, <2>4 DEF Restocked
  <2> QED BY <2>2, <2>3, <2>4
<1>4. new \in Catalogs
  BY <1>3 DEF Restocked, Catalogs
<1> HIDE DEF new
<1>5. \A i \in Known(catalog) : new[i] \in Items
  BY <1>3 DEF Known
<1> QED BY <1>1, <1>4, <1>5, AllKeep DEF new, AddItems

LEMMA CreateProductKeeps ==
  ASSUME ReceiptInv, NEW n \in Names, CreateProduct(n)
  PROVE  ReceiptInv'
BY ItemTypes, PutKeeps DEF CreateProduct, Fresh

LEMMA RemoveItemsKeep ==
  ASSUME ReceiptInv, NEW S \in SUBSET Names, RemoveItems(S)
  PROVE  ReceiptInv'
<1> DEFINE new == Withdrawn(catalog, S)
<1>1. ASSUME NEW i \in Ids
      PROVE  /\ new[i] \in Items \cup {Unused, Merged}
             /\ i \in Known(catalog) => new[i] \in Items
  <2>1. catalog[i] \in Items \cup {Unused, Merged} /\ (i \in Known(catalog) => catalog[i] \in Items)
    BY DEF ReceiptInv, Shape, Catalogs, Known
  <2>2. CASE i \in Available(catalog) /\ Identity(catalog[i]) \cap S # {}
    <3>1. catalog[i] \in Items /\ catalog[i].cycle < MaxCycle
      BY <2>1, <2>2 DEF RemoveItems, Available
    <3> QED BY <2>2, <3>1, ItemTypes DEF Withdrawn
  <2>3. CASE ~(i \in Available(catalog) /\ Identity(catalog[i]) \cap S # {})
    BY <2>1, <2>3 DEF Withdrawn
  <2> QED BY <2>2, <2>3
<1>2. new \in Catalogs
  BY <1>1 DEF Withdrawn, Catalogs
<1> HIDE DEF new
<1>3. \A i \in Known(catalog) : new[i] \in Items
  BY <1>1 DEF Known
<1> QED BY <1>2, <1>3, AllKeep DEF new, RemoveItems

LEMMA RenameKeeps ==
  ASSUME ReceiptInv, NEW i \in Ids, NEW n \in Names, Rename(i, n)
  PROVE  ReceiptInv'
<1>1. catalog[i] \in Items
  BY DEF Rename, Available, Known, ReceiptInv, Shape, Catalogs
<1>2. Renamed(catalog[i], n, {}) \in Items
  BY <1>1, ItemTypes
<1> QED BY <1>2, PutKeeps DEF Rename

\* A merge is refused while a completed receipt points to its source.
LEMMA MergeKeeps ==
  ASSUME ReceiptInv, NEW s \in Ids, NEW t \in Ids, Merge(s, t)
  PROVE  ReceiptInv'
<1>1. s \in Known(catalog) /\ t \in Known(catalog) /\ s # t
  BY DEF Merge, Available
<1>2. /\ Absorbing(catalog, s, t) \in Catalogs
      /\ Known(Absorbing(catalog, s, t)) = Known(catalog) \ {s}
  BY <1>1, KnownAbsorbing DEF ReceiptInv, Shape
<1>3. ASSUME NEW x \in DOMAIN requests, ~Active(requests[x])
      PROVE  requests[x].product \in Known(catalog) \ {s}
  BY <1>3 DEF Merge, MergeConflicts, ReceiptInv, ReplayFindsProduct
<1> QED BY <1>2, <1>3, SaveKeeps DEF Merge

LEMMA StepKeeps == ReceiptInv /\ [Next]_vars => ReceiptInv'
<1> SUFFICES ASSUME ReceiptInv, [Next]_vars PROVE ReceiptInv'
  OBVIOUS
<1>1. CASE \E x \in RequestIds, exact \in Names : Reserve(x, exact)
  BY <1>1, ReserveKeeps
<1>2. CASE Receive
  BY <1>2, ReceiveKeeps
<1>3. CASE Complete
  BY <1>3, CompleteKeeps
<1>4. CASE Refresh
  BY <1>4, EndKeeps DEF Refresh
<1>5. CASE Crash
  BY <1>5, EndKeeps DEF Crash, world
<1>6. CASE \E n \in Names : ChangePlan(n)
  BY <1>6, EndKeeps DEF ChangePlan
<1>7. CASE \E n \in Names : CreateProduct(n)
  BY <1>7, CreateProductKeeps
<1>8. CASE \E n \in Names, x \in Manuals : AddManual(x, n)
  BY <1>8, AddManualKeeps
<1>9. CASE \E n \in Names, i \in Ids : Rename(i, n)
  BY <1>9, RenameKeeps
<1>10. CASE \E S \in SUBSET Names : AddItems(S) \/ RemoveItems(S)
  BY <1>10, AddItemsKeep, RemoveItemsKeep
<1>11. CASE \E i, j \in Ids : Merge(i, j)
  BY <1>11, MergeKeeps
<1>12. CASE UNCHANGED vars
  BY <1>12 DEF vars, world, ReceiptInv, Shape, Reserved, Stocked, ReplayFindsProduct,
               Known, Active
<1> QED
  BY <1>1, <1>2, <1>3, <1>4, <1>5, <1>6, <1>7, <1>8, <1>9, <1>10, <1>11, <1>12 DEF Next

-------------------------------------------------------------------------------
\* Whatever crashes, fails and is retried: a receipt that was begun relies on
\* its reservation, and one that was completed on its product.
THEOREM ReceiptInvariance == Spec => []ReceiptInv
<1> QED BY InitHolds, StepKeeps, PTL DEF Spec

\* The replay of a completed receipt finds its product in the catalog: no merge
\* takes the identity away.
THEOREM ReplaysSucceed == Spec => []ReplayFindsProduct
<1>1. ReceiptInv => ReplayFindsProduct
  BY DEF ReceiptInv
<1> QED BY <1>1, ReceiptInvariance, PTL

\* Putting a row that names the winner of the row it replaces, if there is one.
LEMMA PutWinner ==
  ASSUME NEW x, NEW row, PutRow(x, row),
         x \in DOMAIN requests /\ Winner(requests[x]) # None => Winner(row) = Winner(requests[x])
  PROVE  \A y \in DOMAIN requests : Winner(requests[y]) # None =>
           y \in DOMAIN requests' /\ Winner(requests'[y]) = Winner(requests[y])
BY DEF PutRow

LEMMA StepKeepsWinners ==
  ReceiptInv /\ [Next]_vars =>
    [\A x \in DOMAIN requests : Winner(requests[x]) # None =>
       x \in DOMAIN requests' /\ Winner(requests'[x]) = Winner(requests[x])]_vars
<1> SUFFICES ASSUME ReceiptInv, Next
             PROVE  \A x \in DOMAIN requests : Winner(requests[x]) # None =>
                      x \in DOMAIN requests' /\ Winner(requests'[x]) = Winner(requests[x])
  OBVIOUS
<1>1. ASSUME NEW x \in RequestIds, NEW exact \in Names, Reserve(x, exact)
      PROVE  \A y \in DOMAIN requests : Winner(requests[y]) # None =>
               y \in DOMAIN requests' /\ Winner(requests'[y]) = Winner(requests[y])
  <2> DEFINE n == IF x \in DOMAIN requests THEN requests[x].name ELSE x.name
             row == [name |-> n, pending |-> exact, product |-> None, exact |-> None]
  <2>1. PutRow(x, row)
    BY <1>1 DEF Reserve
  <2>2. Winner(row) = exact
    BY DEF Winner, Active
  <2>3. x \in DOMAIN requests /\ Winner(requests[x]) # None => Winner(requests[x]) = exact
    BY <1>1 DEF Reserve, New
  <2> HIDE DEF row
  <2> QED BY <2>1, <2>2, <2>3, PutWinner
<1>2. CASE Complete
  <2> DEFINE row == [name |-> work.name, pending |-> None,
                     product |-> work.product, exact |-> work.exact]
  <2>1. PutRow(work.id, row) /\ work.product # None
    BY <1>2, ReceiptConstants DEF Complete, ReceiptInv, Stocked, Known
  <2>2. Winner(row) = work.exact
    BY <2>1 DEF Winner, Active
  <2>3. Winner(requests[work.id]) = work.exact
    BY <1>2 DEF Complete, ReceiptInv, Reserved, Winner
  <2> HIDE DEF row
  <2> QED BY <2>1, <2>2, <2>3, PutWinner
<1>3. ASSUME NEW n \in Names, NEW x \in Manuals, AddManual(x, n)
      PROVE  \A y \in DOMAIN requests : Winner(requests[y]) # None =>
               y \in DOMAIN requests' /\ Winner(requests'[y]) = Winner(requests[y])
  BY <1>3, PutWinner DEF AddManual, New
<1>4. CASE UNCHANGED requests
  BY <1>4
<1> QED
  BY <1>1, <1>2, <1>3, <1>4
     DEF Next, Receive, Refresh, Crash, world, ChangePlan, AddItems, CreateProduct, RemoveItems,
         Rename, Merge, Save

\* A shopping identity is bound to one exact receipt winner for good.
THEOREM WinnersHold == Spec => WinnerIsFinal
<1> QED BY ReceiptInvariance, StepKeepsWinners, PTL DEF Spec, WinnerIsFinal
-------------------------------------------------------------------------------
(* Types.                                                                  *)

LEMMA StepKeepsTypes == ReceiptInv /\ TypeOK /\ [Next]_vars => TypeOK'
<1> SUFFICES ASSUME ReceiptInv, TypeOK, [Next]_vars, ReceiptInv' PROVE TypeOK'
  BY StepKeeps
<1> DEFINE Rest == /\ Sound(catalog) /\ uses \in [Names -> 0 .. MaxUses] /\ readable \in BOOLEAN
                   /\ bought \subseteq RequestIds \X Ids /\ forsaken \subseteq Names
<1>1. Shape => (TypeOK <=> Rest)
  BY DEF Shape, TypeOK, Works
<1>2. Shape' => (TypeOK' <=> Rest')
  BY DEF Shape, TypeOK, Works
<1>3. Shape /\ Shape' /\ Rest
  BY <1>1 DEF ReceiptInv
<1> SUFFICES Rest'
  BY <1>2, <1>3
<1>4. ASSUME NEW cat, Save(cat), forsaken' \subseteq Names PROVE Rest'
  BY <1>3, <1>4 DEF Save
<1>5. CASE \E x \in RequestIds, exact \in Names : Reserve(x, exact)
  BY <1>3, <1>5 DEF Reserve, history, Sound, Known
<1>6. CASE Receive
  <2>1. CASE work' = Idle /\ UNCHANGED <<catalog, bought>>
    BY <1>3, <1>6, <2>1 DEF Receive, Sound, Known
  <2>2. CASE Sound(catalog') /\ \E i \in Ids : bought' = bought \cup {<<work.id, i>>}
    <3>1. work.id \in RequestIds
      BY <1>3, <1>6 DEF Receive, ReceiptInv, Reserved, Shape
    <3>2. UNCHANGED <<uses, readable, forsaken>>
      BY <1>6 DEF Receive
    <3> QED BY <1>3, <2>2, <3>1, <3>2
  <2> QED BY <1>6, <2>1, <2>2 DEF Receive
<1>7. CASE Complete \/ Crash
  BY <1>3, <1>7 DEF Complete, Crash, history, world, Sound, Known
<1>8. CASE Refresh
  <2>1. Valid(Projection) \in BOOLEAN
    BY DEF Valid
  <2> QED BY <1>3, <1>8, <2>1 DEF Refresh, history, Sound, Known
<1>9. ASSUME NEW n \in Names, ChangePlan(n) PROVE Rest'
  BY <1>3, <1>9 DEF ChangePlan, history, Sound, Known
<1>10. ASSUME NEW n \in Names, NEW x \in Manuals, AddManual(x, n) PROVE Rest'
  BY <1>3, <1>10 DEF AddManual, history, Sound, Known
<1>11. ASSUME NEW n \in Names, CreateProduct(n) PROVE Rest'
  BY <1>3, <1>4, <1>11 DEF CreateProduct
<1>12. ASSUME NEW S \in SUBSET Names, AddItems(S) \/ RemoveItems(S) PROVE Rest'
  BY <1>3, <1>4, <1>12 DEF AddItems, RemoveItems
<1>13. ASSUME NEW i \in Ids, NEW n \in Names, Rename(i, n) PROVE Rest'
  <2>1. catalog[i] \in Items
    BY <1>3, <1>13 DEF Rename, Available, Known, Shape, Catalogs
  <2>2. catalog[i].name \in Names
    BY <2>1 DEF Items
  <2>3. forsaken' = forsaken \cup {catalog[i].name}
    BY <1>13 DEF Rename
  <2> QED BY <1>3, <1>4, <1>13, <2>2, <2>3 DEF Rename
<1>14. ASSUME NEW i \in Ids, NEW j \in Ids, Merge(i, j) PROVE Rest'
  BY <1>3, <1>4, <1>14 DEF Merge
<1>15. CASE UNCHANGED vars
  BY <1>3, <1>15 DEF vars, world, history, Sound, Known
<1> HIDE DEF Rest
<1> QED
  BY <1>5, <1>6, <1>7, <1>8, <1>9, <1>10, <1>11, <1>12, <1>13, <1>14, <1>15 DEF Next

\* Every catalog that is ever saved can be loaded: no name belongs to two
\* identities, whatever is bought, renamed and merged.
THEOREM TypeCorrect == Spec => []TypeOK
<1>1. Init => TypeOK
  BY CatalogConstants, ReceiptConstants
  DEF Init, TypeOK, Idle, Catalogs, Sound, Known
<1> QED BY <1>1, StepKeepsTypes, ReceiptInvariance, PTL DEF Spec

-------------------------------------------------------------------------------
(* What a request bought is known by the name of the request, and in a     *)
(* later stock cycle unless it is still there.                             *)

\* What time makes of an item, when the names in lost are taken from it.
Later(item, next, lost) ==
  /\ Identity(item) \subseteq Identity(next) \cup lost
  /\ item.ever => next.ever
  /\ item.cycle <= next.cycle
  /\ item.available /\ item.cycle = next.cycle => next.available

Evolves(new, lost) ==
  \A i \in Ids \ Fresh(catalog) :
    /\ i \notin Fresh(new)
    /\ i \in Known(new) => i \in Known(catalog) /\ Later(catalog[i], new[i], lost)

RowsNamed == \A x \in DOMAIN requests : x \notin Manuals => requests[x].name = x.name

\* The identity of a derived id has reached the stock cycle of the id.
CyclesReached ==
  \A x \in DOMAIN requests : x \notin Manuals /\ x.item # None =>
    /\ x.item \in Ids \ Fresh(catalog)
    /\ x.item \in Known(catalog) => x.cycle <= catalog[x.item].cycle

ProductNamed(x, i) ==
  /\ x \in DOMAIN requests /\ i \in Ids \ Fresh(catalog)
  /\ i \in Known(catalog) => requests[x].name \in Identity(catalog[i]) \cup forsaken

Purchased(x, i) ==
  /\ <<x, i>> \in bought /\ catalog[i].ever
  /\ x \notin Manuals /\ x.item = i /\ x.cycle = catalog[i].cycle => catalog[i].available

WorkKnown ==
  /\ work.step \in {"receive", "complete"} => requests[work.id].name = work.name
  /\ work.step = "complete" => Purchased(work.id, work.product)

PurchaseInv ==
  /\ RowsNamed
  /\ CyclesReached
  /\ \A x \in RequestIds, i \in Ids : <<x, i>> \in bought => ProductNamed(x, i)
  /\ \A x \in DOMAIN requests : ~Active(requests[x]) => Purchased(x, requests[x].product)
  /\ WorkKnown

\* What the operations make of an item is a later state of it.
LEMMA LaterItems ==
  ASSUME NEW item \in Items
  PROVE  /\ Later(item, item, {}) /\ Later(item, InStock(item), {})
         /\ item.cycle < MaxCycle => Later(item, OutOfStock(item), {})
         /\ \A n \in Names, S \in SUBSET Names :
              /\ Later(item, Renamed(item, n, S), {item.name})
              /\ item.name \in S \cup {n} => Later(item, Renamed(item, n, S), {})
<1>1. item.cycle \in Nat /\ item.available \in BOOLEAN /\ item.ever \in BOOLEAN
  BY CatalogConstants DEF Items
<1>2. Later(item, item, {}) /\ Later(item, InStock(item), {})
  BY <1>1 DEF Later, InStock, Identity, Items
<1>3. ASSUME item.cycle < MaxCycle PROVE Later(item, OutOfStock(item), {})
  BY <1>1 DEF Later, OutOfStock, Identity, Items
<1>4. ASSUME NEW n \in Names, NEW S \in SUBSET Names
      PROVE  /\ Later(item, Renamed(item, n, S), {item.name})
             /\ item.name \in S \cup {n} => Later(item, Renamed(item, n, S), {})
  <2> DEFINE new == Renamed(item, n, S)
  <2>1. /\ new.name = n /\ new.aliases = (item.aliases \cup S) \ {n}
        /\ new.ever = item.ever /\ new.cycle = item.cycle /\ new.available = item.available
    BY DEF Renamed, Items
  <2>2. /\ Identity(new) = {n} \cup item.aliases \cup S
        /\ Identity(item) = {item.name} \cup item.aliases
    BY <2>1 DEF Identity
  <2> HIDE DEF new
  <2>3. \A lost : Identity(item) \subseteq Identity(new) \cup lost => Later(item, new, lost)
    BY <1>1, <2>1 DEF Later
  <2> QED BY <2>2, <2>3 DEF new
<1> QED BY <1>2, <1>3, <1>4

LEMMA LaterTwice ==
  ASSUME NEW a \in Items, NEW b \in Items, NEW c \in Items, Later(a, b, {}), Later(b, c, {})
  PROVE  Later(a, c, {})
<1>1. a.cycle \in Nat /\ b.cycle \in Nat /\ c.cycle \in Nat
  BY CatalogConstants DEF Items
<1> QED BY <1>1 DEF Later

\* One item is put, in place of an earlier state of it or for a new identity.
LEMMA PutEvolves ==
  ASSUME catalog \in Catalogs, NEW i \in Ids, NEW item \in Items, NEW lost,
         i \in Fresh(catalog) \/ (i \in Known(catalog) /\ Later(catalog[i], item, lost))
  PROVE  Evolves([catalog EXCEPT ![i] = item], lost)
<1> DEFINE new == [catalog EXCEPT ![i] = item]
<1> SUFFICES ASSUME NEW j \in Ids \ Fresh(catalog)
             PROVE  /\ j \notin Fresh(new)
                    /\ j \in Known(new) => j \in Known(catalog) /\ Later(catalog[j], new[j], lost)
  BY DEF Evolves
<1>1. CASE j = i
  <2>1. new[j] = item /\ item # Unused
    BY <1>1, CatalogConstants DEF Catalogs
  <2> QED BY <1>1, <2>1 DEF Fresh
<1>2. CASE j # i
  <2>1. new[j] = catalog[j]
    BY <1>2 DEF Catalogs
  <2>2. j \notin Fresh(new) /\ (j \in Known(new) => j \in Known(catalog))
    BY <2>1 DEF Fresh, Known
  <2>3. ASSUME j \in Known(catalog) PROVE Later(catalog[j], catalog[j], lost)
    <3>1. catalog[j] \in Items
      BY <2>3 DEF Known, Catalogs
    <3> QED BY <3>1, LaterItems DEF Later
  <2> QED BY <2>1, <2>2, <2>3
<1> QED BY <1>1, <1>2

\* Purchases outlive any change of the catalog.
LEMMA PurchasesEvolve ==
  ASSUME ReceiptInv, PurchaseInv, catalog' \in Catalogs, NEW lost, Evolves(catalog', lost),
         requests' = requests, forsaken' = forsaken \cup lost, bought \subseteq bought'
  PROVE  /\ RowsNamed' /\ CyclesReached'
         /\ \A x \in RequestIds, i \in Ids : <<x, i>> \in bought => ProductNamed(x, i)'
         /\ \A x \in RequestIds, i \in Known(catalog') : Purchased(x, i) => Purchased(x, i)'
<1>1. RowsNamed'
  BY DEF PurchaseInv, RowsNamed
<1>2. Known(catalog) = {i \in Ids : catalog[i] \notin {Unused, Merged}}
  BY DEF Known
<1>3. CyclesReached'
  <2> SUFFICES ASSUME NEW x \in DOMAIN requests, x \notin Manuals, x.item # None
               PROVE  /\ x.item \in Ids \ Fresh(catalog')
                      /\ x.item \in Known(catalog') => x.cycle <= catalog'[x.item].cycle
    BY DEF CyclesReached, Fresh, Known
  <2>1. /\ x.item \in Ids \ Fresh(catalog)
        /\ x.item \in Known(catalog) => x.cycle <= catalog[x.item].cycle
    BY DEF PurchaseInv, CyclesReached
  <2>2. x.item \notin Fresh(catalog')
    BY <2>1 DEF Evolves
  <2>3. ASSUME x.item \in Known(catalog') PROVE x.cycle <= catalog'[x.item].cycle
    <3>1. x.item \in Known(catalog) /\ Later(catalog[x.item], catalog'[x.item], lost)
      BY <2>1, <2>3 DEF Evolves
    <3>2. catalog[x.item] \in Items /\ catalog'[x.item] \in Items
      BY <2>1, <2>3, <3>1 DEF Known, Catalogs, ReceiptInv, Shape
    <3>3. catalog[x.item].cycle \in Nat /\ catalog'[x.item].cycle \in Nat
      BY <3>2, CatalogConstants DEF Items
    <3>4. x.cycle \in Nat
      BY CatalogConstants DEF ReceiptInv, Shape, RequestIds, DerivedIds
    <3> QED BY <2>1, <3>1, <3>3, <3>4 DEF Later
  <2> QED BY <2>1, <2>2, <2>3
<1>4. ASSUME NEW x \in RequestIds, NEW i \in Ids, <<x, i>> \in bought
      PROVE  ProductNamed(x, i)'
  <2>1. ProductNamed(x, i)
    BY <1>4 DEF PurchaseInv
  <2>2. /\ i \notin Fresh(catalog')
        /\ i \in Known(catalog') => i \in Known(catalog) /\ Later(catalog[i], catalog'[i], lost)
    BY <2>1 DEF Evolves, ProductNamed
  <2> QED BY <2>1, <2>2 DEF ProductNamed, Later, Fresh, Known
<1>5. ASSUME NEW x \in RequestIds, NEW i \in Known(catalog'), Purchased(x, i)
      PROVE  Purchased(x, i)'
  <2>1. i \in Ids /\ <<x, i>> \in bought
    BY <1>5 DEF Purchased, Known
  <2>2. i \in Ids \ Fresh(catalog)
    BY <2>1 DEF PurchaseInv, ProductNamed
  <2>3. i \in Known(catalog) /\ Later(catalog[i], catalog'[i], lost)
    BY <2>2 DEF Evolves
  <2>4. catalog[i] \in Items /\ catalog'[i] \in Items
    BY <2>1, <2>3 DEF Known, Catalogs, ReceiptInv, Shape
  <2>5. catalog[i].cycle \in Nat /\ catalog'[i].cycle \in Nat
    BY <2>4, CatalogConstants DEF Items
  <2>6. ASSUME x \notin Manuals, x.item = i, x.cycle = catalog'[i].cycle
        PROVE  catalog'[i].available
    <3>1. x \in DOMAIN requests
      BY <2>1 DEF PurchaseInv, ProductNamed
    <3>2. i # None
      BY <2>1, ReceiptConstants
    <3>3. x.cycle <= catalog[i].cycle
      BY <2>3, <2>6, <3>1, <3>2 DEF PurchaseInv, CyclesReached
    <3>4. x.cycle = catalog[i].cycle
      BY <2>3, <2>5, <2>6, <3>3 DEF Later
    <3> QED BY <1>5, <2>3, <2>6, <3>4 DEF Later, Purchased
  <2> QED BY <1>5, <2>1, <2>3, <2>6 DEF Purchased, Later
<1> QED BY <1>1, <1>3, <1>4, <1>5

\* Between two receipts another tool saves the catalog.
LEMMA SavePurchases ==
  ASSUME ReceiptInv, ReceiptInv', PurchaseInv, work = Idle, NEW lost,
         catalog' \in Catalogs, Evolves(catalog', lost),
         requests' = requests, work' = work, bought' = bought, forsaken' = forsaken \cup lost
  PROVE  PurchaseInv'
<1>1. /\ RowsNamed' /\ CyclesReached'
      /\ \A x \in RequestIds, i \in Ids : <<x, i>> \in bought => ProductNamed(x, i)'
      /\ \A x \in RequestIds, i \in Known(catalog') : Purchased(x, i) => Purchased(x, i)'
  BY PurchasesEvolve
<1>2. \A x \in RequestIds, i \in Ids : <<x, i>> \in bought' => ProductNamed(x, i)'
  BY <1>1
<1>3. \A x \in DOMAIN requests' : ~Active(requests'[x]) => Purchased(x, requests[x].product)'
  <2> SUFFICES ASSUME NEW x \in DOMAIN requests, ~Active(requests[x])
               PROVE  Purchased(x, requests[x].product)'
    OBVIOUS
  <2>1. /\ Purchased(x, requests[x].product) /\ requests[x].product \in Known(catalog)'
        /\ x \in RequestIds
    BY DEF PurchaseInv, ReceiptInv, ReplayFindsProduct, Shape
  <2>2. PICK p : p = requests[x].product
    OBVIOUS
  <2>3. Purchased(x, p)'
    BY <1>1, <2>1, <2>2
  <2> QED BY <2>2, <2>3 DEF Purchased
<1>4. WorkKnown'
  BY DEF WorkKnown, Idle
<1> QED BY <1>1, <1>2, <1>3, <1>4 DEF PurchaseInv

LEMMA AddItemsPurchases ==
  ASSUME ReceiptInv, ReceiptInv', PurchaseInv, NEW S \in SUBSET Names, AddItems(S)
  PROVE  PurchaseInv'
<1> DEFINE unknown == {n \in S : Owners(catalog, n) = {}}
<1>1. PICK id \in Injection(unknown, Fresh(catalog)) : Save(Restocked(catalog, S, id))
  BY DEF AddItems
<1>2. \A n \in DOMAIN id : id[n] \in Fresh(catalog)
  BY DEF Injection
<1> DEFINE new == Restocked(catalog, S, id)
<1>3. ASSUME NEW i \in Ids \ Fresh(catalog)
      PROVE  /\ i \notin Fresh(new)
             /\ i \in Known(new) => i \in Known(catalog) /\ Later(catalog[i], new[i], {})
  <2>1. ~ \E n \in DOMAIN id : id[n] = i
    BY <1>2
  <2>2. CASE i \in Known(catalog)
    <3>1. catalog[i] \in Items
      BY <2>2 DEF Known, ReceiptInv, Shape, Catalogs
    <3>2. new[i] \in {catalog[i], InStock(catalog[i])}
      BY <2>1, <2>2 DEF Restocked
    <3>3. new[i] \in Items
      BY <3>1, <3>2, ItemTypes
    <3> QED BY <2>2, <3>1, <3>2, <3>3, LaterItems, CatalogConstants DEF Fresh
  <2>3. CASE i \notin Known(catalog)
    <3>1. new[i] = catalog[i] /\ catalog[i] = Merged
      BY <2>1, <2>3 DEF Restocked, Known, Fresh
    <3> QED BY <2>3, <3>1, CatalogConstants DEF Fresh, Known
  <2> QED BY <2>2, <2>3
<1> HIDE DEF new
<1>4. Evolves(new, {})
  BY <1>3 DEF Evolves
<1>5. /\ catalog' = new /\ requests' = requests /\ work' = work /\ bought' = bought
      /\ forsaken' = forsaken /\ work = Idle
  BY <1>1 DEF AddItems, Save, new
<1> QED BY <1>4, <1>5, SavePurchases DEF ReceiptInv, Shape

LEMMA RemoveItemsPurchases ==
  ASSUME ReceiptInv, ReceiptInv', PurchaseInv, NEW S \in SUBSET Names, RemoveItems(S)
  PROVE  PurchaseInv'
<1> DEFINE new == Withdrawn(catalog, S)
<1>1. ASSUME NEW i \in Ids \ Fresh(catalog)
      PROVE  /\ i \notin Fresh(new)
             /\ i \in Known(new) => i \in Known(catalog) /\ Later(catalog[i], new[i], {})
  <2>1. CASE i \in Available(catalog) /\ Identity(catalog[i]) \cap S # {}
    <3>1. i \in Known(catalog) /\ catalog[i] \in Items /\ catalog[i].cycle < MaxCycle
      BY <2>1 DEF RemoveItems, Available, Known, ReceiptInv, Shape, Catalogs
    <3>2. new[i] = OutOfStock(catalog[i])
      BY <2>1 DEF Withdrawn
    <3>3. new[i] \in Items
      BY <3>1, <3>2, ItemTypes
    <3> QED BY <3>1, <3>2, <3>3, LaterItems, CatalogConstants DEF Fresh
  <2>2. CASE ~(i \in Available(catalog) /\ Identity(catalog[i]) \cap S # {})
    <3>1. new[i] = catalog[i]
      BY <2>2 DEF Withdrawn
    <3>2. i \in Known(catalog) => catalog[i] \in Items
      BY DEF Known, ReceiptInv, Shape, Catalogs
    <3> QED BY <3>1, <3>2, LaterItems DEF Fresh, Known
  <2> QED BY <2>1, <2>2
<1> HIDE DEF new
<1>2. Evolves(new, {})
  BY <1>1 DEF Evolves
<1>3. /\ catalog' = new /\ requests' = requests /\ work' = work /\ bought' = bought
      /\ forsaken' = forsaken /\ work = Idle
  BY DEF RemoveItems, Save, new
<1> QED BY <1>2, <1>3, SavePurchases DEF ReceiptInv, Shape

LEMMA CreateProductPurchases ==
  ASSUME ReceiptInv, ReceiptInv', PurchaseInv, NEW n \in Names, CreateProduct(n)
  PROVE  PurchaseInv'
<1>1. PICK i \in Fresh(catalog) : Save([catalog EXCEPT ![i] = NewItem(n, {}, FALSE)])
  BY DEF CreateProduct
<1>2. NewItem(n, {}, FALSE) \in Items /\ i \in Ids
  BY ItemTypes DEF Fresh
<1>3. /\ catalog' = [catalog EXCEPT ![i] = NewItem(n, {}, FALSE)]
      /\ requests' = requests /\ work' = work /\ bought' = bought
      /\ forsaken' = forsaken /\ work = Idle
  BY <1>1 DEF CreateProduct, Save
<1>4. Evolves(catalog', {})
  BY <1>2, <1>3, PutEvolves DEF ReceiptInv, Shape
<1> QED BY <1>3, <1>4, SavePurchases DEF ReceiptInv, Shape

\* A rename takes one name from the identity.
LEMMA RenamePurchases ==
  ASSUME ReceiptInv, ReceiptInv', PurchaseInv, NEW i \in Ids, NEW n \in Names, Rename(i, n)
  PROVE  PurchaseInv'
<1>1. i \in Known(catalog) /\ catalog[i] \in Items
  BY DEF Rename, Available, Known, ReceiptInv, Shape, Catalogs
<1>2. /\ Renamed(catalog[i], n, {}) \in Items
      /\ Later(catalog[i], Renamed(catalog[i], n, {}), {catalog[i].name})
  BY <1>1, ItemTypes, LaterItems
<1>3. /\ catalog' = [catalog EXCEPT ![i] = Renamed(@, n, {})]
      /\ requests' = requests /\ work' = work /\ bought' = bought
      /\ forsaken' = forsaken \cup {catalog[i].name} /\ work = Idle
  BY DEF Rename, Save
<1>4. Evolves(catalog', {catalog[i].name})
  <2>1. catalog \in Catalogs
    BY DEF ReceiptInv, Shape
  <2>2. catalog' = [catalog EXCEPT ![i] = Renamed(catalog[i], n, {})]
    BY <1>3
  <2> QED BY <1>1, <1>2, <2>1, <2>2, PutEvolves
<1> QED BY <1>3, <1>4, SavePurchases DEF ReceiptInv, Shape

\* A merge takes one identity away, and its names stay with the other.
LEMMA MergePurchases ==
  ASSUME ReceiptInv, ReceiptInv', PurchaseInv, NEW s \in Ids, NEW t \in Ids, Merge(s, t)
  PROVE  PurchaseInv'
<1>1. s \in Known(catalog) /\ t \in Known(catalog) /\ s # t
  BY DEF Merge, Available
<1>2. catalog \in Catalogs /\ catalog[s] \in Items /\ catalog[t] \in Items
  BY <1>1 DEF ReceiptInv, Shape, Catalogs, Known
<1>3. /\ Absorbing(catalog, s, t)[s] = Merged
      /\ Absorbing(catalog, s, t)[t] = Renamed(catalog[t], catalog[t].name, Identity(catalog[s]))
      /\ \A i \in Ids \ {s, t} : Absorbing(catalog, s, t)[i] = catalog[i]
  BY <1>1, <1>2 DEF Absorbing, Catalogs
<1>4. Later(catalog[t], Renamed(catalog[t], catalog[t].name, Identity(catalog[s])), {})
  <2>1. catalog[t].name \in Names /\ Identity(catalog[s]) \in SUBSET Names
    BY <1>2, ItemTypes DEF Items
  <2> QED BY <1>2, <2>1, LaterItems
<1>5. /\ Known(Absorbing(catalog, s, t)) = Known(catalog) \ {s}
      /\ Absorbing(catalog, s, t) \in Catalogs
  BY <1>1, <1>2, KnownAbsorbing
<1>6. ASSUME NEW i \in Ids \ Fresh(catalog)
      PROVE  /\ i \notin Fresh(Absorbing(catalog, s, t))
             /\ i \in Known(Absorbing(catalog, s, t)) =>
                  i \in Known(catalog) /\ Later(catalog[i], Absorbing(catalog, s, t)[i], {})
  <2>1. CASE i = s
    BY <1>3, <1>5, <2>1, CatalogConstants DEF Fresh
  <2>2. CASE i = t
    BY <1>1, <1>3, <1>4, <1>5, <2>2, CatalogConstants DEF Fresh, Known
  <2>3. CASE i \notin {s, t}
    <3>1. i \in Known(catalog) => catalog[i] \in Items
      BY <1>2 DEF Known, Catalogs
    <3> QED BY <1>3, <1>5, <2>3, <3>1, LaterItems DEF Fresh
  <2> QED BY <2>1, <2>2, <2>3
<1>7. Evolves(Absorbing(catalog, s, t), {})
  BY <1>6 DEF Evolves
<1>8. /\ catalog' = Absorbing(catalog, s, t) /\ requests' = requests /\ work' = work
      /\ bought' = bought /\ forsaken' = forsaken /\ work = Idle
  BY DEF Merge, Save
<1> QED BY <1>5, <1>7, <1>8, SavePurchases

\* A row that is put under its id, with the name it had, as an active one.
LEMMA PutPurchases ==
  ASSUME ReceiptInv, PurchaseInv, NEW x \in RequestIds, NEW row \in Rows, PutRow(x, row),
         Active(row), catalog' = catalog, bought' = bought, forsaken' = forsaken,
         x \in DOMAIN requests => row.name = requests[x].name,
         x \notin DOMAIN requests /\ x \notin Manuals =>
           /\ row.name = x.name
           /\ x.item # None => x.item \in Known(catalog) /\ x.cycle = catalog[x.item].cycle,
         WorkKnown'
  PROVE  PurchaseInv'
<1>1. /\ DOMAIN requests' = DOMAIN requests \cup {x} /\ requests'[x] = row
      /\ \A y \in DOMAIN requests \ {x} : requests'[y] = requests[y]
  BY DEF PutRow
<1>2. RowsNamed'
  BY <1>1 DEF PurchaseInv, RowsNamed
<1>3. CyclesReached'
  <2>1. x \notin DOMAIN requests /\ x \notin Manuals /\ x.item # None =>
          /\ x.item \in Ids \ Fresh(catalog) /\ x.cycle <= catalog[x.item].cycle
    <3>1. x \notin Manuals => x.cycle \in Nat
      BY CatalogConstants DEF RequestIds, DerivedIds
    <3> QED BY <3>1 DEF Known, Fresh
  <2> QED BY <1>1, <2>1 DEF PurchaseInv, CyclesReached, Fresh, Known
<1>4. ASSUME NEW y \in RequestIds, NEW i \in Ids, <<y, i>> \in bought'
      PROVE  ProductNamed(y, i)'
  BY <1>1, <1>4 DEF PurchaseInv, ProductNamed, Fresh, Known
<1>5. ASSUME NEW y \in DOMAIN requests', ~Active(requests'[y])
      PROVE  Purchased(y, requests[y].product)' /\ requests'[y] = requests[y]
  <2>1. y \in DOMAIN requests \ {x} /\ requests'[y] = requests[y] /\ ~Active(requests[y])
    BY <1>1, <1>5 DEF Active
  <2>2. Purchased(y, requests[y].product)
    BY <2>1 DEF PurchaseInv
  <2> QED BY <2>1, <2>2 DEF Purchased
<1>6. \A y \in DOMAIN requests' : ~Active(requests'[y]) => Purchased(y, requests[y].product)'
  BY <1>5
<1> QED BY <1>2, <1>3, <1>4, <1>6 DEF PurchaseInv

\* The id of a row that is reserved for the first time names an identity that
\* is known, in its stock cycle.
LEMMA ReservePurchases ==
  ASSUME ReceiptInv, PurchaseInv, NEW x \in RequestIds, NEW exact \in Names, Reserve(x, exact)
  PROVE  PurchaseInv'
<1> DEFINE n == IF x \in DOMAIN requests THEN requests[x].name ELSE x.name
           row == [name |-> n, pending |-> exact, product |-> None, exact |-> None]
<1>1. ASSUME x \notin DOMAIN requests
      PROVE  /\ x \in DerivedIds /\ n = x.name
             /\ x.item # None => x.item \in Known(catalog) /\ x.cycle = catalog[x.item].cycle
  <2>1. PICK m \in Names : x = DerivedId(m)
    BY <1>1 DEF Reserve, New, Derived, ActiveIds
  <2> DEFINE K == {i \in Owners(catalog, m) : catalog[i].ever}
             k == CHOOSE j \in K : TRUE
  <2>2. CASE K = {}
    <3>1. x = [name |-> m, item |-> None, cycle |-> 0]
      BY <2>1, <2>2 DEF DerivedId
    <3> QED BY <1>1, <3>1, CatalogConstants DEF DerivedIds
  <2>3. CASE K # {}
    <3>1. x = [name |-> m, item |-> k, cycle |-> catalog[k].cycle]
      BY <2>1, <2>3 DEF DerivedId
    <3>2. k \in K
      BY <2>3
    <3>3. k \in Known(catalog) /\ catalog[k] \in Items
      BY <3>2 DEF Owners, Known, ReceiptInv, Shape, Catalogs
    <3> HIDE DEF k
    <3> QED BY <1>1, <3>1, <3>3 DEF DerivedIds, Items, Known
  <2> QED BY <2>2, <2>3
<1>2. n \in Names
  BY <1>1 DEF DerivedIds, ReceiptInv, Shape, Rows
<1>3. row \in Rows /\ Active(row) /\ row.name = n
  BY <1>2 DEF Rows, Active
<1>4. /\ PutRow(x, row) /\ catalog' = catalog /\ bought' = bought /\ forsaken' = forsaken
      /\ work' = [step |-> "receive", id |-> x, name |-> n, exact |-> exact, product |-> None]
  BY DEF Reserve, history
<1> HIDE DEF row
<1>5. WorkKnown'
  BY <1>3, <1>4 DEF WorkKnown, PutRow
<1> QED BY <1>1, <1>3, <1>4, <1>5, PutPurchases

LEMMA AddManualPurchases ==
  ASSUME ReceiptInv, PurchaseInv, NEW x \in Manuals, NEW n \in Names, AddManual(x, n)
  PROVE  PurchaseInv'
<1> DEFINE row == [name |-> n, pending |-> None, product |-> None, exact |-> None]
<1>1. row \in Rows /\ Active(row) /\ x \in RequestIds
  BY DEF Rows, Active, RequestIds
<1>2. /\ PutRow(x, row) /\ x \notin DOMAIN requests
      /\ catalog' = catalog /\ bought' = bought /\ forsaken' = forsaken /\ work' = work /\ work = Idle
  BY DEF AddManual, New, history
<1>3. WorkKnown'
  BY <1>2 DEF WorkKnown, Idle
<1> HIDE DEF row
<1> QED BY <1>1, <1>2, <1>3, PutPurchases

\* What is received answers to the requested name from then on, and is there.
LEMMA ReceivePurchases ==
  ASSUME ReceiptInv, ReceiptInv', PurchaseInv, Receive
  PROVE  PurchaseInv'
<1>1. requests' = requests /\ forsaken' = forsaken /\ work.step = "receive"
  BY DEF Receive
<1>2. CASE work' = Idle /\ UNCHANGED <<catalog, bought>>
  BY <1>1, <1>2
  DEF PurchaseInv, RowsNamed, CyclesReached, ProductNamed, Purchased, WorkKnown, Idle, Fresh, Known
<1>3. CASE \E i \in Ids :
             /\ LET R == Receivers(catalog, work.name, work.exact)
                    item == IF R = {} THEN NewItem(work.exact, {work.name}, TRUE)
                            ELSE Received(catalog[i], work.name, work.exact)
                IN /\ i \in (IF R = {} THEN Fresh(catalog) ELSE R)
                   /\ catalog' = [catalog EXCEPT ![i] = item]
             /\ bought' = bought \cup {<<work.id, i>>}
             /\ work' = [work EXCEPT !.step = "complete", !.product = i]
  <2> DEFINE R == Receivers(catalog, work.name, work.exact)
             item(i) == IF R = {} THEN NewItem(work.exact, {work.name}, TRUE)
                        ELSE Received(catalog[i], work.name, work.exact)
  <2>1. PICK i \in Ids : /\ i \in (IF R = {} THEN Fresh(catalog) ELSE R)
                         /\ catalog' = [catalog EXCEPT ![i] = item(i)]
                         /\ bought' = bought \cup {<<work.id, i>>}
                         /\ work' = [work EXCEPT !.step = "complete", !.product = i]
    BY <1>3
  <2>2. /\ work.name \in Names /\ work.exact \in Names /\ work.id \in DOMAIN requests
        /\ requests[work.id].name = work.name /\ work.id \in RequestIds
    BY <1>1 DEF ReceiptInv, Reserved, Shape, PurchaseInv, WorkKnown
  <2>3. /\ item(i) \in Items /\ item(i).available /\ item(i).ever
        /\ work.name \in Identity(item(i))
        /\ i \in Fresh(catalog) \/ (i \in Known(catalog) /\ Later(catalog[i], item(i), {}))
    <3>1. CASE R = {}
      <4>1. NewItem(work.exact, {work.name}, TRUE) \in Items
        BY <2>2, ItemTypes
      <4> QED BY <2>1, <3>1, <4>1 DEF NewItem, Identity
    <3>2. CASE R # {}
      <4>1. i \in Known(catalog) /\ catalog[i] \in Items
        BY <2>1, <3>2 DEF Receivers, Owners, Named, Known, ReceiptInv, Shape, Catalogs
      <4>2. catalog[i].name \in Names
        BY <4>1 DEF Items
      <4> DEFINE named == Renamed(catalog[i], work.exact, {catalog[i].name, work.name})
      <4>3. named \in Items /\ Later(catalog[i], named, {})
        BY <2>2, <4>1, <4>2, ItemTypes, LaterItems
      <4>4. work.name \in Identity(named)
        BY <4>1 DEF Renamed, Identity, Items
      <4> HIDE DEF named
      <4>5. /\ InStock(named) \in Items /\ Later(named, InStock(named), {})
            /\ InStock(named).available /\ InStock(named).ever
            /\ Identity(InStock(named)) = Identity(named)
        <5>1. /\ InStock(named).available /\ InStock(named).ever
              /\ InStock(named).name = named.name /\ InStock(named).aliases = named.aliases
          BY <4>3 DEF InStock, Items
        <5> QED BY <4>3, <5>1, ItemTypes, LaterItems DEF Identity
      <4>6. item(i) = InStock(named)
        BY <3>2 DEF Received, named
      <4>7. Later(catalog[i], InStock(named), {})
        BY <4>1, <4>3, <4>5, LaterTwice
      <4> HIDE DEF item
      <4> QED BY <4>1, <4>4, <4>5, <4>6, <4>7
    <3> QED BY <3>1, <3>2
  <2> HIDE DEF item, R
  <2>4. catalog' \in Catalogs /\ Evolves(catalog', {}) /\ catalog'[i] = item(i)
    <3>1. catalog \in Catalogs
      BY DEF ReceiptInv, Shape
    <3>2. catalog' \in Catalogs
      BY DEF ReceiptInv, Shape
    <3> QED BY <2>1, <2>3, <3>1, <3>2, PutEvolves DEF Catalogs
  <2>5. /\ RowsNamed' /\ CyclesReached'
        /\ \A x \in RequestIds, j \in Ids : <<x, j>> \in bought => ProductNamed(x, j)'
        /\ \A x \in RequestIds, j \in Known(catalog') : Purchased(x, j) => Purchased(x, j)'
    <3>1. bought \subseteq bought' /\ forsaken' = forsaken \cup {}
      BY <1>1, <2>1
    <3> QED BY <1>1, <2>4, <3>1, PurchasesEvolve
  <2>6. ASSUME NEW x, x = work.id PROVE ProductNamed(x, i)'
    <3>1. i \notin Fresh(catalog')
      BY <2>3, <2>4, CatalogConstants DEF Fresh
    <3> QED BY <1>1, <2>2, <2>3, <2>4, <2>6, <3>1 DEF ProductNamed, Fresh
  <2>7. \A x \in RequestIds, j \in Ids : <<x, j>> \in bought' => ProductNamed(x, j)'
    BY <2>1, <2>5, <2>6
  <2>8. \A x \in DOMAIN requests' : ~Active(requests'[x]) => Purchased(x, requests[x].product)'
    <3> SUFFICES ASSUME NEW x \in DOMAIN requests, ~Active(requests[x])
                 PROVE  Purchased(x, requests[x].product)'
      BY <1>1
    <3>1. /\ Purchased(x, requests[x].product) /\ requests[x].product \in Known(catalog)'
          /\ x \in RequestIds
      BY <1>1 DEF PurchaseInv, ReceiptInv, ReplayFindsProduct, Shape
    <3>2. PICK p : p = requests[x].product
      OBVIOUS
    <3>3. Purchased(x, p)'
      BY <2>5, <3>1, <3>2
    <3> QED BY <1>1, <3>2, <3>3 DEF Purchased
  <2>9. WorkKnown'
    <3>1. work'.id = work.id /\ work'.name = work.name /\ work'.product = i
      BY <2>1 DEF ReceiptInv, Shape, Works
    <3>2. <<work.id, i>> \in bought' /\ catalog'[i].ever /\ catalog'[i].available
      BY <2>1, <2>3, <2>4
    <3> QED BY <1>1, <2>2, <3>1, <3>2 DEF WorkKnown, Purchased
  <2> QED BY <2>5, <2>7, <2>8, <2>9 DEF PurchaseInv
<1> QED BY <1>2, <1>3 DEF Receive

LEMMA CompletePurchases ==
  ASSUME ReceiptInv, PurchaseInv, Complete
  PROVE  PurchaseInv'
<1> DEFINE row == [name |-> work.name, pending |-> None,
                   product |-> work.product, exact |-> work.exact]
<1>1. /\ PutRow(work.id, row) /\ catalog' = catalog /\ bought' = bought /\ forsaken' = forsaken
      /\ work' = [work EXCEPT !.step = "refresh"] /\ work.step = "complete"
  BY DEF Complete, history
<1>2. /\ work.id \in DOMAIN requests /\ requests[work.id].name = work.name
      /\ Purchased(work.id, work.product)
  BY <1>1 DEF ReceiptInv, Reserved, PurchaseInv, WorkKnown
<1>3. /\ DOMAIN requests' = DOMAIN requests /\ requests'[work.id] = row
      /\ \A y \in DOMAIN requests \ {work.id} : requests'[y] = requests[y]
      /\ \A y \in DOMAIN requests : requests'[y].name = requests[y].name
  BY <1>1, <1>2 DEF PutRow
<1>4. RowsNamed'
  BY <1>3 DEF PurchaseInv, RowsNamed
<1>5. CyclesReached'
  BY <1>1, <1>3 DEF PurchaseInv, CyclesReached, Fresh, Known
<1>6. ASSUME NEW y \in RequestIds, NEW i \in Ids, <<y, i>> \in bought'
      PROVE  ProductNamed(y, i)'
  BY <1>1, <1>3, <1>6 DEF PurchaseInv, ProductNamed, Fresh, Known
<1>7. ASSUME NEW y \in DOMAIN requests, ~Active(requests'[y])
      PROVE  Purchased(y, requests[y].product)'
  <2>1. CASE y = work.id
    BY <1>1, <1>2, <1>3, <2>1 DEF Purchased
  <2>2. CASE y # work.id
    <3>1. Purchased(y, requests[y].product) /\ requests'[y] = requests[y]
      BY <1>3, <1>7, <2>2 DEF PurchaseInv
    <3> QED BY <1>1, <3>1 DEF Purchased
  <2> QED BY <2>1, <2>2
<1>8. WorkKnown'
  BY <1>1 DEF WorkKnown, ReceiptInv, Shape, Works
<1>9. \A y \in DOMAIN requests' : ~Active(requests'[y]) => Purchased(y, requests[y].product)'
  BY <1>3, <1>7
<1> QED BY <1>4, <1>5, <1>6, <1>8, <1>9 DEF PurchaseInv

LEMMA StepKeepsPurchases == ReceiptInv /\ PurchaseInv /\ [Next]_vars => PurchaseInv'
<1> SUFFICES ASSUME ReceiptInv, ReceiptInv', PurchaseInv, [Next]_vars PROVE PurchaseInv'
  BY StepKeeps
<1>1. ASSUME UNCHANGED <<catalog, requests, bought, forsaken>>, work' = work \/ work' = Idle
      PROVE  PurchaseInv'
  BY <1>1
  DEF PurchaseInv, RowsNamed, CyclesReached, ProductNamed, Purchased, WorkKnown, Idle, Fresh, Known
<1>2. CASE \E x \in RequestIds, exact \in Names : Reserve(x, exact)
  BY <1>2, ReservePurchases
<1>3. CASE Receive
  BY <1>3, ReceivePurchases
<1>4. CASE Complete
  BY <1>4, CompletePurchases
<1>5. CASE Refresh \/ Crash \/ \E n \in Names : ChangePlan(n)
  BY <1>1, <1>5 DEF Refresh, Crash, ChangePlan, world, history
<1>6. CASE \E n \in Names : CreateProduct(n) \/ \E x \in Manuals : AddManual(x, n)
  BY <1>6, CreateProductPurchases, AddManualPurchases
<1>7. CASE \E n \in Names, i \in Ids : Rename(i, n)
  BY <1>7, RenamePurchases
<1>8. CASE \E S \in SUBSET Names : AddItems(S) \/ RemoveItems(S)
  BY <1>8, AddItemsPurchases, RemoveItemsPurchases
<1>9. CASE \E i, j \in Ids : Merge(i, j)
  BY <1>9, MergePurchases
<1>10. CASE UNCHANGED vars
  BY <1>1, <1>10 DEF vars, world, history
<1> QED
  BY <1>2, <1>3, <1>4, <1>5, <1>6, <1>7, <1>8, <1>9, <1>10 DEF Next

\* What a request bought answers to the request's name unless a rename took it,
\* and an earlier stock cycle of an identity is over for good.
THEOREM PurchaseInvariance == Spec => []PurchaseInv
<1>1. Init => PurchaseInv
  BY DEF Init, PurchaseInv, RowsNamed, CyclesReached, WorkKnown, Idle
<1> QED BY <1>1, StepKeepsPurchases, ReceiptInvariance, PTL DEF Spec

\* However often a receipt is interrupted and retried, it stocks one identity.
THEOREM PurchasesAreOne == Spec => []OneIdentityPerRequest
<1>1. TypeOK /\ PurchaseInv => OneIdentityPerRequest
  <2> SUFFICES ASSUME TypeOK, PurchaseInv, NEW x \in DOMAIN requests,
                      NEW i \in Known(catalog), NEW j \in Known(catalog),
                      <<x, i>> \in bought, <<x, j>> \in bought, requests[x].name \notin forsaken
               PROVE  i = j
    BY DEF OneIdentityPerRequest
  <2>1. x \in RequestIds /\ i \in Ids /\ j \in Ids /\ Sound(catalog)
    BY DEF TypeOK, Known
  <2>2. requests[x].name \in Identity(catalog[i]) /\ requests[x].name \in Identity(catalog[j])
    BY <2>1 DEF PurchaseInv, ProductNamed
  <2> QED BY <2>1, <2>2 DEF Sound
<1> QED BY <1>1, TypeCorrect, PurchaseInvariance, PTL

\* Whatever was bought, used up and merged before, an ingredient that runs out
\* is needed under an id that no completed receipt has closed.
THEOREM NeedsReopen == Spec => []NeedsReceivable
<1>1. ReceiptInv /\ TypeOK /\ PurchaseInv => NeedsReceivable
  <2> SUFFICES ASSUME ReceiptInv, TypeOK, PurchaseInv, NEW n \in Names \ forsaken,
                      n \notin StockedNames(catalog), DerivedId(n) \in DOMAIN requests,
                      ~Active(requests[DerivedId(n)])
               PROVE  FALSE
    BY DEF NeedsReceivable, Receivable
  <2> DEFINE x == DerivedId(n)
             p == requests[x].product
             K == {i \in Owners(catalog, n) : catalog[i].ever}
             k == CHOOSE j \in K : TRUE
  <2>1. Purchased(x, p) /\ p \in Known(catalog)
    BY DEF PurchaseInv, ReceiptInv, ReplayFindsProduct
  <2>2. x = IF K = {} THEN [name |-> n, item |-> None, cycle |-> 0]
                      ELSE [name |-> n, item |-> k, cycle |-> catalog[k].cycle]
    BY DEF DerivedId
  <2>3. x.name = n /\ x \in RequestIds /\ Sound(catalog) /\ p \in Ids
    BY <2>1, <2>2 DEF TypeOK, Known
  <2>4. x \in DerivedIds
    <3>1. CASE K = {}
      BY <2>2, <3>1, CatalogConstants DEF DerivedIds
    <3>2. CASE K # {}
      <4>1. k \in K
        BY <3>2
      <4>2. k \in Ids /\ catalog[k] \in Items
        BY <4>1 DEF Owners, Known, ReceiptInv, Shape, Catalogs
      <4>3. catalog[k].cycle \in 0 .. MaxCycle
        BY <4>2 DEF Items
      <4> HIDE DEF k, K
      <4> QED BY <2>2, <3>2, <4>2, <4>3 DEF DerivedIds
    <3> QED BY <3>1, <3>2
  <2>5. x \notin Manuals
    BY <2>4, ManualIds
  <2>6. requests[x].name = n
    BY <2>3, <2>5 DEF PurchaseInv, RowsNamed
  <2>7. n \in Identity(catalog[p]) /\ catalog[p].ever
    BY <2>1, <2>3, <2>6 DEF PurchaseInv, Purchased, ProductNamed
  <2>8. p \in K
    BY <2>1, <2>7 DEF Owners
  <2>9. k \in K /\ k = p
    BY <2>3, <2>8 DEF Sound, Owners
  <2>10. x.item = p /\ x.cycle = catalog[p].cycle
    <3>1. K # {}
      BY <2>8
    <3> HIDE DEF x, k, K, p
    <3>2. x = [name |-> n, item |-> p, cycle |-> catalog[p].cycle]
      BY <2>2, <2>9, <3>1
    <3> QED BY <3>2
  <2>11. catalog[p].available
    BY <2>1, <2>5, <2>10 DEF Purchased
  <2> QED BY <2>1, <2>7, <2>11 DEF StockedNames, Available
<1> QED BY <1>1, ReceiptInvariance, TypeCorrect, PurchaseInvariance, PTL

===============================================================================
