----------------------------- MODULE ReceiptLedger -----------------------------
(***************************************************************************)
(* The ledger of purchase receipts, src/src/receipt_commands.py: every     *)
(* receipt is a history of revisions that is only ever appended to.  Lines *)
(* keep their ids over corrections, and links from lines to products hang  *)
(* on those ids.                                                           *)
(*                                                                         *)
(* Every command holds the lock of AuditJournal from before it reads the   *)
(* ledger until its one commit, and so does the merge of two products: the *)
(* commands are atomic.  What remains is what an answer that was lost, a   *)
(* repeated command or a long history of them can do.                      *)
(*                                                                         *)
(* The merchant, the date and the total are one value, head; of the three  *)
(* kinds of links the ones to catalog identities are modelled.  A commit   *)
(* that fails, and a clock that was set back, refuse a command: Refuse.    *)
(***************************************************************************)
EXTENDS Naturals, FiniteSets, SequencesExt

CONSTANTS
  Receipts, Products,
  Heads,         \* merchant, date and total of a receipt
  Printed,       \* lines as they are printed and read
  Hashes,        \* content hashes of the evidence
  Reasons,       \* reasons of a retraction
  None,
  MaxLines,      \* bound: lines of a receipt
  MaxRevisions   \* bound: revisions of the ledger

Forms == [source : STRING, ambiguous : BOOLEAN]

ASSUME LedgerConstants ==
  /\ Printed \subseteq Forms
  /\ None \notin Hashes \cup Nat \cup Reasons
  /\ MaxLines \in Nat /\ MaxRevisions \in Nat

VARIABLES
  ledger,    \* receipts.json: the revisions of each receipt
  products   \* fridge.json: identities that are in the catalog, or were merged

vars == <<ledger, products>>

Init ==
  /\ ledger = [r \in Receipts |-> <<>>]
  /\ products = [p \in Products |-> "unused"]

Known == {p \in Products : products[p] = "known"}
Recorded == {r \in Receipts : ledger[r] # <<>>}
Current(r) == Last(ledger[r])
Retracted(r) == Current(r).status = "retracted"

\* Mutant: only the current revision of a receipt is looked at.
OnlyCurrent(r) == IF r \in Recorded THEN {Current(r)} ELSE {}

\* Duplicates and references are looked for in every revision.
Revisions(r) == ToSet(ledger[r])

-------------------------------------------------------------------------------
(* receipt.py: a revision, and what it says without the ids and the links. *)

Revision(status, reason, head, hash, lines) ==
  [status |-> status, reason |-> reason, head |-> head, hash |-> hash, lines |-> lines]
Line(id, form, links) ==
  [id |-> id, source |-> form.source, ambiguous |-> form.ambiguous, links |-> links]

Form(line) == [source |-> line.source, ambiguous |-> line.ambiguous]
Fingerprint(rev) == <<rev.head, [k \in DOMAIN rev.lines |-> Form(rev.lines[k])]>>

SemanticOwners(rev) ==
  {r \in Receipts : \E old \in Revisions(r) : Fingerprint(old) = Fingerprint(rev)}
EvidenceOwners(hash) ==
  {r \in Receipts : hash # None /\ \E old \in Revisions(r) : old.hash = hash}

\* build_revision: what is ambiguous needs a review, whatever was asked for.
Status(requested, lines) ==
  IF requested # "retracted" /\ \E k \in DOMAIN lines : lines[k].ambiguous
  THEN "needs_review" ELSE requested

Lines(rev) == ToSet(rev.lines)
LineIds(rev) == {line.id : line \in Lines(rev)}
IdsOf(rev, source) == {line.id : line \in {l \in Lines(rev) : l.source = source}}

-------------------------------------------------------------------------------
(* build_revision: which line of the previous revision a supplied one is.  *)

Counted(lines, source) == Cardinality({k \in DOMAIN lines : lines[k].source = source})

\* A line that gets a new id; ids start at 1.  An ambiguous line has none.
New == 0

\* Mutant: a line that has no id takes the one of the line it replaces.
ByPosition(lines, rev) ==
  [k \in DOMAIN lines |->
     IF lines[k].id # None THEN lines[k].id
     ELSE IF k \in DOMAIN rev.lines THEN rev.lines[k].id ELSE New]

\* The id of the first line that has none in ids.  Supplied ids count first.
\* Another line is the one that was printed the same; among several, the one
\* at the same place if nothing else changed.
IdOfNext(lines, rev, ids) ==
  LET k == Len(ids) + 1
      line == lines[k]
      named == {lines[j].id : j \in DOMAIN lines} \ {None}
      free == {l \in Lines(rev) : l.source = line.source
                                    /\ l.id \notin named \cup ToSet(ids)}
      sameNumber == Counted(rev.lines, line.source) = Counted(lines, line.source)
  IN  CASE line.id # None -> line.id
        [] line.id = None /\ free = {} -> New
        [] line.id = None /\ Cardinality(free) = 1 /\ sameNumber ->
             (CHOOSE l \in free : TRUE).id
        [] line.id = None /\ Cardinality(free) > 1 /\ sameNumber
             /\ Len(lines) = Len(rev.lines) /\ rev.lines[k] \in free -> rev.lines[k].id
        [] OTHER -> None

Identified(lines, rev) ==
  FoldLeft(LAMBDA ids, line : Append(ids, IdOfNext(lines, rev, ids)), <<>>, lines)

\* The ids a receipt has ever used; a new one is none of them.
UsedIds(r) == UNION {LineIds(rev) : rev \in Revisions(r)}

\* The links of a line of the previous revision, none for a new line.
LinksOf(rev, id) == UNION {line.links : line \in {l \in Lines(rev) : l.id = id}}

CorrectedLines(r, lines, ids) ==
  LET newer(k) == Cardinality({j \in 1 .. k : ids[j] = New})
      id(k) == IF ids[k] = New THEN Max(UsedIds(r)) + newer(k) ELSE ids[k]
  IN  [k \in DOMAIN lines |-> Line(id(k), lines[k], LinksOf(Current(r), id(k)))]

\* No two lines of a receipt have the same id.
IdsAreUnique(lines) == \A j, k \in DOMAIN lines : lines[j].id = lines[k].id => j = k

\* build_revision refuses unknown, ambiguous and repeated ids.
Identifiable(r, lines, ids) ==
  /\ \A k \in DOMAIN lines : lines[k].id \in LineIds(Current(r)) \cup {None}
  /\ \A k \in DOMAIN ids : ids[k] # None
  /\ IdsAreUnique(CorrectedLines(r, lines, ids))

-------------------------------------------------------------------------------
(* The validation of every save and of every load.                         *)

\* Mutant: new evidence alone counts for nothing.
ContentWithoutEvidence(rev) ==
  <<rev.head, [k \in DOMAIN rev.lines |-> <<rev.lines[k].id, Form(rev.lines[k])>>]>>

\* _revision_state_without_links and _revision_link_state
Content(rev) ==
  <<rev.head, rev.hash, [k \in DOMAIN rev.lines |-> <<rev.lines[k].id, Form(rev.lines[k])>>]>>
LinkState(rev) == [k \in DOMAIN rev.lines |-> <<rev.lines[k].id, rev.lines[k].links>>]

\* An unchanged printed line keeps its id.
IdentityKept(old, new) ==
  \A source \in {l.source : l \in Lines(old)} \cap {l.source : l \in Lines(new)} :
    LET kept == IdsOf(old, source) \cap IdsOf(new, source)
    IN  kept = IdsOf(old, source) \/ kept = IdsOf(new, source)

\* _existing_line_links_are_preserved
LinksPreserved(old, new) == \A l \in Lines(new) : l.links = LinksOf(old, l.id)

\* One step of _validate_revision_history.
Follows(old, new) ==
  /\ old.status # "retracted"
  /\ IdentityKept(old, new)
  /\ IF new.status = "retracted"
     THEN Content(new) = Content(old) /\ LinkState(new) = LinkState(old)
     ELSE IF Content(new) = Content(old)
     THEN LinkState(new) # LinkState(old) /\ new.status = old.status
     ELSE LinksPreserved(old, new) /\ new.status \in {"corrected", "needs_review"}

NoIdReused(history) ==
  \A i, j, k \in DOMAIN history :
    i < j /\ j < k => LineIds(history[i]) \cap LineIds(history[k]) \subseteq LineIds(history[j])

ValidHistory(history) ==
  /\ \A line \in Lines(history[1]) : line.links = {}
  /\ \A k \in 2 .. Len(history) : Follows(history[k - 1], history[k])
  /\ NoIdReused(history)

\* validate_receipt_collection, of the ledger with one more revision: neither
\* its content nor its evidence is another receipt's.
Acceptable(r, rev) ==
  /\ ValidHistory(Append(ledger[r], rev))
  /\ SemanticOwners(rev) \subseteq {r} /\ EvidenceOwners(rev.hash) \subseteq {r}

\* _commit_receipts: the ledger is validated and saved in one commit.
CommitReceipts(r, rev) ==
  /\ Acceptable(r, rev)
  /\ ledger' = [ledger EXCEPT ![r] = Append(@, rev)]
  /\ UNCHANGED products

-------------------------------------------------------------------------------
(* receipt_commands.py                                                     *)

PrintedLists == UNION {[1 .. n -> Printed] : n \in 1 .. MaxLines}
Payloads == [head : Heads, hash : Hashes \cup {None}, lines : PrintedLists]

FirstRevision(payload, requested) ==
  Revision(Status(requested, payload.lines), None, payload.head, payload.hash,
           [k \in DOMAIN payload.lines |-> Line(k, payload.lines[k], {})])

\* The receipt that a payload is answered with, or "conflict", or "new".
RecordAnswer(rev) ==
  LET semantic == SemanticOwners(rev)
      evidence == EvidenceOwners(rev.hash)
  IN  CASE semantic = {} /\ evidence = {} -> "new"
        [] semantic # {} /\ (evidence = semantic \/ rev.hash = None) -> CHOOSE r \in semantic : TRUE
        [] OTHER -> "conflict"

Similar(head) == {r \in Recorded : ~Retracted(r) /\ Current(r).head = head}

RecordReceipt ==
  \E payload \in Payloads, requested \in {"confirmed", "needs_review"}, allowSimilar \in BOOLEAN :
    LET rev == FirstRevision(payload, requested) IN
      /\ RecordAnswer(rev) = "new"
      /\ Similar(payload.head) = {} \/ allowSimilar
      /\ \E r \in Receipts \ Recorded : CommitReceipts(r, rev)

WithId(form, id) == [id |-> id, source |-> form.source, ambiguous |-> form.ambiguous]

\* Lines as a correction supplies them: with ids or without.
SuppliedLines(r) ==
  UNION {[1 .. n -> {WithId(form, id) : form \in Printed, id \in UsedIds(r) \cup {None}}] :
           n \in 1 .. MaxLines}

CorrectReceipt(r) ==
  /\ ~Retracted(r)
  /\ \E lines \in SuppliedLines(r) :
       LET ids == Identified(lines, Current(r)) IN
         /\ Identifiable(r, lines, ids)
         /\ \E head \in Heads, hash \in Hashes \cup {None} :
              CommitReceipts(r, Revision(Status("corrected", lines), None, head, hash,
                                         CorrectedLines(r, lines, ids)))

\* The current revision again, with other lines.
Revised(r, status, reason, lines) ==
  Revision(status, reason, Current(r).head, Current(r).hash, lines)

Relinked(r, k, links) ==
  LET old == Current(r).lines
  IN  Revised(r, Current(r).status, None,
        [j \in DOMAIN old |-> IF j = k THEN Line(old[k].id, old[k], links) ELSE old[j]])

\* link_receipt_line
LinkReceiptLine(r) ==
  \E k \in DOMAIN Current(r).lines, p \in Known :
    LET links == Current(r).lines[k].links IN
      /\ ~Retracted(r)
      /\ p \notin links
      /\ CommitReceipts(r, Relinked(r, k, links \cup {p}))

UnlinkReceiptLine(r) ==
  \E k \in DOMAIN Current(r).lines :
    LET links == Current(r).lines[k].links IN
      \E p \in links :
        /\ ~Retracted(r)
        /\ CommitReceipts(r, Relinked(r, k, links \ {p}))

\* What retract_receipt answers for a retraction of the expected revision.
RetractAnswer(r, expected, reason) ==
  LET current == Len(ledger[r]) IN
    CASE Retracted(r) /\ reason = Current(r).reason
           /\ expected \in {current - 1, current} -> "idempotent"
      [] ~Retracted(r) /\ expected = current -> "new"
      [] OTHER -> "refused"

RetractReceipt(r) ==
  \E reason \in Reasons, expected \in 1 .. MaxRevisions :
    /\ RetractAnswer(r, expected, reason) = "new"
    /\ CommitReceipts(r, Revised(r, "retracted", reason, Current(r).lines))

-------------------------------------------------------------------------------
(* product_identity.py and the catalog.                                    *)

AddProduct ==
  \E p \in Products :
    /\ products[p] = "unused"
    /\ products' = [products EXCEPT ![p] = "known"]
    /\ UNCHANGED ledger

\* Mutant: links that were taken back, or hung on a removed line, are forgotten.
CurrentLinkConflicts(p) ==
  {r \in Recorded : \E line \in Lines(Current(r)) : p \in line.links}

\* _receipt_link_conflicts
LinkConflicts(p) ==
  {r \in Receipts : \E rev \in Revisions(r) : \E line \in Lines(rev) : p \in line.links}

MergeProductIdentity ==
  \E source \in Known :
    /\ \E target \in Known : target # source
    /\ LinkConflicts(source) = {}
    /\ products' = [products EXCEPT ![source] = "merged"]
    /\ UNCHANGED ledger

\* Reads, and commands that are answered again, refused or not saved.
Refuse == UNCHANGED vars

\* Bound: revisions.
Room == FoldFunction(LAMBDA history, n : Len(history) + n, 0, ledger) < MaxRevisions

Next ==
  \/ Room /\ RecordReceipt
  \/ Room /\ \E r \in Recorded :
       \/ CorrectReceipt(r) \/ RetractReceipt(r)
       \/ LinkReceiptLine(r) \/ UnlinkReceiptLine(r)
  \/ AddProduct \/ MergeProductIdentity
  \/ Refuse

Spec == Init /\ [][Next]_vars

-------------------------------------------------------------------------------
(* Properties.                                                             *)

\* A command whose answer was lost can be repeated at any later time: intake
\* is answered with the receipt it created, or that was corrected to it, however
\* often it was corrected since, and a retraction is acknowledged.
RepeatsAreAnswered ==
  \A r \in Recorded : \A k \in DOMAIN ledger[r] :
    LET rev == ledger[r][k] IN
      /\ RecordAnswer(rev) = r
      /\ rev.status = "retracted" => RetractAnswer(r, k - 1, rev.reason) = "idempotent"

\* However products are merged, every link of every revision, also the ones
\* that were taken back, names a product of the catalog.
LinksNameProducts ==
  \A r \in Recorded : \A k \in DOMAIN ledger[r] : \A line \in ToSet(ledger[r][k].lines) :
    line.links \subseteq Known

\* A correction that gives no ids never attaches the links of one printed line
\* to another, and loses none of a printed line that appears as often as before.
CorrectionsKeepLinks ==
  \A r \in Recorded : \A list \in PrintedLists :
    LET old == Current(r).lines
        lines == [k \in DOMAIN list |-> WithId(list[k], None)]
        ids == Identified(lines, Current(r))
        new == CorrectedLines(r, lines, ids)
        Linked(some) == {<<l.source, l.links>> : l \in {l \in ToSet(some) : l.links # {}}}
    IN  Identifiable(r, lines, ids) =>
          /\ Linked(new) \subseteq Linked(old)
          /\ \A pair \in Linked(old) :
               Counted(new, pair[1]) = Counted(old, pair[1]) => pair \in Linked(new)

\* What record_receipt refuses because its evidence is new can be attached to
\* the receipt with the same content, as it says, unless that was retracted.
EvidenceCanBeAttached ==
  \A r \in Recorded : \A rev \in Revisions(r), hash \in Hashes :
    ~Retracted(r) /\ EvidenceOwners(hash) = {} =>
      /\ RecordAnswer([rev EXCEPT !.hash = hash]) = "conflict"
      /\ Acceptable(r, [Current(r) EXCEPT !.hash = hash,
                                          !.status = Status("corrected", Current(r).lines)])
===============================================================================
