-------------------------- MODULE ReceiptLedgerProofs --------------------------
(***************************************************************************)
(* What ReceiptLedger promises for any receipts, lines and products, and   *)
(* however long the histories grow.                                        *)
(***************************************************************************)
EXTENDS ReceiptLedger, FoldLemmas, FiniteSetTheorems, TLAPS

\* Histories, of whatever revisions.
IsLedger == \E S : ledger \in [Receipts -> Seq(S)]

\* Content and evidence belong to one receipt, counting every revision.
Owned ==
  \A r, q \in Receipts : \A j \in DOMAIN ledger[r], k \in DOMAIN ledger[q] :
    \/ Fingerprint(ledger[r][j]) = Fingerprint(ledger[q][k])
    \/ ledger[r][j].hash # None /\ ledger[r][j].hash = ledger[q][k].hash
    => r = q

RetractionIsLast ==
  \A r \in Receipts : \A k \in DOMAIN ledger[r] :
    ledger[r][k].status = "retracted" => k = Len(ledger[r])

LinksKnown(rev) == \A line \in Lines(rev) : line.links \subseteq Known

\* The shape of a revision, and what a correction relies on to find its lines.
WellFormed(rev) ==
  /\ rev = Revision(rev.status, rev.reason, rev.head, rev.hash, rev.lines)
  /\ IdsAreUnique(rev.lines)

LedgerInv ==
  /\ IsLedger
  /\ products \in [Products -> {"unused", "known", "merged"}]
  /\ Owned
  /\ RetractionIsLast
  /\ \A r \in Recorded : ValidHistory(ledger[r])
  /\ \A r \in Receipts : \A k \in DOMAIN ledger[r] :
       LinksKnown(ledger[r][k]) /\ WellFormed(ledger[r][k])

-------------------------------------------------------------------------------
(* Sequences of revisions.                                                 *)

\* The last of a history is one of it.
LEMMA LastIsOne ==
  ASSUME NEW S, NEW h \in Seq(S), h # <<>>
  PROVE  Len(h) \in DOMAIN h /\ Last(h) = h[Len(h)]
BY DEF Last

\* What one more revision makes of a history.
LEMMA AppendedHistory ==
  ASSUME NEW S, NEW h \in Seq(S), NEW rev
  PROVE  /\ Append(h, rev) \in Seq(S \cup {rev})
         /\ DOMAIN Append(h, rev) = DOMAIN h \cup {Len(h) + 1}
         /\ Len(Append(h, rev)) = Len(h) + 1
         /\ \A k \in DOMAIN h : Append(h, rev)[k] = h[k]
         /\ Append(h, rev)[Len(h) + 1] = rev
         /\ Len(h) \in Nat /\ DOMAIN h = 1 .. Len(h)
<1> h \in Seq(S \cup {rev})
  OBVIOUS
<1> QED
  OBVIOUS

\* The revisions of a receipt are the values of its history.
LEMMA RevisionsAre ==
  ASSUME NEW r
  PROVE  Revisions(r) = {ledger[r][k] : k \in DOMAIN ledger[r]}
BY DEF Revisions, ToSet

\* A commit appends one revision to one receipt, and whatever is committed
\* keeps the invariant if its links name products of the catalog.
LEMMA CommitKeepsInv ==
  ASSUME LedgerInv, NEW r \in Receipts, NEW rev, CommitReceipts(r, rev), LinksKnown(rev),
         WellFormed(rev)
  PROVE  LedgerInv'
<1>1. PICK S : ledger \in [Receipts -> Seq(S)]
  BY DEF LedgerInv, IsLedger
<1>2. /\ ledger' = [ledger EXCEPT ![r] = Append(@, rev)]
      /\ UNCHANGED products /\ Acceptable(r, rev)
  BY DEF CommitReceipts
<1> DEFINE n == Len(ledger[r]) + 1
<1>3. /\ DOMAIN ledger'[r] = DOMAIN ledger[r] \cup {n}
      /\ \A k \in DOMAIN ledger[r] : ledger'[r][k] = ledger[r][k] /\ k # n
      /\ ledger'[r][n] = rev /\ Len(ledger'[r]) = n /\ n \in Nat
      /\ ledger'[r] = Append(ledger[r], rev)
      /\ \A q \in Receipts : q # r => ledger'[q] = ledger[q]
      /\ ledger' \in [Receipts -> Seq(S \cup {rev})]
  <2>1. ledger'[r] = Append(ledger[r], rev) /\ \A q \in Receipts \ {r} : ledger'[q] = ledger[q]
    BY <1>1, <1>2
  <2>2. ledger[r] \in Seq(S)
    BY <1>1
  <2>3. \A q \in Receipts : ledger'[q] \in Seq(S \cup {rev})
    <3> TAKE q \in Receipts
    <3>1. CASE q = r
      BY <3>1, <2>1, <2>2, AppendedHistory
    <3>2. CASE q # r
      <4>1. ledger[q] \in Seq(S)
        BY <1>1
      <4>2. ledger[q] \in Seq(S \cup {rev})
        BY <4>1
      <4> QED
        BY <3>2, <4>2, <2>1
    <3> QED
      BY <3>1, <3>2
  <2>4. ledger' \in [Receipts -> Seq(S \cup {rev})]
    BY <2>3, <1>1, <1>2
  <2>5. \A k \in DOMAIN ledger[r] : k # n
    BY <2>2, AppendedHistory
  <2> QED
    BY <2>1, <2>2, <2>4, <2>5, AppendedHistory
<1>4. IsLedger'
  BY <1>3 DEF IsLedger
<1>5. Owned'
  <2>1. ASSUME NEW q \in Receipts, q # r, NEW k \in DOMAIN ledger[q]
        PROVE  /\ Fingerprint(ledger[q][k]) # Fingerprint(rev)
               /\ rev.hash # None => ledger[q][k].hash # rev.hash
    <3>1. q \notin SemanticOwners(rev) /\ q \notin EvidenceOwners(rev.hash)
      BY <2>1, <1>2 DEF Acceptable
    <3>2. ledger[q][k] \in Revisions(q)
      BY <2>1, RevisionsAre
    <3> QED
      BY <3>1, <3>2, <2>1 DEF SemanticOwners, EvidenceOwners
  <2> SUFFICES ASSUME NEW p \in Receipts, NEW q \in Receipts, p # q,
                      NEW j \in DOMAIN ledger'[p], NEW k \in DOMAIN ledger'[q]
               PROVE  /\ Fingerprint(ledger'[p][j]) # Fingerprint(ledger'[q][k])
                      /\ ledger'[p][j].hash # None => ledger'[p][j].hash # ledger'[q][k].hash
    BY DEF Owned, Fingerprint
  <2>2. CASE p # r /\ q # r
    BY <2>2, <1>3 DEF LedgerInv, Owned
  <2>3. CASE p = r /\ j \in DOMAIN ledger[r]
    <3>1. ledger'[q] = ledger[q] /\ ledger'[p][j] = ledger[r][j]
      BY <2>3, <1>3
    <3> QED
      BY <2>3, <3>1 DEF LedgerInv, Owned
  <2>4. CASE q = r /\ k \in DOMAIN ledger[r]
    <3>1. ledger'[p] = ledger[p] /\ ledger'[q][k] = ledger[r][k]
      BY <2>4, <1>3
    <3> QED
      BY <2>4, <3>1 DEF LedgerInv, Owned
  <2>5. CASE p = r /\ j = n
    <3>1. ledger'[q] = ledger[q] /\ ledger'[p][j] = rev
      BY <2>5, <1>3
    <3> QED
      BY <2>5, <3>1, <2>1
  <2>6. CASE q = r /\ k = n
    <3>1. ledger'[p] = ledger[p] /\ ledger'[q][k] = rev
      BY <2>6, <1>3
    <3> QED
      BY <2>6, <3>1, <2>1
  <2> QED
    BY <2>2, <2>3, <2>4, <2>5, <2>6, <1>3
<1>6. RetractionIsLast'
  <2>1. \A k \in DOMAIN ledger[r] : ledger[r][k].status # "retracted"
    <3> SUFFICES ASSUME NEW k \in DOMAIN ledger[r], ledger[r][k].status = "retracted"
                 PROVE  FALSE
      OBVIOUS
    <3>1. k = Len(ledger[r])
      BY DEF LedgerInv, RetractionIsLast
    <3>2. ledger[r] \in Seq(S) /\ k \in 1 .. Len(ledger[r])
      BY <1>1
    <3>3. n \in 2 .. Len(Append(ledger[r], rev)) /\ n - 1 = k
      BY <3>1, <3>2, <1>3
    <3>4. Follows(Append(ledger[r], rev)[n - 1], Append(ledger[r], rev)[n])
      BY <1>2, <3>3 DEF Acceptable, ValidHistory
    <3>5. Append(ledger[r], rev)[n - 1] = ledger[r][k]
      BY <3>3, <1>3
    <3> QED
      BY <3>4, <3>5 DEF Follows
  <2> SUFFICES ASSUME NEW q \in Receipts, NEW k \in DOMAIN ledger'[q],
                      ledger'[q][k].status = "retracted"
               PROVE  k = Len(ledger'[q])
    BY DEF RetractionIsLast
  <2>2. CASE q # r
    BY <2>2, <1>3 DEF LedgerInv, RetractionIsLast
  <2>3. CASE q = r
    BY <2>3, <2>1, <1>3
  <2> QED
    BY <2>2, <2>3
<1>7. \A q \in Receipts : \A k \in DOMAIN ledger'[q] :
        \A line \in Lines(ledger'[q][k]) : line.links \subseteq Known'
  <2> SUFFICES ASSUME NEW q \in Receipts, NEW k \in DOMAIN ledger'[q]
               PROVE  \A line \in Lines(ledger'[q][k]) : line.links \subseteq Known
    BY <1>2 DEF Known
  <2>1. CASE q # r
    BY <2>1, <1>3 DEF LedgerInv, LinksKnown
  <2>2. CASE q = r /\ k = n
    BY <2>2, <1>3 DEF LinksKnown
  <2>3. CASE q = r /\ k # n
    BY <2>3, <1>3 DEF LedgerInv, LinksKnown
  <2> QED
    BY <2>1, <2>2, <2>3
<1>8. \A q \in Recorded' : ValidHistory(ledger'[q])
  <2> SUFFICES ASSUME NEW q \in Receipts, ledger'[q] # <<>> PROVE ValidHistory(ledger'[q])
    BY DEF Recorded
  <2>1. CASE q = r
    BY <2>1, <1>2, <1>3 DEF Acceptable
  <2>2. CASE q # r
    BY <2>2, <1>3 DEF LedgerInv, Recorded
  <2> QED
    BY <2>1, <2>2
<1>9. \A q \in Receipts : \A k \in DOMAIN ledger'[q] : WellFormed(ledger'[q][k])
  <2> TAKE q \in Receipts
  <2> TAKE k \in DOMAIN ledger'[q]
  <2>1. CASE q # r
    BY <2>1, <1>3 DEF LedgerInv
  <2>2. CASE q = r /\ k = n
    BY <2>2, <1>3
  <2>3. CASE q = r /\ k # n
    BY <2>3, <1>3 DEF LedgerInv
  <2> QED
    BY <2>1, <2>2, <2>3
<1>10. (\A q \in Recorded : ValidHistory(ledger[q]))'
  BY <1>8 DEF ValidHistory, NoIdReused
<1> QED
  BY <1>2, <1>4, <1>5, <1>6, <1>7, <1>9, <1>10 DEF LedgerInv, LinksKnown, WellFormed

-------------------------------------------------------------------------------
(* The commands commit revisions whose links name products.                *)

\* The current revision of a receipt links known products only.
LEMMA CurrentLinksKnown ==
  ASSUME LedgerInv, NEW r \in Recorded
  PROVE  LinksKnown(Current(r))
<1>1. PICK S : ledger \in [Receipts -> Seq(S)]
  BY DEF LedgerInv, IsLedger
<1>2. r \in Receipts /\ ledger[r] \in Seq(S) /\ ledger[r] # <<>>
  BY <1>1 DEF Recorded
<1>3. Len(ledger[r]) \in DOMAIN ledger[r] /\ Current(r) = ledger[r][Len(ledger[r])]
  BY <1>2, LastIsOne DEF Current
<1> QED
  BY <1>2, <1>3 DEF LedgerInv

\* A constructed revision has the lines it was given.
LEMMA LinesOfRevision ==
  ASSUME NEW status, NEW reason, NEW head, NEW hash, NEW lines
  PROVE  Lines(Revision(status, reason, head, hash, lines)) = {lines[k] : k \in DOMAIN lines}
BY DEF Lines, Revision, ToSet

\* A constructed revision is well formed if its lines have different ids.
LEMMA RevisionIsWellFormed ==
  ASSUME NEW status, NEW reason, NEW head, NEW hash, NEW lines, IdsAreUnique(lines)
  PROVE  WellFormed(Revision(status, reason, head, hash, lines))
BY DEF WellFormed, Revision

\* The current revision is well formed.
LEMMA CurrentIsWellFormed ==
  ASSUME LedgerInv, NEW r \in Recorded
  PROVE  WellFormed(Current(r)) /\ IdsAreUnique(Current(r).lines)
<1>1. PICK S : ledger \in [Receipts -> Seq(S)]
  BY DEF LedgerInv, IsLedger
<1>2. r \in Receipts /\ ledger[r] \in Seq(S) /\ ledger[r] # <<>>
  BY <1>1 DEF Recorded
<1>3. Len(ledger[r]) \in DOMAIN ledger[r] /\ Current(r) = ledger[r][Len(ledger[r])]
  BY <1>2, LastIsOne DEF Current
<1> QED
  BY <1>2, <1>3 DEF LedgerInv, WellFormed

\* What record_receipt commits has no links, and numbers its lines.
LEMMA RecordKeepsInv ==
  ASSUME LedgerInv, RecordReceipt
  PROVE  LedgerInv'
<1>1. PICK payload \in Payloads, requested \in {"confirmed", "needs_review"}, r \in Receipts :
        CommitReceipts(r, FirstRevision(payload, requested))
  BY DEF RecordReceipt
<1>2. LinksKnown(FirstRevision(payload, requested))
  <2> DEFINE lines == [k \in DOMAIN payload.lines |-> Line(k, payload.lines[k], {})]
  <2>1. \A k \in DOMAIN lines : lines[k].links = {}
    BY DEF Line
  <2>2. FirstRevision(payload, requested)
          = Revision(Status(requested, payload.lines), None, payload.head, payload.hash, lines)
    BY DEF FirstRevision
  <2> HIDE DEF lines
  <2>3. Lines(FirstRevision(payload, requested)) = {lines[k] : k \in DOMAIN lines}
    BY <2>2, LinesOfRevision
  <2> QED
    BY <2>1, <2>3 DEF LinksKnown
<1>3. WellFormed(FirstRevision(payload, requested))
  <2> DEFINE lines == [k \in DOMAIN payload.lines |-> Line(k, payload.lines[k], {})]
  <2>1. IdsAreUnique(lines)
    BY DEF IdsAreUnique, Line
  <2>2. FirstRevision(payload, requested)
          = Revision(Status(requested, payload.lines), None, payload.head, payload.hash, lines)
    BY DEF FirstRevision
  <2> HIDE DEF lines
  <2> QED
    BY <2>1, <2>2, RevisionIsWellFormed
<1> QED
  BY <1>1, <1>2, <1>3, CommitKeepsInv

\* A corrected line has the links of the line it was, or none.
LEMMA CorrectKeepsInv ==
  ASSUME LedgerInv, NEW r \in Recorded, CorrectReceipt(r)
  PROVE  LedgerInv'
<1>1. PICK lines \in SuppliedLines(r), head \in Heads, hash \in Hashes \cup {None} :
        /\ Identifiable(r, lines, Identified(lines, Current(r)))
        /\ CommitReceipts(r, Revision(Status("corrected", lines), None, head, hash,
                                      CorrectedLines(r, lines, Identified(lines, Current(r)))))
  BY DEF CorrectReceipt
<1> DEFINE new == CorrectedLines(r, lines, Identified(lines, Current(r)))
<1>2. \A k \in DOMAIN new : new[k].links \subseteq Known
  <2>1. \A id : LinksOf(Current(r), id) \subseteq Known
    BY CurrentLinksKnown DEF LinksOf, LinksKnown
  <2>2. \A k \in DOMAIN new : \E id : new[k].links = LinksOf(Current(r), id)
    BY DEF CorrectedLines, Line
  <2> QED
    BY <2>1, <2>2
<1>3. LinksKnown(Revision(Status("corrected", lines), None, head, hash, new))
  <2> HIDE DEF new
  <2> QED
    BY <1>2, LinesOfRevision DEF LinksKnown
<1>4. WellFormed(Revision(Status("corrected", lines), None, head, hash, new))
  <2>1. IdsAreUnique(new)
    BY <1>1 DEF Identifiable
  <2> HIDE DEF new
  <2> QED
    BY <2>1, RevisionIsWellFormed
<1> QED
  BY <1>1, <1>3, <1>4, CommitKeepsInv DEF Recorded

\* Linking and unlinking replace the links of one line.
LEMMA RelinkKeepsInv ==
  ASSUME LedgerInv, NEW r \in Recorded, NEW k, NEW links \in SUBSET Known,
         CommitReceipts(r, Relinked(r, k, links))
  PROVE  LedgerInv'
<1> DEFINE old == Current(r).lines
           new == [j \in DOMAIN old |->
                     IF j = k THEN Line(old[k].id, old[k], links) ELSE old[j]]
<1>1. Lines(Relinked(r, k, links)) = {new[j] : j \in DOMAIN new}
  BY LinesOfRevision DEF Relinked, Revised
<1>2. \A j \in DOMAIN old : old[j].links \subseteq Known
  BY CurrentLinksKnown DEF LinksKnown, Lines, ToSet
<1>3. \A j \in DOMAIN new : new[j].links \subseteq Known
  BY <1>2 DEF Line
<1>4. LinksKnown(Relinked(r, k, links))
  BY <1>1, <1>3 DEF LinksKnown
<1>5. WellFormed(Relinked(r, k, links))
  <2>1. \A j \in DOMAIN old : new[j].id = old[j].id
    BY DEF Line
  <2>2. IdsAreUnique(new)
    BY <2>1, CurrentIsWellFormed DEF IdsAreUnique
  <2>3. Relinked(r, k, links)
          = Revision(Current(r).status, None, Current(r).head, Current(r).hash, new)
    BY DEF Relinked, Revised
  <2> HIDE DEF new
  <2> QED
    BY <2>2, <2>3, RevisionIsWellFormed
<1> QED
  BY <1>4, <1>5, CommitKeepsInv DEF Recorded

\* link_receipt_line links a product that the catalog has.
LEMMA LinkKeepsInv ==
  ASSUME LedgerInv, NEW r \in Recorded, LinkReceiptLine(r)
  PROVE  LedgerInv'
<1>1. PICK k \in DOMAIN Current(r).lines, p \in Known :
        CommitReceipts(r, Relinked(r, k, Current(r).lines[k].links \cup {p}))
  BY DEF LinkReceiptLine
<1>2. Current(r).lines[k].links \cup {p} \in SUBSET Known
  BY CurrentLinksKnown DEF LinksKnown, Lines, ToSet
<1> QED
  BY <1>1, <1>2, RelinkKeepsInv

\* unlink_receipt_line takes one link away.
LEMMA UnlinkKeepsInv ==
  ASSUME LedgerInv, NEW r \in Recorded, UnlinkReceiptLine(r)
  PROVE  LedgerInv'
<1>1. PICK k \in DOMAIN Current(r).lines : \E p \in Current(r).lines[k].links :
        CommitReceipts(r, Relinked(r, k, Current(r).lines[k].links \ {p}))
  BY DEF UnlinkReceiptLine
<1>2. PICK p : CommitReceipts(r, Relinked(r, k, Current(r).lines[k].links \ {p}))
  BY <1>1
<1>3. Current(r).lines[k].links \ {p} \in SUBSET Known
  BY CurrentLinksKnown DEF LinksKnown, Lines, ToSet
<1> QED
  BY <1>2, <1>3, RelinkKeepsInv

\* A retraction repeats the lines of the current revision.
LEMMA RetractKeepsInv ==
  ASSUME LedgerInv, NEW r \in Recorded, RetractReceipt(r)
  PROVE  LedgerInv'
<1>1. PICK reason \in Reasons :
        CommitReceipts(r, Revised(r, "retracted", reason, Current(r).lines))
  BY DEF RetractReceipt
<1>2. Lines(Revised(r, "retracted", reason, Current(r).lines)) = Lines(Current(r))
  <2>1. Lines(Revised(r, "retracted", reason, Current(r).lines))
          = {Current(r).lines[k] : k \in DOMAIN Current(r).lines}
    BY LinesOfRevision DEF Revised
  <2>2. Lines(Current(r)) = {Current(r).lines[k] : k \in DOMAIN Current(r).lines}
    BY DEF Lines, ToSet
  <2> QED
    BY <2>1, <2>2
<1>3. LinksKnown(Revised(r, "retracted", reason, Current(r).lines))
  BY <1>2, CurrentLinksKnown DEF LinksKnown
<1>4. WellFormed(Revised(r, "retracted", reason, Current(r).lines))
  BY CurrentIsWellFormed, RevisionIsWellFormed DEF Revised
<1> QED
  BY <1>1, <1>3, <1>4, CommitKeepsInv DEF Recorded

-------------------------------------------------------------------------------
(* The catalog.                                                            *)

\* Products only become known, or are merged without a link to them.
LEMMA CatalogKeepsInv ==
  ASSUME LedgerInv, AddProduct \/ MergeProductIdentity
  PROVE  LedgerInv'
<1>1. UNCHANGED ledger
  BY DEF AddProduct, MergeProductIdentity
<1>2. products' \in [Products -> {"unused", "known", "merged"}]
  BY DEF LedgerInv, AddProduct, MergeProductIdentity, Known
<1>3. \A r \in Receipts : \A k \in DOMAIN ledger[r] :
        \A line \in Lines(ledger[r][k]) : line.links \subseteq Known'
  <2> SUFFICES ASSUME NEW r \in Receipts, NEW k \in DOMAIN ledger[r],
                      NEW line \in Lines(ledger[r][k])
               PROVE  line.links \subseteq Known'
    OBVIOUS
  <2>1. line.links \subseteq Known
    BY DEF LedgerInv, LinksKnown
  <2>2. CASE AddProduct
    <3>1. Known \subseteq Known'
      BY <2>2 DEF AddProduct, Known, LedgerInv
    <3> QED
      BY <2>1, <3>1
  <2>3. CASE MergeProductIdentity
    <3>1. PICK source \in Known : /\ LinkConflicts(source) = {}
                                  /\ products' = [products EXCEPT ![source] = "merged"]
      BY <2>3 DEF MergeProductIdentity
    <3>2. source \notin line.links
      <4>1. ledger[r][k] \in Revisions(r)
        BY RevisionsAre
      <4> QED
        BY <3>1, <4>1 DEF LinkConflicts
    <3>3. Known \ {source} \subseteq Known'
      BY <3>1 DEF Known, LedgerInv
    <3> QED
      BY <2>1, <3>2, <3>3
  <2> QED
    BY <2>2, <2>3
<1>4. IsLedger' /\ Owned' /\ RetractionIsLast'
  BY <1>1 DEF LedgerInv, IsLedger, Owned, RetractionIsLast, Fingerprint
<1>5. (\A r \in Recorded : ValidHistory(ledger[r]))'
  BY <1>1 DEF LedgerInv, Recorded
<1> QED
  BY <1>1, <1>2, <1>3, <1>4, <1>5 DEF LedgerInv, LinksKnown

-------------------------------------------------------------------------------
(* The theorems.                                                           *)

\* An empty ledger is one.
LEMMA InitInv == Init => LedgerInv
<1> SUFFICES ASSUME Init PROVE LedgerInv
  OBVIOUS
<1>1. IsLedger
  <2>1. ledger \in [Receipts -> Seq({})]
    BY DEF Init
  <2> QED
    BY <2>1 DEF IsLedger
<1>2. \A r \in Receipts : DOMAIN ledger[r] = {}
  BY DEF Init
<1>3. products \in [Products -> {"unused", "known", "merged"}]
  BY DEF Init
<1> QED
  BY <1>1, <1>2, <1>3 DEF LedgerInv, Owned, RetractionIsLast, Recorded, Init

\* No command, refused or not, breaks the invariant.
LEMMA NextInv == LedgerInv /\ [Next]_vars => LedgerInv'
<1> SUFFICES ASSUME LedgerInv, [Next]_vars PROVE LedgerInv'
  OBVIOUS
<1>1. CASE RecordReceipt
  BY <1>1, RecordKeepsInv
<1>2. ASSUME NEW r \in Recorded,
             CorrectReceipt(r) \/ RetractReceipt(r) \/ LinkReceiptLine(r) \/ UnlinkReceiptLine(r)
      PROVE  LedgerInv'
  BY <1>2, CorrectKeepsInv, RetractKeepsInv, LinkKeepsInv, UnlinkKeepsInv
<1>3. CASE AddProduct \/ MergeProductIdentity
  BY <1>3, CatalogKeepsInv
<1>4. CASE UNCHANGED vars
  <2>1. UNCHANGED <<ledger, products>>
    BY <1>4 DEF vars
  <2>2. (\A r \in Recorded : ValidHistory(ledger[r]))'
    BY <2>1 DEF LedgerInv, Recorded
  <2> QED
    BY <2>1, <2>2 DEF LedgerInv, IsLedger, Owned, RetractionIsLast, LinksKnown, Known, Fingerprint
<1> QED
  BY <1>1, <1>2, <1>3, <1>4 DEF Next, Refuse

\* Content and evidence belong to one receipt over all revisions, nothing
\* follows a retraction and links name products.
THEOREM LedgerInvariance == Spec => []LedgerInv
BY InitInv, NextInv, PTL DEF Spec

\* No merge of products leaves a link, of any revision, without its product.
THEOREM LinksStay == Spec => []LinksNameProducts
<1>1. LedgerInv => LinksNameProducts
  BY DEF LedgerInv, LinksNameProducts, LinksKnown, Lines, Recorded
<1> QED
  BY <1>1, LedgerInvariance, PTL

\* The content of a revision has one owner, its receipt.
LEMMA SemanticOwnerIs ==
  ASSUME LedgerInv, NEW r \in Receipts, NEW k \in DOMAIN ledger[r]
  PROVE  SemanticOwners(ledger[r][k]) = {r}
<1> DEFINE rev == ledger[r][k]
<1>1. rev \in Revisions(r)
  BY RevisionsAre
<1>2. \A q \in SemanticOwners(rev) : q = r
  <2> TAKE q \in SemanticOwners(rev)
  <2>1. PICK old \in Revisions(q) : Fingerprint(old) = Fingerprint(rev)
    BY DEF SemanticOwners
  <2>2. PICK j \in DOMAIN ledger[q] : old = ledger[q][j]
    BY RevisionsAre
  <2>3. q \in Receipts
    BY DEF SemanticOwners
  <2> QED
    BY <2>1, <2>2, <2>3 DEF LedgerInv, Owned
<1>3. r \in SemanticOwners(rev)
  BY <1>1 DEF SemanticOwners
<1> QED
  BY <1>2, <1>3

\* Intake and retraction can be repeated at any later time: the first is
\* answered with the receipt that has the content, the second is acknowledged.
THEOREM CommandsCanBeRepeated == Spec => []RepeatsAreAnswered
<1>1. LedgerInv => RepeatsAreAnswered
  <2> SUFFICES ASSUME LedgerInv, NEW r \in Recorded, NEW k \in DOMAIN ledger[r]
               PROVE  /\ RecordAnswer(ledger[r][k]) = r
                      /\ ledger[r][k].status = "retracted" =>
                           RetractAnswer(r, k - 1, ledger[r][k].reason) = "idempotent"
    BY DEF RepeatsAreAnswered
  <2> DEFINE rev == ledger[r][k]
  <2>0. r \in Receipts
    BY DEF Recorded
  <2>1. SemanticOwners(rev) = {r}
    BY <2>0, SemanticOwnerIs
  <2>2. rev.hash # None => EvidenceOwners(rev.hash) = {r}
    <3> SUFFICES ASSUME rev.hash # None PROVE EvidenceOwners(rev.hash) = {r}
      OBVIOUS
    <3>1. rev \in Revisions(r)
      BY RevisionsAre
    <3>2. \A q \in EvidenceOwners(rev.hash) : q = r
      <4> TAKE q \in EvidenceOwners(rev.hash)
      <4>1. PICK old \in Revisions(q) : old.hash = rev.hash
        BY DEF EvidenceOwners
      <4>2. PICK j \in DOMAIN ledger[q] : old = ledger[q][j]
        BY RevisionsAre
      <4>3. q \in Receipts
        BY DEF EvidenceOwners
      <4> QED
        BY <4>1, <4>2, <4>3, <2>0 DEF LedgerInv, Owned
    <3>3. r \in EvidenceOwners(rev.hash)
      BY <3>1, <2>0 DEF EvidenceOwners
    <3> QED
      BY <3>2, <3>3
  <2>3. RecordAnswer(rev) = r
    <3>1. (CHOOSE q \in {r} : TRUE) = r
      OBVIOUS
    <3> QED
      BY <2>1, <2>2, <3>1 DEF RecordAnswer
  <2>4. ASSUME rev.status = "retracted"
        PROVE  RetractAnswer(r, k - 1, rev.reason) = "idempotent"
    <3>1. PICK S : ledger \in [Receipts -> Seq(S)]
      BY DEF LedgerInv, IsLedger
    <3>2. ledger[r] \in Seq(S) /\ ledger[r] # <<>>
      BY <3>1, <2>0 DEF Recorded
    <3>3. k = Len(ledger[r]) /\ Current(r) = rev
      BY <2>0, <2>4, <3>2, LastIsOne DEF LedgerInv, RetractionIsLast, Current
    <3> QED
      BY <3>3, <2>4 DEF RetractAnswer, Retracted
  <2> QED
    BY <2>3, <2>4
<1> QED
  BY <1>1, LedgerInvariance, PTL

\* The lines of the current revision again, as a correction, follow it if
\* something else changed.
LEMMA CorrectionFollows ==
  ASSUME NEW old, NEW new, new.lines = old.lines, IdsAreUnique(old.lines),
         old.status # "retracted", new.status \in {"corrected", "needs_review"},
         Content(new) # Content(old)
  PROVE  Follows(old, new)
<1>1. Lines(new) = Lines(old)
  BY DEF Lines
<1>2. IdentityKept(old, new)
  BY <1>1 DEF IdentityKept, IdsOf
<1>3. LinksPreserved(old, new)
  <2> SUFFICES ASSUME NEW line \in Lines(old) PROVE line.links = LinksOf(old, line.id)
    BY <1>1 DEF LinksPreserved
  <2>1. {l \in Lines(old) : l.id = line.id} = {line}
    BY DEF Lines, ToSet, IdsAreUnique
  <2> QED
    BY <2>1 DEF LinksOf
<1>4. new.status # "retracted"
  OBVIOUS
<1> QED
  BY <1>2, <1>3, <1>4 DEF Follows

\* A position that is not the last lies before it.
LEMMA NotLast == ASSUME NEW m \in Nat, NEW x \in 1 .. m, x # m PROVE x < m
OBVIOUS

\* A history stays valid if a revision with the same ids follows its last one.
LEMMA HistoryGrows ==
  ASSUME NEW S, NEW h \in Seq(S), h # <<>>, ValidHistory(h), NEW rev,
         Follows(Last(h), rev), LineIds(rev) = LineIds(Last(h))
  PROVE  ValidHistory(Append(h, rev))
<1> DEFINE n == Len(h)
           g == Append(h, rev)
<1>1. /\ n \in Nat /\ n # 0 /\ DOMAIN h = 1 .. n
      /\ Len(g) = n + 1 /\ DOMAIN g = 1 .. n + 1
      /\ \A k \in 1 .. n : g[k] = h[k]
      /\ g[n + 1] = rev /\ Last(h) = h[n]
  BY AppendedHistory DEF Last
<1> HIDE DEF g
<1>2. \A line \in Lines(g[1]) : line.links = {}
  BY <1>1 DEF ValidHistory
<1>3. \A k \in 2 .. Len(g) : Follows(g[k - 1], g[k])
  <2> TAKE k \in 2 .. Len(g)
  <2>1. CASE k = n + 1
    <3>1. g[k - 1] = Last(h) /\ g[k] = rev
      BY <2>1, <1>1
    <3> QED
      BY <3>1
  <2>2. CASE k # n + 1
    <3>1. k \in 2 .. n /\ g[k - 1] = h[k - 1] /\ g[k] = h[k]
      BY <2>2, <1>1
    <3> QED
      BY <3>1, <1>1 DEF ValidHistory
  <2> QED
    BY <2>1, <2>2
<1>4. NoIdReused(g)
  <2> SUFFICES ASSUME NEW i \in 1 .. n + 1, NEW j \in 1 .. n + 1, NEW k \in 1 .. n + 1,
                      i < j, j < k
               PROVE  LineIds(g[i]) \cap LineIds(g[k]) \subseteq LineIds(g[j])
    BY <1>1 DEF NoIdReused
  <2>1. g[i] = h[i] /\ g[j] = h[j] /\ i \in 1 .. n /\ j \in 1 .. n
    BY <1>1
  <2>2. CASE k # n + 1
    <3>1. k \in 1 .. n /\ g[k] = h[k]
      BY <2>2, <1>1
    <3> QED
      BY <2>1, <3>1, <1>1 DEF ValidHistory, NoIdReused
  <2>3. CASE k = n + 1 /\ j = n
    BY <2>1, <2>3, <1>1
  <2>4. CASE k = n + 1 /\ j # n
    <3>1. LineIds(h[i]) \cap LineIds(h[n]) \subseteq LineIds(h[j])
      <4>1. i \in DOMAIN h /\ j \in DOMAIN h
        BY <2>1, <1>1
      <4>2. n \in DOMAIN h
        BY <1>1
      <4>3. i < j /\ j < n
        <5>1. n \in Nat /\ j \in 1 .. n /\ j # n
          BY <1>1, <2>1, <2>4
        <5> HIDE DEF n
        <5> QED
          BY <5>1, NotLast
      <4>4. NoIdReused(h)
        BY DEF ValidHistory
      <4> HIDE DEF n
      <4> QED
        BY <4>1, <4>2, <4>3, <4>4 DEF NoIdReused
    <3> QED
      BY <2>1, <2>4, <3>1, <1>1
  <2> QED
    BY <2>2, <2>3, <2>4
<1> QED
  BY <1>2, <1>3, <1>4 DEF ValidHistory, g

\* What an intake refuses because its evidence is new, a correction accepts,
\* however long the histories are.
THEOREM EvidenceIsAccepted == Spec => []EvidenceCanBeAttached
<1>1. LedgerInv => EvidenceCanBeAttached
  <2> SUFFICES ASSUME LedgerInv, NEW r \in Recorded, NEW old \in Revisions(r),
                      NEW hash \in Hashes, ~Retracted(r), EvidenceOwners(hash) = {}
               PROVE  /\ RecordAnswer([old EXCEPT !.hash = hash]) = "conflict"
                      /\ Acceptable(r, [Current(r) EXCEPT !.hash = hash,
                                !.status = Status("corrected", Current(r).lines)])
    BY DEF EvidenceCanBeAttached
  <2> DEFINE known == [old EXCEPT !.hash = hash]
             rev == [Current(r) EXCEPT !.hash = hash,
                                       !.status = Status("corrected", Current(r).lines)]
  <2>1. PICK S : ledger \in [Receipts -> Seq(S)]
    BY DEF LedgerInv, IsLedger
  <2>2. /\ r \in Receipts /\ ledger[r] \in Seq(S) /\ ledger[r] # <<>>
        /\ Len(ledger[r]) \in DOMAIN ledger[r] /\ Current(r) = ledger[r][Len(ledger[r])]
    BY <2>1, LastIsOne DEF Recorded, Current
  <2>3. hash # None
    BY LedgerConstants
  <2>4. RecordAnswer(known) = "conflict"
    <3>1. PICK k \in DOMAIN ledger[r] : old = ledger[r][k]
      BY RevisionsAre
    <3>2. WellFormed(old)
      BY <2>2, <3>1 DEF LedgerInv
    <3>3. known.hash = hash /\ Fingerprint(known) = Fingerprint(old)
      BY <3>2 DEF WellFormed, Revision, Fingerprint
    <3>4. SemanticOwners(known) = {r} /\ EvidenceOwners(known.hash) = {}
      BY <2>2, <3>1, <3>3, SemanticOwnerIs DEF SemanticOwners
    <3> HIDE DEF known
    <3> QED
      BY <2>3, <3>3, <3>4 DEF RecordAnswer
  <2>5. /\ rev.head = Current(r).head /\ rev.lines = Current(r).lines /\ rev.hash = hash
        /\ rev.status = Status("corrected", Current(r).lines)
    BY CurrentIsWellFormed DEF WellFormed, Revision
  <2> HIDE DEF rev
  <2>6. Current(r).hash # hash
    <3>1. Current(r) \in Revisions(r)
      BY <2>2, RevisionsAre
    <3> QED
      BY <2>2, <2>3, <3>1 DEF EvidenceOwners
  <2>7. Follows(Current(r), rev)
    <3>1. rev.status \in {"corrected", "needs_review"}
      BY <2>5 DEF Status
    <3>2. Content(rev) # Content(Current(r))
      BY <2>5, <2>6 DEF Content
    <3> QED
      BY <2>5, <3>1, <3>2, CurrentIsWellFormed, CorrectionFollows DEF Retracted
  <2>8. ValidHistory(Append(ledger[r], rev))
    <3>1. LineIds(rev) = LineIds(Current(r))
      BY <2>5 DEF LineIds, Lines
    <3>2. ValidHistory(ledger[r])
      BY DEF LedgerInv
    <3> QED
      BY <2>2, <2>7, <3>1, <3>2, HistoryGrows DEF Current
  <2>9. SemanticOwners(rev) = {r}
    <3>1. Fingerprint(rev) = Fingerprint(Current(r))
      BY <2>5 DEF Fingerprint
    <3>2. SemanticOwners(Current(r)) = {r}
      BY <2>2, SemanticOwnerIs
    <3> QED
      BY <3>1, <3>2 DEF SemanticOwners
  <2> QED
    BY <2>4, <2>5, <2>8, <2>9 DEF Acceptable, rev
<1> QED
  BY <1>1, LedgerInvariance, PTL
-------------------------------------------------------------------------------
(* The ids of lines.                                                       *)

\* A revision has lines, and numbers them from 1.
Numbered(rev) ==
  /\ \E n \in Nat \ {0} : DOMAIN rev.lines = 1 .. n
  /\ \A k \in DOMAIN rev.lines : rev.lines[k].id \in Nat \ {0}

LedgerNumbered == \A r \in Receipts : \A k \in DOMAIN ledger[r] : Numbered(ledger[r][k])

\* What an id can be.
SomeId(lines, rev) == {lines[j].id : j \in Nat} \cup LineIds(rev) \cup {New, None}

\* Lines of rev with the source that no other line has.
Free(lines, rev, source, taken) ==
  {l \in Lines(rev) : l.source = source
                        /\ l.id \notin ({lines[j].id : j \in DOMAIN lines} \ {None}) \cup taken}

\* How the k-th line gets its id, with the lines that are free for it.
NextId(lines, k, id, free) ==
  /\ lines[k].id # None => id = lines[k].id
  /\ lines[k].id = None => \/ id = None
                           \/ id = New /\ free = {}
                           \/ \E l \in free : id = l.id

\* An id that was supplied is kept; another line is one of rev that is free, if
\* it is clear which, or a new one if none is.
LEMMA NextIdIs ==
  ASSUME NEW lines, NEW rev, NEW ids, Len(ids) \in Nat, None # New, New \notin LineIds(rev),
         None \notin LineIds(rev),
         NEW k, k = Len(ids) + 1, NEW id, id = IdOfNext(lines, rev, ids),
         NEW free, free = Free(lines, rev, lines[k].source, ToSet(ids))
  PROVE  NextId(lines, k, id, free) /\ id \in SomeId(lines, rev)
<1>1. Cardinality(free) = 1 => free # {}
  <2>1. free = {} => Cardinality(free) = 0
    BY FS_EmptySet, Zenon
  <2> QED BY <2>1
<1>2. CASE lines[k].id # None
  <2>1. id = lines[k].id
    BY <1>2 DEF IdOfNext
  <2> QED BY <1>2, <2>1 DEF NextId, SomeId
<1>3. CASE lines[k].id = None
  <2>1. \A l \in free : l.id \in LineIds(rev)
    BY DEF Free, LineIds
  <2>2. CASE free = {}
    <3>1. id = New
      BY <1>1, <1>3, <2>2 DEF IdOfNext, Free
    <3> QED BY <1>3, <2>2, <3>1 DEF NextId, SomeId
  <2>3. CASE free # {}
    <3>1. id = None \/ \E l \in free : id = l.id
      <4> DEFINE one == (CHOOSE l \in free : TRUE).id
                 same == Counted(rev.lines, lines[k].source) = Counted(lines, lines[k].source)
      <4>1. (CHOOSE l \in free : TRUE) \in free
        BY <2>3
      <4>2. id = CASE lines[k].id # None -> lines[k].id
                   [] lines[k].id = None /\ free = {} -> New
                   [] lines[k].id = None /\ Cardinality(free) = 1 /\ same -> one
                   [] lines[k].id = None /\ Cardinality(free) > 1 /\ same
                        /\ Len(lines) = Len(rev.lines) /\ rev.lines[k] \in free -> rev.lines[k].id
                   [] OTHER -> None
        BY DEF IdOfNext, Free
      <4>3. CASE Cardinality(free) = 1 /\ same
        <5>1. ~(Cardinality(free) > 1)
          BY <4>3
        <5>2. id = one
          <6> HIDE DEF one, same
          <6> QED BY <1>3, <2>3, <4>2, <4>3, <5>1
        <5> QED BY <4>1, <5>2
      <4>4. CASE ~(Cardinality(free) = 1 /\ same)
        <5> HIDE DEF one, same
        <5> QED BY <1>3, <2>3, <4>2, <4>4
      <4> QED BY <4>3, <4>4
    <3> QED BY <1>3, <2>1, <2>3, <3>1 DEF NextId, SomeId
  <2> QED BY <2>2, <2>3
<1> QED BY <1>2, <1>3

\* Identified gives the ids one by one.
LEMMA IdentifiedFolds ==
  ASSUME NEW N \in Nat, NEW lines, DOMAIN lines = 1 .. N, NEW rev, None # New,
         New \notin LineIds(rev), None \notin LineIds(rev)
  PROVE  \E f : /\ f[0] = <<>>
                /\ \A n \in 0 .. N - 1 : f[n + 1] = Append(f[n], IdOfNext(lines, rev, f[n]))
                /\ Identified(lines, rev) = f[N]
<1> DEFINE T == Seq(SomeId(lines, rev))
           step == [k \in 1 .. N |-> [y \in T |-> Append(y, IdOfNext(lines, rev, y))]]
           Body(g, S) == IF S = {} THEN <<>>
                         ELSE Append(g[S \ {Max(S)}], IdOfNext(lines, rev, g[S \ {Max(S)}]))
           iter == CHOOSE g : g = [S \in SUBSET DOMAIN lines |-> Body(g, S)]
<1>1. <<>> \in T
  OBVIOUS
<1>2. \A y \in T, k \in 1 .. N :
        /\ step[k][y] = Append(y, IdOfNext(lines, rev, y))
        /\ step[k][y] \in T
  <2> TAKE y \in T, k \in 1 .. N
  <2>1. Len(y) \in Nat
    OBVIOUS
  <2>2. PICK id : id = IdOfNext(lines, rev, y)
    OBVIOUS
  <2>3. id \in SomeId(lines, rev)
    BY <2>1, <2>2, NextIdIs
  <2>4. Append(y, id) \in T
    BY <2>3
  <2> QED BY <2>2, <2>4
<1> HIDE DEF T
<1>3. PICK g : Folding(g, T, <<>>, step, N)
  <2>1. step \in [1 .. N -> [T -> T]]
    BY <1>2
  <2> HIDE DEF step
  <2> QED BY <1>1, <2>1, FoldExists
<1>4. g = [S \in SUBSET DOMAIN lines |-> Body(g, S)]
  <2>1. ASSUME NEW S \in SUBSET (1 .. N) PROVE g[S] = Body(g, S)
    <3>1. CASE S = {}
      BY <1>3, <3>1 DEF Folding
    <3>2. CASE S # {}
      <4>1. Max(S) \in 1 .. N
        BY <3>2, LargestIsOne
      <4>2. S \ {Max(S)} \in SUBSET (1 .. N)
        OBVIOUS
      <4>3. g[S \ {Max(S)}] \in T /\ g[S] = step[Max(S)][g[S \ {Max(S)}]]
        BY <1>3, <3>2, <4>2 DEF Folding
      <4> HIDE DEF step
      <4> QED BY <1>2, <3>2, <4>1, <4>3
    <3> QED BY <3>1, <3>2
  <2> QED BY <1>3, <2>1 DEF Folding
<1>5. iter = [S \in SUBSET DOMAIN lines |-> Body(iter, S)]
  BY <1>4
<1>6. Identified(lines, rev) = iter[DOMAIN lines]
  BY DEF Identified, FoldLeft, MapThenFoldSet
<1> DEFINE f == [n \in 0 .. N |-> iter[1 .. n]]
<1> HIDE DEF iter
<1>7. f[0] = <<>>
  BY <1>5
<1>8. ASSUME NEW n \in 0 .. N - 1
      PROVE  f[n + 1] = Append(f[n], IdOfNext(lines, rev, f[n]))
  <2>1. iter[1 .. n + 1] = Append(iter[1 .. n], IdOfNext(lines, rev, iter[1 .. n]))
    <3>1. /\ Max(1 .. n + 1) = n + 1 /\ (1 .. n + 1) \ {n + 1} = 1 .. n
          /\ 1 .. n + 1 \in SUBSET (1 .. N) /\ 1 .. n + 1 # {}
      BY EachPrefix
    <3>2. iter[1 .. n + 1] = Body(iter, 1 .. n + 1)
      BY <1>5, <3>1
    <3> QED BY <3>1, <3>2
  <2> QED BY <2>1
<1>9. Identified(lines, rev) = f[N]
  BY <1>6
<1> QED BY <1>7, <1>8, <1>9

\* Each id is given in view of the ones before it.
InView(lines, rev, ids, k) ==
  \E prior \in Seq(SomeId(lines, rev)) :
    /\ Len(prior) = k - 1
    /\ \A j \in 1 .. k - 1 : prior[j] = ids[j]
    /\ ids[k] = IdOfNext(lines, rev, prior)

\* Every line gets an id in its turn.
LEMMA IdentifiedIs ==
  ASSUME NEW N \in Nat, NEW lines, DOMAIN lines = 1 .. N, NEW rev, None # New,
         New \notin LineIds(rev), None \notin LineIds(rev)
  PROVE  /\ DOMAIN Identified(lines, rev) = 1 .. N
         /\ \A k \in 1 .. N : InView(lines, rev, Identified(lines, rev), k)
<1> DEFINE T == Seq(SomeId(lines, rev))
           Holds(ids, n) == ids \in T /\ Len(ids) = n /\ \A k \in 1 .. n : InView(lines, rev, ids, k)
<1>1. PICK f : /\ f[0] = <<>>
               /\ \A n \in 0 .. N - 1 : f[n + 1] = Append(f[n], IdOfNext(lines, rev, f[n]))
               /\ Identified(lines, rev) = f[N]
  BY IdentifiedFolds
<1> DEFINE Good == {n \in 0 .. N : Holds(f[n], n)}
<1>2. 0 \in Good
  <2>1. <<>> \in T /\ Len(<<>>) = 0 /\ 1 .. 0 = {} /\ 0 \in 0 .. N
    OBVIOUS
  <2> QED BY <1>1, <2>1
<1>3. ASSUME NEW n \in 0 .. N - 1, n \in Good PROVE n + 1 \in Good
  <2>1. PICK ids \in T : ids = f[n] /\ Holds(ids, n)
    BY <1>3
  <2>2. PICK id : id = IdOfNext(lines, rev, ids)
    OBVIOUS
  <2>3. id \in SomeId(lines, rev)
    <3>1. Len(ids) \in Nat
      BY <2>1
    <3> QED BY <2>2, <3>1, NextIdIs
  <2>4. PICK more \in T : more = Append(ids, id)
    <3>1. Append(ids, id) \in T
      BY <2>3
    <3> QED BY <3>1
  <2>5. Len(more) = n + 1 /\ more[n + 1] = id /\ \A j \in 1 .. n : more[j] = ids[j]
    BY <2>1, <2>3, <2>4
  <2>6. ASSUME NEW k \in 1 .. n + 1 PROVE InView(lines, rev, more, k)
    <3>1. CASE k = n + 1
      <4>1. /\ Len(ids) = k - 1 /\ more[k] = IdOfNext(lines, rev, ids)
            /\ \A j \in 1 .. k - 1 : ids[j] = more[j]
        BY <2>1, <2>2, <2>5, <3>1
      <4> QED BY <4>1 DEF InView
    <3>2. CASE k # n + 1
      <4>1. k \in 1 .. n /\ more[k] = ids[k] /\ \A j \in 1 .. k - 1 : more[j] = ids[j]
        BY <2>5, <3>2
      <4>2. InView(lines, rev, ids, k)
        BY <2>1, <4>1
      <4> QED BY <4>1, <4>2 DEF InView
    <3> QED BY <3>1, <3>2
  <2>7. f[n + 1] = more /\ n + 1 \in 0 .. N
    BY <1>1, <2>1, <2>2, <2>4
  <2> QED BY <2>4, <2>5, <2>6, <2>7
<1>4. N \in Good
  <2> HIDE DEF Good
  <2> QED BY <1>2, <1>3, EveryIndex
<1>5. Holds(Identified(lines, rev), N)
  BY <1>1, <1>4
<1> QED BY <1>5

-------------------------------------------------------------------------------
(* The numbers are kept.                                                   *)

\* No line has the id that stands for none, or for a new line.
LEMMA NoneIsNoId == None \notin Nat /\ None # New
BY LedgerConstants DEF New

\* Ids of a revision are numbers, neither New nor None.
LEMMA NumbersAre ==
  ASSUME NEW rev, Numbered(rev)
  PROVE  /\ LineIds(rev) \subseteq Nat \ {0} /\ LineIds(rev) # {}
         /\ New \notin LineIds(rev) /\ None \notin LineIds(rev)
         /\ LineIds(rev) = {rev.lines[k].id : k \in DOMAIN rev.lines}
<1>1. PICK n \in Nat \ {0} : DOMAIN rev.lines = 1 .. n
  BY DEF Numbered
<1>2. LineIds(rev) = {rev.lines[k].id : k \in DOMAIN rev.lines}
  BY DEF LineIds, Lines, ToSet
<1>3. 1 \in DOMAIN rev.lines
  BY <1>1
<1>4. LineIds(rev) \subseteq Nat \ {0} /\ LineIds(rev) # {}
  BY <1>2, <1>3 DEF Numbered
<1> QED BY <1>2, <1>4, NoneIsNoId DEF New

\* A commit keeps them if its revision has them.
LEMMA CommitKeepsNumbers ==
  ASSUME LedgerInv, LedgerNumbered, NEW r \in Receipts, NEW rev, CommitReceipts(r, rev),
         Numbered(rev)
  PROVE  LedgerNumbered'
<1>1. PICK S : ledger \in [Receipts -> Seq(S)]
  BY DEF LedgerInv, IsLedger
<1>2. ledger' = [ledger EXCEPT ![r] = Append(@, rev)]
  BY DEF CommitReceipts
<1>3. SUFFICES ASSUME NEW q \in Receipts, NEW k \in DOMAIN ledger'[q] PROVE Numbered(ledger'[q][k])
  BY DEF LedgerNumbered, Numbered
<1>4. CASE q # r
  <2>1. ledger'[q] = ledger[q]
    BY <1>1, <1>2, <1>4
  <2> QED BY <2>1 DEF LedgerNumbered
<1>5. CASE q = r
  <2>1. ledger'[q] = Append(ledger[r], rev) /\ ledger[r] \in Seq(S)
    BY <1>1, <1>2, <1>5
  <2>2. \/ k \in DOMAIN ledger[r] /\ ledger'[q][k] = ledger[r][k]
        \/ ledger'[q][k] = rev
    BY <2>1, AppendedHistory
  <2> QED BY <2>2 DEF LedgerNumbered
<1> QED BY <1>4, <1>5

\* The current revision has them.
LEMMA CurrentIsNumbered ==
  ASSUME LedgerInv, LedgerNumbered, NEW r \in Recorded
  PROVE  Numbered(Current(r)) /\ r \in Receipts /\ LineIds(Current(r)) \subseteq UsedIds(r)
<1>1. PICK S : ledger \in [Receipts -> Seq(S)]
  BY DEF LedgerInv, IsLedger
<1>2. r \in Receipts /\ ledger[r] \in Seq(S) /\ ledger[r] # <<>>
  BY <1>1 DEF Recorded
<1>3. Len(ledger[r]) \in DOMAIN ledger[r] /\ Current(r) = ledger[r][Len(ledger[r])]
  BY <1>2, LastIsOne DEF Current
<1>4. Current(r) \in Revisions(r)
  BY <1>3, RevisionsAre
<1> QED BY <1>2, <1>3, <1>4 DEF LedgerNumbered, UsedIds

\* The last id a receipt used is one of its ids, and no id is greater.
LEMMA LastUsedId ==
  ASSUME LedgerInv, LedgerNumbered, NEW r \in Recorded
  PROVE  Max(UsedIds(r)) \in Nat \ {0} /\ \A id \in UsedIds(r) : id \in Nat /\ id <= Max(UsedIds(r))
<1>1. PICK S : ledger \in [Receipts -> Seq(S)]
  BY DEF LedgerInv, IsLedger
<1>2. r \in Receipts /\ ledger[r] \in Seq(S) /\ ledger[r] # <<>>
  BY <1>1 DEF Recorded
<1> DEFINE N == Len(ledger[r])
<1>3. N \in Nat /\ DOMAIN ledger[r] = 1 .. N
  BY <1>2
<1>4. ASSUME NEW k \in 1 .. N
      PROVE  \E b \in Nat : \A id \in LineIds(ledger[r][k]) : id <= b
  <2>1. Numbered(ledger[r][k])
    BY <1>2, <1>3, <1>4 DEF LedgerNumbered
  <2>2. PICK rev : rev = ledger[r][k]
    OBVIOUS
  <2>3. PICK n \in Nat \ {0} : DOMAIN rev.lines = 1 .. n
    BY <2>1, <2>2 DEF Numbered
  <2> DEFINE f == [j \in 1 .. n |-> rev.lines[j].id]
  <2>4. \A j \in 1 .. n : f[j] \in Nat
    BY <2>1, <2>2, <2>3 DEF Numbered
  <2> HIDE DEF f
  <2>5. PICK b \in Nat : \A j \in 1 .. n : f[j] <= b
    BY <2>4, Bounded
  <2>6. LineIds(rev) = {rev.lines[j].id : j \in 1 .. n}
    BY <2>1, <2>2, <2>3, NumbersAre
  <2>7. \A id \in LineIds(rev) : id <= b
    BY <2>5, <2>6 DEF f
  <2> QED BY <2>2, <2>7
<1> DEFINE f == [k \in 1 .. N |-> CHOOSE b \in Nat : \A id \in LineIds(ledger[r][k]) : id <= b]
<1>5. \A k \in 1 .. N : f[k] \in Nat /\ \A id \in LineIds(ledger[r][k]) : id <= f[k]
  <2> TAKE k \in 1 .. N
  <2>1. f[k] = CHOOSE b \in Nat : \A id \in LineIds(ledger[r][k]) : id <= b
    OBVIOUS
  <2> QED BY <1>4, <2>1
<1> HIDE DEF f
<1>6. PICK b \in Nat : \A k \in 1 .. N : f[k] <= b
  BY <1>3, <1>5, Bounded
<1>7. UsedIds(r) \subseteq 1 .. b
  <2> SUFFICES ASSUME NEW id \in UsedIds(r) PROVE id \in 1 .. b
    OBVIOUS
  <2>1. PICK rev \in Revisions(r) : id \in LineIds(rev)
    BY DEF UsedIds
  <2>2. PICK k \in 1 .. N : rev = ledger[r][k]
    BY <1>3, <2>1, RevisionsAre
  <2>3. Numbered(rev)
    BY <1>2, <1>3, <2>2 DEF LedgerNumbered
  <2>4. id \in Nat \ {0}
    BY <2>1, <2>3, NumbersAre
  <2>5. id <= f[k] /\ f[k] \in Nat /\ f[k] <= b
    BY <1>5, <1>6, <2>1, <2>2
  <2> QED BY <2>4, <2>5
<1>8. UsedIds(r) # {}
  BY CurrentIsNumbered, NumbersAre
<1>9. PICK U \in SUBSET (1 .. b) : U = UsedIds(r)
  BY <1>7
<1>10. Max(U) \in U /\ \A id \in U : id <= Max(U)
  BY <1>8, <1>9, LargestIsOne
<1>11. \A id \in U : id \in Nat \ {0}
  BY <1>9
<1> QED BY <1>9, <1>10, <1>11

\* What a correction makes of its lines.
LEMMA CorrectedLinesAre ==
  ASSUME NEW r, NEW lines, NEW ids, NEW k \in DOMAIN lines
  PROVE  /\ DOMAIN CorrectedLines(r, lines, ids) = DOMAIN lines
         /\ CorrectedLines(r, lines, ids)[k].source = lines[k].source
         /\ CorrectedLines(r, lines, ids)[k].links
              = LinksOf(Current(r), CorrectedLines(r, lines, ids)[k].id)
BY DEF CorrectedLines, Line

\* The lines up to the k-th that get new ids.
NewUpTo(ids, k) == {j \in 1 .. k : ids[j] = New}

\* A line that was found keeps its id.
LEMMA FoundIdIs ==
  ASSUME NEW r, NEW lines, NEW ids, NEW k \in DOMAIN lines, ids[k] # New
  PROVE  CorrectedLines(r, lines, ids)[k].id = ids[k]
BY DEF CorrectedLines, Line

\* Another one gets the next of the receipt.
LEMMA NewIdIs ==
  ASSUME NEW r, NEW lines, NEW ids, NEW k \in DOMAIN lines, ids[k] = New
  PROVE  CorrectedLines(r, lines, ids)[k].id
           = Max(UsedIds(r)) + Cardinality(NewUpTo(ids, k))
BY DEF CorrectedLines, Line, NewUpTo

\* New ids are greater than all that were used.
LEMMA NewIdIsNew ==
  ASSUME LedgerInv, LedgerNumbered, NEW r \in Recorded, NEW lines, NEW ids, NEW N \in Nat,
         DOMAIN lines = 1 .. N, NEW k \in 1 .. N, ids[k] = New
  PROVE  /\ CorrectedLines(r, lines, ids)[k].id \in Nat \ {0}
         /\ CorrectedLines(r, lines, ids)[k].id \notin UsedIds(r)
<1> DEFINE fresh == NewUpTo(ids, k)
<1>1. IsFiniteSet(1 .. k)
  BY FS_Interval
<1>2. IsFiniteSet(fresh)
  <2>1. fresh \in SUBSET (1 .. k)
    BY DEF NewUpTo
  <2> HIDE DEF fresh
  <2> QED BY <1>1, <2>1, FS_Subset
<1>3. k \in fresh
  BY DEF NewUpTo
<1>4. CorrectedLines(r, lines, ids)[k].id = Max(UsedIds(r)) + Cardinality(fresh)
  <2>1. k \in DOMAIN lines
    OBVIOUS
  <2> QED BY <2>1, NewIdIs
<1> HIDE DEF fresh
<1>5. PICK more \in Nat \ {0} : more = Cardinality(fresh)
  <2>1. Cardinality(fresh) \in Nat
    BY <1>2, FS_CardinalityType
  <2>2. Cardinality(fresh) # 0
    BY <1>2, <1>3, FS_EmptySet
  <2> QED BY <2>1, <2>2
<1>6. PICK last \in Nat \ {0} : last = Max(UsedIds(r)) /\ \A id \in UsedIds(r) : id \in Nat /\ id <= last
  BY LastUsedId
<1>7. last + more \in Nat \ {0} /\ ~(last + more <= last)
  OBVIOUS
<1> QED BY <1>4, <1>5, <1>6, <1>7

\* The ids ahead of the k-th.
Before(ids, k) == {ids[j] : j \in 1 .. k - 1}

\* The id of a corrected line, if it is none of the supplied ones: a new one, if
\* no line of the current revision is free, or that of one that is.
LEMMA CorrectedId ==
  ASSUME LedgerInv, LedgerNumbered, NEW r \in Recorded, NEW lines, NEW N \in Nat,
         DOMAIN lines = 1 .. N, NEW ids, ids = Identified(lines, Current(r)), NEW k \in 1 .. N
  PROVE  /\ DOMAIN ids = 1 .. N
         /\ NextId(lines, k, ids[k], Free(lines, Current(r), lines[k].source, Before(ids, k)))
<1> DEFINE rev == Current(r)
<1>1. New \notin LineIds(rev) /\ None \notin LineIds(rev) /\ None # New
  BY CurrentIsNumbered, NumbersAre, NoneIsNoId
<1> HIDE DEF rev
<1>2. DOMAIN ids = 1 .. N /\ InView(lines, rev, ids, k)
  BY <1>1, IdentifiedIs DEF rev
<1>3. PICK prior \in Seq(SomeId(lines, rev)) :
        /\ Len(prior) = k - 1
        /\ \A j \in 1 .. k - 1 : prior[j] = ids[j]
        /\ ids[k] = IdOfNext(lines, rev, prior)
  BY <1>2 DEF InView
<1>4. Len(prior) \in Nat /\ k = Len(prior) + 1
  BY <1>3
<1>5. ToSet(prior) = Before(ids, k)
  BY <1>3 DEF ToSet, Before
<1>6. PICK free : free = Free(lines, rev, lines[k].source, Before(ids, k))
  OBVIOUS
<1>7. NextId(lines, k, ids[k], free)
  <2>1. free = Free(lines, rev, lines[k].source, ToSet(prior))
    BY <1>5, <1>6
  <2>2. PICK id : id = IdOfNext(lines, rev, prior)
    OBVIOUS
  <2>3. PICK m : m = Len(prior) + 1 /\ m = k
    BY <1>4
  <2>4. free = Free(lines, rev, lines[m].source, ToSet(prior))
    BY <2>1, <2>3
  <2>5. NextId(lines, m, id, free)
    BY <1>1, <1>4, <2>2, <2>3, <2>4, NextIdIs
  <2> QED BY <1>3, <2>2, <2>3, <2>5
<1> QED BY <1>2, <1>6, <1>7 DEF rev

\* What an intake records is numbered from 1.
LEMMA RecordKeepsNumbers ==
  ASSUME LedgerInv, LedgerNumbered, RecordReceipt
  PROVE  LedgerNumbered'
<1>1. PICK payload \in Payloads, requested \in {"confirmed", "needs_review"}, r \in Receipts :
        CommitReceipts(r, FirstRevision(payload, requested))
  BY DEF RecordReceipt
<1>2. PICK n \in 1 .. MaxLines : payload.lines \in [1 .. n -> Printed]
  BY DEF Payloads, PrintedLists
<1> DEFINE lines == [k \in DOMAIN payload.lines |-> Line(k, payload.lines[k], {})]
<1>3. FirstRevision(payload, requested).lines = lines
  BY DEF FirstRevision, Revision
<1>4. n \in Nat \ {0} /\ DOMAIN lines = 1 .. n /\ \A k \in 1 .. n : lines[k].id = k
  BY <1>2, LedgerConstants DEF Line
<1> HIDE DEF lines
<1>5. Numbered(FirstRevision(payload, requested))
  <2>1. \A k \in 1 .. n : lines[k].id \in Nat \ {0}
    BY <1>4
  <2> QED BY <1>3, <1>4, <2>1 DEF Numbered
<1> QED BY <1>1, <1>5, CommitKeepsNumbers

\* A correction numbers its new lines after all that were.
LEMMA CorrectKeepsNumbers ==
  ASSUME LedgerInv, LedgerNumbered, NEW r \in Recorded, CorrectReceipt(r)
  PROVE  LedgerNumbered'
<1>1. PICK lines \in SuppliedLines(r), head \in Heads, hash \in Hashes \cup {None} :
        /\ Identifiable(r, lines, Identified(lines, Current(r)))
        /\ CommitReceipts(r, Revision(Status("corrected", lines), None, head, hash,
                                      CorrectedLines(r, lines, Identified(lines, Current(r)))))
  BY DEF CorrectReceipt
<1>2. PICK n \in Nat \ {0} : DOMAIN lines = 1 .. n
  BY LedgerConstants DEF SuppliedLines
<1>3. PICK ids : ids = Identified(lines, Current(r))
  OBVIOUS
<1>4. PICK new : new = CorrectedLines(r, lines, ids)
  OBVIOUS
<1>5. ASSUME NEW k \in 1 .. n PROVE new[k].id \in Nat \ {0}
  <2>1. CASE ids[k] = New
    BY <1>2, <1>4, <2>1, NewIdIsNew
  <2>2. CASE ids[k] # New
    <3>1. new[k].id = ids[k]
      <4>1. k \in DOMAIN lines
        BY <1>2
      <4>2. CorrectedLines(r, lines, ids)[k].id = ids[k]
        BY <2>2, <4>1, FoundIdIs
      <4> QED BY <1>4, <4>2
    <3>2. lines[k].id \in LineIds(Current(r)) \cup {None} /\ ids[k] # None
      <4>1. DOMAIN ids = 1 .. n
        BY <1>2, <1>3, CorrectedId
      <4> QED BY <1>1, <1>2, <1>3, <4>1 DEF Identifiable
    <3>3. ids[k] \in LineIds(Current(r))
      <4>1. CASE lines[k].id # None
        BY <1>2, <1>3, <3>2, <4>1, CorrectedId DEF NextId
      <4>2. CASE lines[k].id = None
        <5>1. PICK l \in Lines(Current(r)) : ids[k] = l.id
          BY <1>2, <1>3, <2>2, <3>2, <4>2, CorrectedId DEF NextId, Free
        <5> QED BY <5>1 DEF LineIds
      <4> QED BY <4>1, <4>2
    <3> QED BY <3>1, <3>3, CurrentIsNumbered, NumbersAre
  <2> QED BY <2>1, <2>2
<1>6. DOMAIN new = 1 .. n
  <2>1. 1 \in DOMAIN lines
    BY <1>2
  <2> QED BY <1>2, <1>4, <2>1, CorrectedLinesAre
<1>7. ASSUME NEW status, NEW head2, NEW hash2
      PROVE  Numbered(Revision(status, None, head2, hash2, new))
  BY <1>5, <1>6 DEF Numbered, Revision
<1> QED BY <1>1, <1>3, <1>4, <1>7, CommitKeepsNumbers DEF Recorded

\* The other commands leave the ids alone.
LEMMA RelinkKeepsNumbers ==
  ASSUME LedgerInv, LedgerNumbered, NEW r \in Recorded,
         RetractReceipt(r) \/ LinkReceiptLine(r) \/ UnlinkReceiptLine(r)
  PROVE  LedgerNumbered'
<1>1. PICK status, reason, lines :
        /\ CommitReceipts(r, Revised(r, status, reason, lines))
        /\ DOMAIN lines = DOMAIN Current(r).lines
        /\ \A k \in DOMAIN lines : lines[k].id = Current(r).lines[k].id
  <2>1. CASE RetractReceipt(r)
    <3>1. PICK reason \in Reasons :
            CommitReceipts(r, Revised(r, "retracted", reason, Current(r).lines))
      BY <2>1 DEF RetractReceipt
    <3> QED BY <3>1
  <2>2. CASE LinkReceiptLine(r) \/ UnlinkReceiptLine(r)
    <3>1. PICK k, links : CommitReceipts(r, Relinked(r, k, links))
      BY <2>2 DEF LinkReceiptLine, UnlinkReceiptLine
    <3> DEFINE old == Current(r).lines
               new == [j \in DOMAIN old |->
                         IF j = k THEN Line(old[k].id, old[k], links) ELSE old[j]]
    <3>2. Relinked(r, k, links) = Revised(r, Current(r).status, None, new)
      BY DEF Relinked
    <3>3. DOMAIN new = DOMAIN old /\ \A j \in DOMAIN new : new[j].id = old[j].id
      BY DEF Line
    <3> HIDE DEF new
    <3> QED BY <3>1, <3>2, <3>3
  <2> QED BY <2>1, <2>2
<1>2. Revised(r, status, reason, lines).lines = lines
  BY DEF Revised, Revision
<1>3. Numbered(Current(r))
  BY CurrentIsNumbered
<1>4. Numbered(Revised(r, status, reason, lines))
  BY <1>1, <1>2, <1>3 DEF Numbered
<1> QED BY <1>1, <1>4, CommitKeepsNumbers DEF Recorded

\* Every line of every revision has a number.
THEOREM LinesAreNumbered == Spec => []LedgerNumbered
<1>1. Init => LedgerNumbered
  BY DEF Init, LedgerNumbered
<1>2. LedgerInv /\ LedgerNumbered /\ [Next]_vars => LedgerNumbered'
  <2> SUFFICES ASSUME LedgerInv, LedgerNumbered, [Next]_vars PROVE LedgerNumbered'
    OBVIOUS
  <2>1. CASE RecordReceipt
    BY <2>1, RecordKeepsNumbers
  <2>2. ASSUME NEW r \in Recorded,
               CorrectReceipt(r) \/ RetractReceipt(r) \/ LinkReceiptLine(r) \/ UnlinkReceiptLine(r)
        PROVE  LedgerNumbered'
    BY <2>2, CorrectKeepsNumbers, RelinkKeepsNumbers
  <2>3. CASE UNCHANGED ledger
    BY <2>3 DEF LedgerNumbered
  <2> QED BY <2>1, <2>2, <2>3 DEF Next, Refuse, AddProduct, MergeProductIdentity, vars
<1> QED BY <1>1, <1>2, LedgerInvariance, PTL DEF Spec

-------------------------------------------------------------------------------
(* Corrections without ids.                                                *)

\* The links of a line of a well formed revision are those of its id.
LEMMA LinksOfLine ==
  ASSUME NEW rev, WellFormed(rev), NEW line \in Lines(rev)
  PROVE  LinksOf(rev, line.id) = line.links
<1>1. \A l \in Lines(rev) : l.id = line.id => l = line
  BY DEF WellFormed, IdsAreUnique, Lines, ToSet
<1>2. {l \in Lines(rev) : l.id = line.id} = {line}
  BY <1>1
<1> QED BY <1>2 DEF LinksOf

\* A line is new, and has no links, because all that were printed the same have
\* been found, or it is one of them.
From(r, ids, k, line) ==
  \/ /\ ids[k] = New /\ line.links = {}
     /\ \A l \in Lines(Current(r)) : l.source = line.source => l.id \in Before(ids, k)
  \/ /\ ids[k] # New /\ line.id = ids[k]
     /\ \E l \in Lines(Current(r)) :
          line.id = l.id /\ line.source = l.source /\ line.links = l.links

\* Every line of a correction that gives no ids is one or the other.
LEMMA CorrectedFrom ==
  ASSUME LedgerInv, LedgerNumbered, NEW r \in Recorded, NEW lines, NEW N \in Nat,
         DOMAIN lines = 1 .. N, \A j \in 1 .. N : lines[j].id = None,
         NEW ids, ids = Identified(lines, Current(r)), Identifiable(r, lines, ids),
         NEW k \in 1 .. N, NEW line, line = CorrectedLines(r, lines, ids)[k]
  PROVE  From(r, ids, k, line)
<1>0. k \in DOMAIN lines
  OBVIOUS
<1>1. line.source = lines[k].source /\ line.links = LinksOf(Current(r), line.id)
  BY <1>0, CorrectedLinesAre
<1>2. DOMAIN ids = 1 .. N /\ ids[k] # None
  <2>1. DOMAIN ids = 1 .. N
    BY CorrectedId
  <2> QED BY <2>1 DEF Identifiable
<1>3. PICK free : free = Free(lines, Current(r), lines[k].source, Before(ids, k))
  OBVIOUS
<1>4. \/ ids[k] = New /\ free = {}
      \/ \E l \in free : ids[k] = l.id
  <2>1. NextId(lines, k, ids[k], free)
    BY <1>3, CorrectedId
  <2>2. lines[k].id = None
    OBVIOUS
  <2> QED BY <1>2, <2>1, <2>2 DEF NextId
<1>5. free = {l \in Lines(Current(r)) : l.source = lines[k].source /\ l.id \notin Before(ids, k)}
  <2>1. {lines[j].id : j \in DOMAIN lines} \ {None} = {}
    OBVIOUS
  <2> QED BY <1>3, <2>1 DEF Free
<1>8. \A l \in free : l.id # New
  BY <1>5, CurrentIsNumbered, NumbersAre DEF LineIds
<1>6. CASE ids[k] = New
  <2>1. line.id \notin LineIds(Current(r))
    <3>1. line.id \notin UsedIds(r)
      BY <1>6, NewIdIsNew
    <3> QED BY <3>1, CurrentIsNumbered
  <2>2. {l \in Lines(Current(r)) : l.id = line.id} = {}
    BY <2>1 DEF LineIds
  <2>3. line.links = {}
    BY <1>1, <2>2 DEF LinksOf
  <2>4. free = {}
    BY <1>4, <1>6, <1>8
  <2>5. \A l \in Lines(Current(r)) : l.source = lines[k].source => l.id \in Before(ids, k)
    BY <1>5, <2>4
  <2> QED BY <1>1, <1>6, <2>3, <2>5 DEF From
<1>7. CASE ids[k] # New
  <2>1. PICK l \in Lines(Current(r)) : l.source = lines[k].source /\ ids[k] = l.id
    BY <1>4, <1>5, <1>7
  <2>2. line.id = ids[k]
    BY <1>0, <1>7, FoundIdIs
  <2>3. LinksOf(Current(r), l.id) = l.links
    BY CurrentIsWellFormed, LinksOfLine
  <2> QED BY <1>1, <1>7, <2>1, <2>2, <2>3 DEF From
<1> QED BY <1>6, <1>7

\* Where a printed line stands.
At(lines, source) == {k \in DOMAIN lines : lines[k].source = source}

\* Counted is their number.
LEMMA PlacesAreFinite ==
  ASSUME NEW n \in Nat, NEW lines, DOMAIN lines = 1 .. n, NEW source
  PROVE  IsFiniteSet(At(lines, source)) /\ Counted(lines, source) = Cardinality(At(lines, source))
<1>1. IsFiniteSet(1 .. n)
  BY FS_Interval
<1>2. At(lines, source) \in SUBSET (1 .. n)
  BY DEF At
<1> QED BY <1>1, <1>2, FS_Subset DEF At, Counted

\* A correction that gives no ids attaches no links to another printed line, and
\* a printed line that appears as often as before keeps its links.
THEOREM LinksAreKept == Spec => []CorrectionsKeepLinks
<1>1. LedgerInv /\ LedgerNumbered => CorrectionsKeepLinks
  <2> SUFFICES ASSUME LedgerInv, LedgerNumbered, NEW r \in Recorded, NEW list \in PrintedLists
               PROVE  LET lines == [k \in DOMAIN list |-> WithId(list[k], None)]
                          ids == Identified(lines, Current(r))
                          new == CorrectedLines(r, lines, ids)
                          Linked(some) == {<<l.source, l.links>> : l \in {l \in ToSet(some) : l.links # {}}}
                      IN  Identifiable(r, lines, ids) =>
                            /\ Linked(new) \subseteq Linked(Current(r).lines)
                            /\ \A pair \in Linked(Current(r).lines) :
                                 Counted(new, pair[1]) = Counted(Current(r).lines, pair[1])
                                   => pair \in Linked(new)
    BY DEF CorrectionsKeepLinks
  <2>1. PICK lines : lines = [k \in DOMAIN list |-> WithId(list[k], None)]
    OBVIOUS
  <2>2. PICK ids : ids = Identified(lines, Current(r))
    OBVIOUS
  <2>3. PICK new : new = CorrectedLines(r, lines, ids)
    OBVIOUS
  <2>4. PICK old : old = Current(r).lines
    OBVIOUS
  <2> DEFINE Linked(some) == {<<l.source, l.links>> : l \in {l \in ToSet(some) : l.links # {}}}
  <2> SUFFICES ASSUME Identifiable(r, lines, ids)
               PROVE  /\ Linked(new) \subseteq Linked(old)
                      /\ \A pair \in Linked(old) :
                           Counted(new, pair[1]) = Counted(old, pair[1]) => pair \in Linked(new)
    BY <2>1, <2>2, <2>3, <2>4
  <2>5. PICK N \in Nat \ {0} : DOMAIN lines = 1 .. N
    BY <2>1, LedgerConstants DEF PrintedLists
  <2>6. \A k \in 1 .. N : lines[k].id = None
    BY <2>1, <2>5 DEF WithId
  <2>7. DOMAIN new = 1 .. N
    <3>1. 1 \in DOMAIN lines
      BY <2>5
    <3> QED BY <2>3, <2>5, <3>1, CorrectedLinesAre
  <2>8. ASSUME NEW k \in 1 .. N PROVE From(r, ids, k, new[k])
    <3>1. PICK line : line = new[k]
      OBVIOUS
    <3>2. From(r, ids, k, line)
      BY <2>2, <2>3, <2>5, <2>6, <3>1, CorrectedFrom
    <3> QED BY <3>1, <3>2
  <2>9. Lines(Current(r)) = {old[m] : m \in DOMAIN old} /\ ToSet(new) = {new[k] : k \in 1 .. N}
        /\ ToSet(old) = {old[m] : m \in DOMAIN old}
    BY <2>4, <2>7 DEF Lines, ToSet
  <2>10. Linked(new) \subseteq Linked(old)
    <3> SUFFICES ASSUME NEW k \in 1 .. N, new[k].links # {}
                 PROVE  <<new[k].source, new[k].links>> \in Linked(old)
      BY <2>9
    <3>1. PICK m \in DOMAIN old : new[k].source = old[m].source /\ new[k].links = old[m].links
      BY <2>8, <2>9 DEF From
    <3>2. old[m] \in {l \in ToSet(old) : l.links # {}}
      BY <2>9, <3>1
    <3> QED BY <3>1, <3>2
  <2>11. ASSUME NEW m \in DOMAIN old, old[m].links # {},
                Counted(new, old[m].source) = Counted(old, old[m].source)
         PROVE  \E k \in 1 .. N : new[k].source = old[m].source /\ new[k].links = old[m].links
    <3>0. \A i, j \in DOMAIN old : old[i].id = old[j].id => i = j
      BY <2>4, CurrentIsWellFormed DEF IdsAreUnique
    <3>1. SUFFICES ASSUME \A k \in 1 .. N : ids[k] # old[m].id PROVE FALSE
      <4> SUFFICES ASSUME NEW k \in 1 .. N, ids[k] = old[m].id
                   PROVE  new[k].source = old[m].source /\ new[k].links = old[m].links
        OBVIOUS
      <4>1. ids[k] # New
        <5>1. old[m].id \in LineIds(Current(r))
          BY <2>9 DEF LineIds
        <5> QED BY <5>1, CurrentIsNumbered, NumbersAre
      <4>2. PICK i \in DOMAIN old : /\ new[k].id = ids[k] /\ new[k].id = old[i].id
                                    /\ new[k].source = old[i].source /\ new[k].links = old[i].links
        BY <2>8, <2>9, <4>1 DEF From
      <4>3. i = m
        BY <3>0, <4>2
      <4> QED BY <4>2, <4>3
    <3> DEFINE source == old[m].source
               here == At(new, source)
               there == At(old, source)
               f == [k \in here |-> CHOOSE i \in DOMAIN old : old[i].id = ids[k] /\ old[i].source = source]
    <3>2. ASSUME NEW k \in here
          PROVE  new[k].id = ids[k] /\ k \in 1 .. N
                 /\ \E i \in DOMAIN old : old[i].id = ids[k] /\ old[i].source = source
      <4>1. k \in 1 .. N /\ new[k].source = source
        BY <2>7 DEF At
      <4>2. ids[k] # New
        <5> SUFFICES ASSUME ids[k] = New PROVE FALSE
          OBVIOUS
        <5>1. \E j \in 1 .. k - 1 : ids[j] = old[m].id
          BY <2>8, <2>9, <4>1 DEF From, Before
        <5> QED BY <3>1, <4>1, <5>1
      <4> QED BY <2>8, <2>9, <4>1, <4>2 DEF From
    <3>3. \A k \in here : f[k] \in there \ {m} /\ old[f[k]].id = ids[k]
      <4> TAKE k \in here
      <4>1. f[k] \in DOMAIN old /\ old[f[k]].id = ids[k] /\ old[f[k]].source = source
        BY <3>2
      <4>2. f[k] # m
        BY <3>1, <3>2, <4>1
      <4> HIDE DEF f
      <4> QED BY <4>1, <4>2 DEF At
    <3>4. f \in Injection(here, there \ {m})
      <4>1. \A j, k \in DOMAIN new : new[j].id = new[k].id => j = k
        BY <2>3 DEF Identifiable, IdsAreUnique
      <4>2. \A j, k \in here : f[j] = f[k] => j = k
        <5> TAKE j, k \in here
        <5> HAVE f[j] = f[k]
        <5>1. ids[j] = ids[k]
          BY <3>3
        <5>2. new[j].id = new[k].id /\ j \in DOMAIN new /\ k \in DOMAIN new
          BY <2>7, <3>2, <5>1
        <5> QED BY <4>1, <5>2
      <4>3. f \in [here -> there \ {m}]
        BY <3>3
      <4> HIDE DEF f, here, there
      <4> QED BY <4>2, <4>3 DEF Injection, IsInjective
    <3>5. PICK n \in Nat \ {0} : DOMAIN old = 1 .. n
      BY <2>4, CurrentIsNumbered DEF Numbered
    <3>6. IsFiniteSet(there) /\ Cardinality(here) = Cardinality(there)
      BY <2>7, <2>11, <3>5, PlacesAreFinite
    <3>7. m \in there
      BY DEF At
    <3> HIDE DEF f, here, there
    <3>8. Cardinality(here) <= Cardinality(there \ {m}) /\ IsFiniteSet(there \ {m})
      <4>1. IsFiniteSet(there \ {m})
        BY <3>6, FS_RemoveElement
      <4> QED BY <3>4, <4>1, FS_Injection
    <3>9. Cardinality(there \ {m}) = Cardinality(there) - 1 /\ Cardinality(there) \in Nat
      BY <3>6, <3>7, FS_RemoveElement, FS_CardinalityType
    <3> QED BY <3>6, <3>8, <3>9
  <2>12. ASSUME NEW pair \in Linked(old), Counted(new, pair[1]) = Counted(old, pair[1])
         PROVE  pair \in Linked(new)
    <3>1. PICK m \in DOMAIN old : old[m].links # {} /\ pair = <<old[m].source, old[m].links>>
      BY <2>9
    <3>2. Counted(new, old[m].source) = Counted(old, old[m].source)
      BY <2>12, <3>1
    <3>3. PICK k \in 1 .. N : new[k].source = old[m].source /\ new[k].links = old[m].links
      BY <2>11, <3>1, <3>2
    <3>4. new[k] \in {l \in ToSet(new) : l.links # {}}
      BY <2>9, <3>1, <3>3
    <3> QED BY <3>1, <3>3, <3>4
  <2> QED BY <2>10, <2>12
<1> QED BY <1>1, LedgerInvariance, LinesAreNumbered, PTL
===============================================================================
