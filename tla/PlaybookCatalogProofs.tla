----------------------- MODULE PlaybookCatalogProofs -----------------------
(***************************************************************************)
(* Proofs about the playbook catalog, for every number of callers,         *)
(* documents and revisions.                                                *)
(***************************************************************************)
EXTENDS PlaybookCatalog, SequenceTheorems, TLAPS

\* One serial call at a time holds the head row.
OneSerial ==
    \A c, d \in Caller : tx[c].op \in Serial /\ tx[d].op \in Serial => c = d

\* What a serial call has read still is in the tables.
Fits(t) ==
    /\ t.op \in {"RECREATE", "EDIT", "PUBLISH"} =>
          revisions[t.revision].status = "DRAFT" /\ t.document \in Document
    /\ t.op \in {"RECREATE", "PUBLISH"} => t.document = revisions[t.revision].document
    /\ t.op = "PUBLISH" => t.document \in Valid /\ CurrentBase(t.revision)
    /\ t.op = "PREPARE" => t.revision = head.published

TxInv == \A c \in Caller : Fits(tx[c])

\* A base is published, and only one that was published without a review, before there
\* were change requests, may lie above the draft it was given to.
BasesPublished ==
    \A r \in DOMAIN requests :
       /\ requests[r].base \in Published \cup {None}
       /\ requests[r].base \in Reviewed => requests[r].base < r

TableInv == PublishedTogether /\ BasesPublished /\ LinearHistory /\ DigestsMatch

TablesOK ==
    /\ head \in [published : 0..MaxRevision, generation : Nat]
    /\ revisions \in Seq(Revision) /\ requests \in Seq(ChangeRequest)
    /\ Len(revisions) = Len(requests) /\ Len(revisions) <= MaxRevision
    /\ head.published <= Len(revisions)
    /\ head.generation = 0 => Len(revisions) = 0

Inv == TypeOK /\ TablesOK /\ OneSerial /\ TxInv /\ TableInv
-----------------------------------------------------------------------------
(* Rows.                                                                   *)

\* The domain of a table is the revisions allocated.
LEMMA Domains ==
    ASSUME TablesOK
    PROVE  /\ DOMAIN revisions = 1..Len(revisions) /\ DOMAIN requests = 1..Len(revisions)
           /\ Len(revisions) \in Nat
           /\ \A r \in 1..Len(revisions) : revisions[r] \in Revision /\ requests[r] \in ChangeRequest
<1> USE DEF TablesOK
<1>1. DOMAIN revisions = 1..Len(revisions) /\ Len(revisions) \in Nat
    BY LenProperties
<1>2. DOMAIN requests = 1..Len(requests)
    BY LenProperties
<1>3. \A r \in 1..Len(revisions) : revisions[r] \in Revision
    BY ElementOfSeq
<1>4. \A r \in 1..Len(requests) : requests[r] \in ChangeRequest
    BY ElementOfSeq
<1> QED BY <1>1, <1>2, <1>3, <1>4

\* The default page and the idle transaction are well typed.
LEMMA DefaultsType ==
    Blank \in Page /\ Idle \in Transaction
BY CatalogAssumption DEF Blank, Page, Idle, Transaction, None

\* Neither the line of publications nor the bases change while nothing is published.
LEMMA LineKept ==
    ASSUME LinearHistory, head'.published = head.published,
           Published' = Published, Reviewed' = Reviewed,
           \A r \in Reviewed : requests'[r].base = requests[r].base
    PROVE  LinearHistory'
BY DEF LinearHistory

\* A call that leaves the tables alone only has to account for its own transaction.
LEMMA Begins ==
    ASSUME Inv, NEW c \in Caller, NEW op \in {"RECREATE", "EDIT", "PUBLISH", "PREPARE", "CLOSE"},
           NEW r \in 1..Len(revisions), NEW d \in Document \cup {Unsigned},
           Begin(c, op, r, d), Fits([op |-> op, revision |-> r, document |-> d])
    PROVE  Inv'
<1> DEFINE t == [op |-> op, revision |-> r, document |-> d]
<1> USE DEF Inv
<1>0. /\ tx \in [Caller -> Transaction] /\ tx' = [tx EXCEPT ![c] = t]
      /\ UNCHANGED <<head, revisions, requests, page>>
    BY DEF Begin, TypeOK
<1>1. r \in 0..MaxRevision /\ r \in DOMAIN revisions
    BY Domains, CatalogAssumption DEF TablesOK
<1>2. t \in Transaction /\ t.op # "NONE" /\ Exists(t.revision)
    BY <1>1 DEF Transaction, Exists
<1>3. tx' \in [Caller -> Transaction] /\ \A e \in Caller : tx'[e] = IF e = c THEN t ELSE tx[e]
    BY <1>0, <1>2
<1>4. TypeOK'
    BY <1>0, <1>2, <1>3 DEF TypeOK, Exists, Idle
<1>5. TablesOK' /\ TableInv'
    BY <1>0 DEF TablesOK, TableInv, PublishedTogether, BasesPublished, LinearHistory, DigestsMatch,
                Published, Reviewed
<1>6. OneSerial'
    BY <1>3 DEF OneSerial, Begin, HeadFree
<1>7. TxInv'
  <2> SUFFICES ASSUME NEW e \in Caller PROVE Fits(tx[e])'
    BY DEF TxInv
  <2>1. CASE e = c
    BY <2>1, <1>0, <1>3 DEF Fits, CurrentBase
  <2>2. CASE e # c
    BY <2>2, <1>0, <1>3 DEF TxInv, Fits, CurrentBase
  <2> QED BY <2>1, <2>2
<1> QED BY <1>4, <1>5, <1>6, <1>7

\* A call that ends leaves the others as they were; those that hold the head, if any, must
\* still fit the changed tables.
LEMMA Ends ==
    ASSUME Inv, NEW c \in Caller, End(c), TablesOK', TableInv',
           Len(revisions) <= Len(revisions'),
           \A e \in Caller \ {c} : tx[e].op \in Serial => Fits(tx[e])'
    PROVE  Inv'
<1> USE DEF Inv
<1>0. /\ tx \in [Caller -> Transaction] /\ tx' = [tx EXCEPT ![c] = Idle]
      /\ page \in [Caller -> Page] /\ page' = [page EXCEPT ![c] = Blank]
    BY DEF End, TypeOK
<1>1. /\ tx' \in [Caller -> Transaction] /\ page' \in [Caller -> Page]
      /\ \A e \in Caller : tx'[e] = IF e = c THEN Idle ELSE tx[e]
    BY <1>0, DefaultsType
<1>2. \A r \in Nat : Exists(r) => Exists(r)'
    BY Domains, TablesOK' , LenProperties DEF TablesOK, Exists
<1>3. \A e \in Caller : tx'[e] # Idle => tx'[e].op # "NONE" /\ Exists(tx[e].revision)'
    BY <1>1, <1>2 DEF TypeOK, Transaction
<1>4. TypeOK'
    BY <1>1, <1>3 DEF TypeOK, TablesOK
<1>5. OneSerial'
    BY <1>1 DEF OneSerial, Idle, Serial
<1>6. TxInv'
  <2> SUFFICES ASSUME NEW e \in Caller PROVE Fits(tx[e])'
    BY DEF TxInv
  <2>1. CASE e = c
    BY <2>1, <1>1 DEF Fits, Idle
  <2>2. CASE e # c /\ tx[e].op \in Serial
    BY <2>2
  <2>3. CASE e # c /\ tx[e].op \notin Serial
    BY <2>3, <1>1 DEF Fits, Serial
  <2> QED BY <2>1, <2>2, <2>3
<1> QED BY <1>4, <1>5, <1>6
-----------------------------------------------------------------------------
(* What the changes of the tables preserve.                                *)

\* A new draft on the present head, while at most the status of open requests changes.
LEMMA Allocates ==
    ASSUME Inv, NEW d \in Document, NEW wrapped \in Seq(ChangeRequest),
           Len(wrapped) = Len(requests),
           \A r \in 1..Len(requests) :
              /\ wrapped[r].base = requests[r].base
              /\ \A status \in {"PUBLISHED", "NONE"} :
                   wrapped[r].status = status <=> requests[r].status = status,
           Allocate(d, wrapped)
    PROVE  /\ TablesOK' /\ TableInv' /\ Len(revisions') = Len(revisions) + 1
           /\ revisions'[Len(revisions')].document = d
           /\ \A r \in 1..Len(revisions) : revisions'[r] = revisions[r] /\ requests'[r] = wrapped[r]
<1> DEFINE n == Len(revisions)
<1> DEFINE row == Draft(d)
<1> DEFINE request == Envelope("OPEN", head.published)
<1> USE DEF Inv
<1>1. n \in Nat /\ n < MaxRevision /\ MaxRevision \in Nat /\ n = Len(requests) /\ head.published \in 0..n
    BY Domains, CatalogAssumption DEF TablesOK, Allocate
<1>2. row \in Revision /\ request \in ChangeRequest
    BY <1>1 DEF Draft, Envelope, Revision, ChangeRequest, TablesOK
<1>3. /\ revisions' \in Seq(Revision) /\ Len(revisions') = n + 1
      /\ \A r \in 1..n : revisions'[r] = revisions[r]
      /\ revisions'[n + 1] = row
    BY <1>2, AppendProperties DEF Allocate, TablesOK
<1>4. /\ requests' \in Seq(ChangeRequest) /\ Len(requests') = n + 1
      /\ \A r \in 1..n : requests'[r] = wrapped[r]
      /\ requests'[n + 1] = request
    BY <1>1, <1>2, AppendProperties DEF Allocate
<1>5. head' = [head EXCEPT !.generation = @ + 1] /\ head'.published = head.published
    BY DEF Allocate, TablesOK
<1>6. TablesOK'
  <2>1. head \in [published : 0..MaxRevision, generation : Nat]
    BY DEF TablesOK
  <2> HIDE DEF Inv, n, row, request
  <2>2. head'.generation = head.generation + 1 /\ head'.generation \in Nat /\ head'.generation # 0
    BY <2>1, <1>5
  <2>3. head' \in [published : 0..MaxRevision, generation : Nat]
    BY <2>1, <1>5
  <2>4. Len(revisions') = Len(requests') /\ Len(revisions') <= MaxRevision
    BY <1>1, <1>3, <1>4
  <2>5. head'.published <= Len(revisions')
    BY <1>1, <1>3, <1>5
  <2> QED BY <1>3, <1>4, <2>2, <2>3, <2>4, <2>5 DEF TablesOK
<1>7. /\ DOMAIN revisions = 1..n /\ DOMAIN requests = 1..n
      /\ DOMAIN revisions' = 1..(n + 1) /\ DOMAIN requests' = 1..(n + 1)
    BY <1>3, <1>4, Domains, LenProperties
<1>8. Published' = Published
    BY <1>1, <1>3, <1>7 DEF Published, Draft
<1>9. PublishedTogether'
    BY <1>1, <1>3, <1>4, <1>7 DEF TableInv, PublishedTogether, Draft, Envelope
<1>10. Reviewed' = Reviewed /\ Reviewed \subseteq 1..n
    BY <1>1, <1>4, <1>7 DEF Reviewed, Envelope
<1>11. BasesPublished'
    BY <1>1, <1>4, <1>7, <1>8, <1>10 DEF TableInv, BasesPublished, LinearHistory, Envelope
<1>12. LinearHistory'
    BY <1>1, <1>4, <1>5, <1>8, <1>10, LineKept DEF TableInv
<1>13. DigestsMatch'
    BY <1>1, <1>3, <1>7, <1>8 DEF TableInv, DigestsMatch, Published
<1> QED BY <1>1, <1>3, <1>4, <1>6, <1>9, <1>11, <1>12, <1>13 DEF TableInv, Draft

\* Finishing the open request of a draft otherwise than by publication.
LEMMA Closing ==
    ASSUME Inv, NEW r \in 1..Len(revisions), IsOpen(r)
    PROVE  /\ Finished(r, "CLOSED") \in Seq(ChangeRequest)
           /\ Len(Finished(r, "CLOSED")) = Len(requests)
           /\ revisions[r].status = "DRAFT"
           /\ \A q \in 1..Len(requests) :
                /\ Finished(r, "CLOSED")[q].base = requests[q].base
                /\ q # r => Finished(r, "CLOSED")[q] = requests[q]
                /\ \A status \in {"PUBLISHED", "NONE"} :
                   Finished(r, "CLOSED")[q].status = status <=> requests[q].status = status
<1> DEFINE closed == [requests[r] EXCEPT !.status = "CLOSED"]
<1> USE DEF Inv
<1>1. requests[r] \in ChangeRequest /\ revisions[r] \in Revision /\ r \in 1..Len(requests)
    BY Domains DEF TablesOK
<1>2. closed \in ChangeRequest
    BY <1>1 DEF ChangeRequest
<1>3. Finished(r, "CLOSED") = [requests EXCEPT ![r] = closed]
    BY DEF Finished
<1>4. /\ Finished(r, "CLOSED") \in Seq(ChangeRequest) /\ Len(Finished(r, "CLOSED")) = Len(requests)
      /\ \A q \in 1..Len(requests) : Finished(r, "CLOSED")[q] = IF q = r THEN closed ELSE requests[q]
  <2>1. requests \in Seq(ChangeRequest)
    BY DEF TablesOK
  <2> HIDE DEF closed, Inv
  <2>2. /\ [requests EXCEPT ![r] = closed] \in Seq(ChangeRequest)
        /\ Len([requests EXCEPT ![r] = closed]) = Len(requests)
        /\ \A q \in 1..Len(requests) :
              [requests EXCEPT ![r] = closed][q] = IF q = r THEN closed ELSE requests[q]
    BY <1>1, <1>2, <2>1, ExceptSeq
  <2> QED BY <1>3, <2>2
<1>5. closed.base = requests[r].base /\ closed.status = "CLOSED"
    BY <1>1 DEF ChangeRequest
<1>6. revisions[r].status = "DRAFT"
    BY <1>1, Domains DEF TableInv, PublishedTogether, IsOpen, Revision
<1> QED BY <1>1, <1>4, <1>5, <1>6 DEF IsOpen
-----------------------------------------------------------------------------
(* The calls, one lemma each where the tables change.                      *)

\* While nobody holds the head, or only the caller that ends, the others have read nothing
\* that a change could contradict.
LEMMA Alone ==
    ASSUME Inv, NEW c \in Caller, HeadFree \/ tx[c].op \in Serial
    PROVE  \A e \in Caller \ {c} : tx[e].op \notin Serial
BY DEF Inv, OneSerial, HeadFree

\* The first draft of a playbook: no call can be open before there is a revision.
LEMMA CreateStep ==
    ASSUME Inv, NEW c \in Caller, NEW d \in Document, Create(c, d)
    PROVE  Inv'
<1> USE DEF Inv
<1>1. Len(revisions) = 0 /\ Len(requests) = 0 /\ head.published = 0 /\ 1 <= MaxRevision
    BY CatalogAssumption DEF Create, TablesOK
<1>2. Draft(d) \in Revision /\ Envelope("OPEN", None) \in ChangeRequest
    BY CatalogAssumption DEF Draft, Envelope, Revision, ChangeRequest, None
<1>3. /\ revisions' \in Seq(Revision) /\ Len(revisions') = 1 /\ revisions'[1] = Draft(d)
      /\ requests' \in Seq(ChangeRequest) /\ Len(requests') = 1
      /\ requests'[1] = Envelope("OPEN", None)
      /\ DOMAIN revisions' = {1} /\ DOMAIN requests' = {1}
    BY <1>2 DEF Create
<1>4. head' \in [published : 0..MaxRevision, generation : Nat]
      /\ head'.published = 0 /\ head'.generation = 1
    BY <1>1 DEF Create, TablesOK
<1>5. TablesOK'
    BY <1>1, <1>3, <1>4 DEF TablesOK
<1>6. Published' = {} /\ Reviewed' = {}
    BY <1>3 DEF Published, Reviewed, Draft, Envelope
<1>7. TableInv'
    BY <1>3, <1>4, <1>6 DEF TableInv, PublishedTogether, BasesPublished, LinearHistory, DigestsMatch,
                            Draft, Envelope, None
<1>8. \A e \in Caller : tx[e].op = "NONE"
    BY <1>1, Domains DEF TypeOK, Exists, Idle
<1> QED BY <1>1, <1>3, <1>5, <1>7, <1>8, Ends DEF Create, Serial

\* A draft copied from a revision, for CreateDraft and Restore alike.
LEMMA DraftStep ==
    ASSUME Inv, NEW c \in Caller, NEW r \in Nat, CreateDraft(c, r) \/ Restore(c, r)
    PROVE  Inv'
<1> USE DEF Inv
<1>1. HeadFree /\ Exists(r) /\ Allocate(revisions[r].document, requests) /\ End(c)
    BY DEF CreateDraft, Restore
<1>2. revisions[r].document \in Document /\ requests \in Seq(ChangeRequest)
      /\ Len(revisions) \in Nat
    BY <1>1, Domains DEF Exists, Revision, TablesOK
<1>3. TablesOK' /\ TableInv' /\ Len(revisions') = Len(revisions) + 1
    BY <1>1, <1>2, Allocates
<1> QED BY <1>1, <1>2, <1>3, Alone, Ends

\* A recreated draft: the compare-and-set finds the request still open.
LEMMA RecreateStep ==
    ASSUME Inv, NEW c \in Caller, CommitRecreate(c)
    PROVE  /\ Inv' /\ Len(revisions') = Len(revisions) + 1
           /\ revisions'[Len(revisions')].document = tx[c].document
           /\ \A q \in 1..Len(revisions) : revisions'[q] = revisions[q] /\
                 (q # tx[c].revision => requests'[q] = requests[q])
<1> DEFINE r == tx[c].revision
<1> DEFINE wrapped == Finished(r, "CLOSED")
<1> USE DEF Inv
<1>1. /\ tx[c].op = "RECREATE" /\ IsOpen(r) /\ tx[c].document \in Document
      /\ Allocate(tx[c].document, wrapped) /\ End(c)
    BY DEF CommitRecreate, StillOpen, TxInv, Fits
<1>2. r \in 1..Len(revisions) /\ Len(revisions) \in Nat
    BY <1>1, Domains DEF TypeOK, Exists, Idle
<1>3. /\ wrapped \in Seq(ChangeRequest) /\ Len(wrapped) = Len(requests)
      /\ \A q \in 1..Len(requests) :
            /\ wrapped[q].base = requests[q].base
            /\ q # r => wrapped[q] = requests[q]
            /\ \A status \in {"PUBLISHED", "NONE"} :
                   wrapped[q].status = status <=> requests[q].status = status
    BY <1>1, <1>2, Closing
<1> HIDE DEF wrapped, r
<1>4. /\ TablesOK' /\ TableInv' /\ Len(revisions') = Len(revisions) + 1
      /\ revisions'[Len(revisions')].document = tx[c].document
      /\ \A q \in 1..Len(revisions) : revisions'[q] = revisions[q] /\ requests'[q] = wrapped[q]
    BY <1>1, <1>3, Allocates
<1>5. Inv'
    BY <1>1, <1>2, <1>4, Alone, Ends DEF Serial
<1>6. Len(requests) = Len(revisions)
    BY DEF TablesOK
<1> QED BY <1>3, <1>4, <1>5, <1>6 DEF r

\* An edit changes a draft, and no published revision.
LEMMA EditStep ==
    ASSUME Inv, NEW c \in Caller, CommitEdit(c)
    PROVE  /\ Inv' /\ revisions[tx[c].revision].status = "DRAFT"
           /\ \A q \in 1..Len(revisions) : q # tx[c].revision => revisions'[q] = revisions[q]
<1> DEFINE r == tx[c].revision
<1> DEFINE row == [revisions[r] EXCEPT !.document = tx[c].document, !.version = @ + 1]
<1> USE DEF Inv
<1>1. /\ tx[c].op = "EDIT" /\ tx[c].document \in Document /\ revisions[r].status = "DRAFT"
      /\ revisions' = [revisions EXCEPT ![r] = row]
      /\ End(c) /\ UNCHANGED <<head, requests>>
    BY DEF CommitEdit, TxInv, Fits
<1>2. r \in 1..Len(revisions) /\ Len(revisions) \in Nat /\ revisions[r] \in Revision
    BY <1>1, Domains DEF TypeOK, Exists, Idle
<1>3. row \in Revision /\ row.status = "DRAFT"
  <2>1. revisions[r].version + 1 \in Nat \ {0}
    BY <1>2 DEF Revision
  <2>2. row = [revisions[r] EXCEPT !.document = tx[c].document,
                                   !.version = revisions[r].version + 1]
    OBVIOUS
  <2> HIDE DEF Inv, r, row
  <2>3. revisions[r].version + 1 \in Nat \ {0} => row \in Revision /\ row.status = "DRAFT"
    BY <1>1, <1>2, <2>2 DEF Revision
  <2> QED BY <2>1, <2>3
<1>4. revisions \in Seq(Revision)
    BY DEF TablesOK
<1> HIDE DEF r, row
<1>5. /\ revisions' \in Seq(Revision) /\ Len(revisions') = Len(revisions)
      /\ \A q \in 1..Len(revisions) : revisions'[q] = IF q = r THEN row ELSE revisions[q]
  <2> HIDE DEF Inv
  <2> QED BY <1>1, <1>2, <1>3, <1>4, ExceptSeq
<1>6. TablesOK'
    BY <1>1, <1>5 DEF TablesOK
<1>7. /\ DOMAIN revisions = 1..Len(revisions) /\ DOMAIN revisions' = 1..Len(revisions)
      /\ DOMAIN requests = 1..Len(revisions)
    BY <1>5, Domains, LenProperties
<1>8. Published' = Published
    BY <1>1, <1>3, <1>5, <1>7 DEF Published
<1>9. TableInv'
    BY <1>1, <1>3, <1>5, <1>7, <1>8
    DEF TableInv, PublishedTogether, BasesPublished, LinearHistory, DigestsMatch, Published, Reviewed
<1>10. Inv'
    BY <1>1, <1>2, <1>5, <1>6, <1>9, Alone, Ends DEF Serial
<1> QED BY <1>1, <1>5, <1>10 DEF r

\* A publication: the draft replaces the head at the end of the line, and its digest is
\* that of the document still in the row.
LEMMA PublishStep ==
    ASSUME Inv, NEW c \in Caller, CommitPublish(c)
    PROVE  /\ Inv' /\ IsOpen(tx[c].revision)
           /\ \A q \in 1..Len(revisions) : q # tx[c].revision =>
                 revisions'[q] = revisions[q] /\ requests'[q] = requests[q]
<1> DEFINE r == tx[c].revision
<1> DEFINE row == [revisions[r] EXCEPT !.status = "PUBLISHED", !.digest = tx[c].document]
<1> DEFINE request == [requests[r] EXCEPT !.status = "PUBLISHED"]
<1> USE DEF Inv
<1>1. /\ tx[c].op = "PUBLISH" /\ tx[c].document \in Valid /\ revisions[r].status = "DRAFT"
      /\ tx[c].document = revisions[r].document
      /\ requests[r].base = head.published /\ IsOpen(r)
      /\ revisions' = [revisions EXCEPT ![r] = row]
      /\ requests' = [requests EXCEPT ![r] = request]
      /\ head' = [published |-> r, generation |-> head.generation + 1]
      /\ End(c)
    BY DEF CommitPublish, Finished, TxInv, Fits, CurrentBase, StillOpen
<1>2. /\ r \in 1..Len(revisions) /\ Len(revisions) \in Nat /\ Len(requests) = Len(revisions)
      /\ revisions[r] \in Revision /\ requests[r] \in ChangeRequest
    BY <1>1, Domains DEF TypeOK, Exists, Idle, TablesOK
<1>3. /\ row \in Revision /\ row.status = "PUBLISHED"
      /\ row.document = tx[c].document /\ row.digest = tx[c].document
      /\ request \in ChangeRequest /\ request.status = "PUBLISHED" /\ request.base = head.published
    BY <1>1, <1>2, CatalogAssumption DEF Revision, ChangeRequest
<1>4. revisions \in Seq(Revision) /\ requests \in Seq(ChangeRequest)
    BY DEF TablesOK
<1>5. r \notin Published /\ r \notin Reviewed /\ r # 0
    BY <1>1, <1>2 DEF Published, Reviewed, IsOpen
<1> HIDE DEF r, row, request
<1>6. /\ revisions' \in Seq(Revision) /\ Len(revisions') = Len(revisions)
      /\ \A q \in 1..Len(revisions) : revisions'[q] = IF q = r THEN row ELSE revisions[q]
  <2> HIDE DEF Inv
  <2> QED BY <1>1, <1>2, <1>3, <1>4, ExceptSeq
<1>7. /\ requests' \in Seq(ChangeRequest) /\ Len(requests') = Len(requests)
      /\ \A q \in 1..Len(requests) : requests'[q] = IF q = r THEN request ELSE requests[q]
  <2> HIDE DEF Inv
  <2> QED BY <1>1, <1>2, <1>3, <1>4, ExceptSeq
<1>8. head' \in [published : 0..MaxRevision, generation : Nat]
      /\ head'.published = r /\ head'.generation > 0
    BY <1>1, <1>2, CatalogAssumption DEF TablesOK
<1>9. TablesOK'
    BY <1>2, <1>6, <1>7, <1>8 DEF TablesOK
<1>10. /\ DOMAIN revisions = 1..Len(revisions) /\ DOMAIN revisions' = 1..Len(revisions)
       /\ DOMAIN requests = 1..Len(revisions) /\ DOMAIN requests' = 1..Len(revisions)
    BY <1>2, <1>6, <1>7, Domains, LenProperties
<1>11. Published' = Published \cup {r} /\ Reviewed' = Reviewed \cup {r}
    BY <1>2, <1>3, <1>6, <1>7, <1>10 DEF Published, Reviewed
<1>12. /\ \A q \in DOMAIN requests : requests'[q].base = requests[q].base /\ requests[q].base # r
       /\ requests[r].base = head.published
       /\ head.published \in Published \cup {None}
       /\ head.published \in Reviewed => head.published < r
  <2>1. \A q \in DOMAIN requests : requests'[q].base = requests[q].base
    BY <1>1, <1>2, <1>3, <1>7, <1>10
  <2>2. \A q \in DOMAIN requests : requests[q].base # r
    BY <1>5 DEF TableInv, BasesPublished, None
  <2>3. head.published \in Reviewed => head.published < r
    BY <1>1, <1>2, <1>10 DEF TableInv, BasesPublished
  <2> QED BY <1>1, <2>1, <2>2, <2>3 DEF TableInv, LinearHistory
<1>16. LinearHistory'
  <2>1. Reviewed \subseteq DOMAIN requests /\ r \in DOMAIN requests
    BY <1>2, <1>10 DEF Reviewed
  <2>2. \A q \in Reviewed : requests[q].base # head.published
    BY DEF TableInv, LinearHistory
  <2>3. head'.published = r
    BY <1>8
  <2>4. ASSUME NEW q \in Reviewed'
        PROVE  /\ requests'[q].base \in Published' \cup {None}
               /\ requests'[q].base # head'.published
               /\ requests'[q].base \in Reviewed' => requests'[q].base < q
               /\ \A p \in Reviewed' : requests'[p].base = requests'[q].base => p = q
               /\ q # head'.published => \E p \in Reviewed' : requests'[p].base = q
    <3>1. CASE q = r
        BY <3>1, <1>5, <1>11, <1>12, <2>1, <2>2, <2>3 DEF None
    <3>2. CASE q # r
      <4>1. q \in Reviewed
        BY <3>2, <1>11
      <4>2. /\ requests'[q].base \in Published' \cup {None}
            /\ requests'[q].base # head'.published
            /\ requests'[q].base \in Reviewed' => requests'[q].base < q
        BY <4>1, <1>11, <1>12, <2>1, <2>3 DEF TableInv, LinearHistory
      <4>3. \A p \in Reviewed' : requests'[p].base = requests'[q].base => p = q
        BY <4>1, <1>11, <1>12, <2>1, <2>2 DEF TableInv, LinearHistory
      <4>4. \E p \in Reviewed' : requests'[p].base = q
        <5>1. CASE q = head.published
            BY <5>1, <1>11, <1>12, <2>1
        <5>2. CASE q # head.published
            BY <5>2, <4>1, <1>11, <1>12, <2>1 DEF TableInv, LinearHistory
        <5> QED BY <5>1, <5>2
      <4> QED BY <4>2, <4>3, <4>4
    <3> QED BY <3>1, <3>2
  <2>5. head'.published \in Published' /\ head'.published # None
    BY <1>5, <1>11, <2>3 DEF None
  <2> QED BY <2>4, <2>5 DEF LinearHistory
<1>13. PublishedTogether'
    BY <1>2, <1>3, <1>6, <1>7, <1>10 DEF TableInv, PublishedTogether
<1>14. BasesPublished'
    BY <1>10, <1>11, <1>12 DEF TableInv, BasesPublished
<1>15. DigestsMatch'
    BY <1>1, <1>3, <1>6, <1>10, <1>11 DEF TableInv, DigestsMatch, Published
<1>18. TableInv'
    BY <1>16, <1>13, <1>14, <1>15 DEF TableInv
<1>17. Inv'
    BY <1>1, <1>2, <1>6, <1>9, <1>18, Alone, Ends DEF Serial
<1> QED BY <1>1, <1>2, <1>6, <1>7, <1>17 DEF r

\* A closing changes the status of one open request and nothing else.
LEMMA CloseStep ==
    ASSUME Inv, NEW c \in Caller, CommitClose(c)
    PROVE  /\ Inv' /\ IsOpen(tx[c].revision) /\ revisions' = revisions
           /\ \A q \in 1..Len(revisions) : q # tx[c].revision => requests'[q] = requests[q]
<1> DEFINE r == tx[c].revision
<1> USE DEF Inv
<1>1. /\ tx[c].op = "CLOSE" /\ IsOpen(r) /\ requests' = Finished(r, "CLOSED")
      /\ End(c) /\ UNCHANGED <<head, revisions>>
    BY DEF CommitClose, StillOpen
<1>2. /\ r \in 1..Len(revisions) /\ Len(revisions) \in Nat /\ Len(requests) = Len(revisions)
    BY <1>1, Domains DEF TypeOK, Exists, Idle, TablesOK
<1> HIDE DEF r
<1>3. /\ requests' \in Seq(ChangeRequest) /\ Len(requests') = Len(requests)
      /\ \A q \in 1..Len(requests) :
            /\ requests'[q].base = requests[q].base
            /\ q # r => requests'[q] = requests[q]
            /\ \A status \in {"PUBLISHED", "NONE"} :
                   requests'[q].status = status <=> requests[q].status = status
    BY <1>1, <1>2, Closing
<1>4. TablesOK'
    BY <1>1, <1>3 DEF TablesOK
<1>5. /\ DOMAIN revisions = 1..Len(revisions) /\ DOMAIN requests = 1..Len(revisions)
      /\ DOMAIN requests' = 1..Len(revisions)
    BY <1>2, <1>3, Domains, LenProperties
<1>6. /\ Published' = Published /\ Reviewed' = Reviewed /\ Reviewed \subseteq 1..Len(requests)
      /\ PublishedTogether' /\ BasesPublished' /\ DigestsMatch'
  <2>1. Published' = Published /\ Reviewed' = Reviewed /\ Reviewed \subseteq 1..Len(requests)
    BY <1>1, <1>2, <1>3, <1>5 DEF Published, Reviewed
  <2> QED BY <1>1, <1>2, <1>3, <1>5, <2>1
          DEF TableInv, PublishedTogether, BasesPublished, DigestsMatch
<1>7. LinearHistory'
    BY <1>1, <1>3, <1>6, LineKept DEF TableInv
<1>8. \A e \in Caller \ {c} : tx[e].op \in Serial => Fits(tx[e])'
  <2> SUFFICES ASSUME NEW e \in Caller \ {c}, tx[e].op \in Serial, tx'[e] = tx[e]
               PROVE  Fits(tx[e])'
    BY <1>1 DEF End, TypeOK
  <2>1. tx[e].op = "PUBLISH" => tx[e].revision \in 1..Len(revisions)
    BY Domains DEF TypeOK, Exists, Idle
  <2> QED BY <1>1, <1>2, <1>3, <2>1 DEF TxInv, Fits, CurrentBase
<1> QED BY <1>1, <1>2, <1>3, <1>4, <1>6, <1>7, <1>8, Ends DEF TableInv, r

\* A call that ends without touching the tables.
LEMMA QuietEnd ==
    ASSUME Inv, NEW c \in Caller, End(c), UNCHANGED <<head, revisions, requests>>
    PROVE  Inv'
<1> USE DEF Inv
<1>1. TablesOK' /\ TableInv'
    BY DEF TablesOK, TableInv, PublishedTogether, BasesPublished, LinearHistory, DigestsMatch,
           Published, Reviewed
<1>2. \A e \in Caller \ {c} : Fits(tx[e])'
  <2> SUFFICES ASSUME NEW e \in Caller \ {c}, tx'[e] = tx[e]
               PROVE  Fits(tx[e])'
    BY DEF End, TypeOK
  <2> QED BY DEF TxInv, Fits, CurrentBase
<1> QED BY <1>1, <1>2, Domains, Ends

\* Reading changes the reader's page only, to what the tables hold.
LEMMA Reads ==
    ASSUME Inv, NEW c \in Caller, NEW r \in Nat, ReadHead(c) \/ ReadDraft(c, r)
    PROVE  Inv'
<1> USE DEF Inv
<1>0. UNCHANGED <<head, revisions, requests, tx>>
    BY DEF ReadHead, ReadDraft
<1>1. page' \in [Caller -> Page]
  <2>1. page \in [Caller -> Page] /\ page[c] \in Page
    BY DEF TypeOK
  <2>2. CASE ReadHead(c)
    BY <2>1, <2>2 DEF ReadHead, Page, TablesOK
  <2>3. CASE ReadDraft(c, r)
    <3>1. r \in 0..MaxRevision /\ revisions[r] \in Revision
        BY <2>3, Domains, CatalogAssumption DEF ReadDraft, Exists, TablesOK
    <3>2. revisions[r].version \in Nat /\ revisions[r].document \in Document \cup {Unsigned}
        BY <3>1 DEF Revision
    <3> HIDE DEF Inv
    <3> QED BY <2>1, <2>3, <3>1, <3>2 DEF ReadDraft, Page
  <2> QED BY <2>2, <2>3
<1> QED BY <1>0, <1>1 DEF TypeOK, TablesOK, OneSerial, TxInv, Fits, CurrentBase, TableInv,
        PublishedTogether, BasesPublished, LinearHistory, DigestsMatch, Published, Reviewed, Exists

\* The beginnings: what a call checks under the lock is what Fits records.
LEMMA Beginnings ==
    ASSUME Inv, NEW c \in Caller, NEW r \in Nat,
           \/ BeginRecreate(c, r) \/ BeginPublish(c, r)
           \/ \E d \in Document : BeginEdit(c, r, d)
           \/ BeginClose(c, r) \/ BeginPrepare(c)
    PROVE  Inv'
<1> USE DEF Inv
<1>0. /\ Exists(r) => r \in 1..Len(revisions) /\ revisions[r].document \in Document
      /\ UNCHANGED <<head, revisions, requests>>
    BY Domains DEF Exists, Revision, BeginRecreate, BeginEdit, BeginPublish, BeginClose,
                   BeginPrepare, Begin
<1>1. CASE BeginRecreate(c, r)
    BY <1>0, <1>1, Begins DEF BeginRecreate, SameDraft, Fits
<1>2. CASE \E d \in Document : BeginEdit(c, r, d)
    BY <1>0, <1>2, Begins DEF BeginEdit, SameDraft, Fits
<1>3. CASE BeginPublish(c, r)
    BY <1>0, <1>3, Begins DEF BeginPublish, SameDraft, Fits
<1>4. CASE BeginClose(c, r)
    BY <1>0, <1>4, Begins DEF BeginClose, Fits
<1>5. CASE BeginPrepare(c)
  <2>1. head.published \in 1..Len(revisions) /\ head.published = page[c].head.published
    BY <1>5, Domains DEF BeginPrepare, TablesOK, None
  <2> QED BY <1>5, <2>1, Begins DEF BeginPrepare, Fits
<1> QED BY <1>1, <1>2, <1>3, <1>4, <1>5
-----------------------------------------------------------------------------
(* The theorems.                                                           *)

OldRows == {Release(d) : d \in Valid} \cup {Draft(d) : d \in Document}

\* Tables that the bootstrap or the migration leaves: nothing in them is reviewed yet, and
\* what is published has no base.
LEMMA InheritedTables ==
    ASSUME NEW n \in 1..MaxInherited, NEW p \in 0..n,
           head = [published |-> p, generation |-> 1],
           revisions \in [1..n -> OldRows],
           \/ p \in 1..n /\ revisions[p].status = "PUBLISHED"
           \/ p = 0 /\ \A r \in 1..n : revisions[r].status = "DRAFT",
           requests = [r \in 1..n |-> requests[r]],
           \A r \in 1..n : requests[r] = IF revisions[r].status = "DRAFT"
                                        THEN Envelope("OPEN", p) ELSE Envelope("NONE", None)
    PROVE  TablesOK /\ TableInv
<1>1. n \in Nat /\ MaxRevision \in Nat /\ n <= MaxRevision /\ p \in 0..MaxRevision /\ None = 0
    BY CatalogAssumption DEF None
<1>2. \A r \in 1..n : /\ revisions[r] \in Revision
                      /\ \/ /\ revisions[r].status = "PUBLISHED"
                            /\ revisions[r].document \in Valid
                            /\ revisions[r].digest = revisions[r].document
                         \/ revisions[r].status = "DRAFT"
  <2> SUFFICES ASSUME NEW r \in 1..n, revisions[r] \in OldRows
               PROVE  /\ revisions[r] \in Revision
                      /\ \/ /\ revisions[r].status = "PUBLISHED"
                            /\ revisions[r].document \in Valid
                            /\ revisions[r].digest = revisions[r].document
                         \/ revisions[r].status = "DRAFT"
    OBVIOUS
  <2>1. CASE \E d \in Valid : revisions[r] = Release(d)
    BY <2>1, CatalogAssumption DEF Release, Revision
  <2>2. CASE \E d \in Document : revisions[r] = Draft(d)
    BY <2>2, CatalogAssumption DEF Draft, Revision
  <2> QED BY <2>1, <2>2 DEF OldRows
<1>3. \A r \in 1..n : /\ requests[r] \in ChangeRequest
                      /\ revisions[r].status = "DRAFT" =>
                            requests[r].status = "OPEN" /\ requests[r].base = p
                      /\ revisions[r].status # "DRAFT" =>
                            requests[r].status = "NONE" /\ requests[r].base = 0
    BY <1>1 DEF Envelope, ChangeRequest
<1>4. /\ DOMAIN revisions = 1..n /\ revisions \in Seq(Revision) /\ Len(revisions) = n
      /\ requests \in Seq(ChangeRequest) /\ Len(requests) = n
  <2>1. revisions \in [1..n -> Revision] /\ requests \in [1..n -> ChangeRequest]
    BY <1>2, <1>3
  <2>2. ASSUME NEW S, NEW f \in [1..n -> S]
        PROVE  DOMAIN f = 1..n /\ f \in Seq(S) /\ Len(f) = n
    <3>1. f \in Seq(S)
        BY <1>1, SeqDef
    <3>2. Len(f) \in Nat /\ 1..Len(f) = 1..n
        BY <3>1, LenProperties
    <3> QED BY <1>1, <3>1, <3>2
  <2> QED BY <2>1, <2>2
<1>5. TablesOK
    BY <1>1, <1>4 DEF TablesOK
<1>6. Reviewed = {} /\ p \in Published \cup {0} /\ (p = 0 => Published = {})
  <2>1. Reviewed = {}
    BY <1>3, <1>4, LenProperties DEF Reviewed
  <2>2. p \in Published \cup {0} /\ (p = 0 => Published = {})
    BY <1>1, <1>4 DEF Published
  <2> QED BY <2>1, <2>2
<1>7. PublishedTogether
    BY <1>2, <1>3, <1>4 DEF PublishedTogether
<1>8. BasesPublished /\ LinearHistory
    BY <1>1, <1>2, <1>3, <1>4, <1>6 DEF BasesPublished, LinearHistory
<1>9. DigestsMatch
    BY <1>2, <1>4 DEF DigestsMatch, Published
<1> QED BY <1>5, <1>7, <1>8, <1>9 DEF TableInv

\* The initial tables, absent, bootstrapped or migrated, satisfy the invariant.
LEMMA InitInv == Init => Inv
<1> SUFFICES ASSUME Init PROVE Inv
    OBVIOUS
<1>1. /\ page \in [Caller -> Page] /\ tx \in [Caller -> Transaction]
      /\ \A c \in Caller : tx[c] = Idle
    BY DefaultsType DEF Init
<1>2. OneSerial /\ TxInv
    BY <1>1 DEF OneSerial, TxInv, Fits, Idle, Serial
<1>3. TablesOK /\ TableInv
  <2>1. CASE Absent
    <3>1. /\ revisions \in Seq(Revision) /\ requests \in Seq(ChangeRequest)
          /\ Len(revisions) = 0 /\ Len(requests) = 0
          /\ DOMAIN revisions = {} /\ DOMAIN requests = {} /\ Published = {} /\ Reviewed = {}
          /\ head.published = 0 /\ head.generation = 0
        BY <2>1 DEF Absent, None, Published, Reviewed
    <3>2. head \in [published : 0..MaxRevision, generation : Nat]
        BY <2>1, CatalogAssumption DEF Absent, None
    <3> QED BY <3>1, <3>2, CatalogAssumption
            DEF TablesOK, TableInv, PublishedTogether, BasesPublished, LinearHistory, DigestsMatch, None
  <2>2. CASE Bootstrapped
    <3>1. PICK n \in 1..MaxInherited :
             /\ head = [published |-> n, generation |-> 1]
             /\ revisions \in [1..n -> {Release(d) : d \in Valid}]
             /\ requests = [r \in 1..n |-> Envelope("NONE", None)]
        BY <2>2 DEF Bootstrapped
    <3>2. n \in Nat /\ n \in 1..n
        BY CatalogAssumption
    <3>3. \A r \in 1..n : revisions[r].status = "PUBLISHED"
        BY <3>1 DEF Release
    <3>4. revisions \in [1..n -> OldRows]
        BY <3>1 DEF OldRows
    <3> QED BY <3>1, <3>2, <3>3, <3>4, InheritedTables DEF None
  <2>3. CASE Migrated
    <3>1. PICK n \in 1..MaxInherited, p \in 0..MaxInherited :
             /\ head = [published |-> p, generation |-> 1]
             /\ revisions \in [1..n -> OldRows]
             /\ \/ p \in 1..n /\ revisions[p].status = "PUBLISHED"
                \/ p = None /\ \A r \in 1..n : revisions[r].status = "DRAFT"
             /\ requests = [r \in 1..n |-> IF revisions[r].status = "DRAFT"
                                           THEN Envelope("OPEN", p) ELSE Envelope("NONE", None)]
        BY <2>3 DEF Migrated, OldRows
    <3>2. \A r \in 1..n : requests[r] = IF revisions[r].status = "DRAFT"
                                        THEN Envelope("OPEN", p) ELSE Envelope("NONE", None)
        BY <3>1
    <3> QED BY <3>1, <3>2, InheritedTables DEF None
  <2> QED BY <2>1, <2>2, <2>3 DEF Init
<1>4. TypeOK
    BY <1>1, <1>3 DEF TypeOK, TablesOK
<1> QED BY <1>2, <1>3, <1>4 DEF Inv

\* Every step preserves the invariant.
LEMMA NextInv == Inv /\ [Next]_vars => Inv'
<1> SUFFICES ASSUME Inv, [Next]_vars PROVE Inv'
    OBVIOUS
<1>1. CASE UNCHANGED vars
    BY <1>1 DEF vars, Inv, TypeOK, TablesOK, OneSerial, TxInv, Fits, CurrentBase, TableInv,
                PublishedTogether, BasesPublished, LinearHistory, DigestsMatch, Published, Reviewed, Exists
<1>2. ASSUME NEW c \in Caller,
             \/ ReadHead(c) \/ BeginPrepare(c) \/ Commit(c) \/ Abort(c)
             \/ \E d \in Document : Create(c, d)
             \/ \E r \in 1..MaxRevision :
                   \/ ReadDraft(c, r) \/ CreateDraft(c, r) \/ Restore(c, r) \/ BeginRecreate(c, r)
                   \/ BeginPublish(c, r) \/ BeginClose(c, r)
                   \/ \E d \in Document : BeginEdit(c, r, d)
      PROVE  Inv'
  <2>1. CASE ReadHead(c) \/ \E r \in 1..MaxRevision : ReadDraft(c, r)
    BY <2>1, Reads
  <2>2. CASE \E d \in Document : Create(c, d)
    BY <2>2, CreateStep
  <2>3. CASE \E r \in 1..MaxRevision : CreateDraft(c, r) \/ Restore(c, r)
    BY <2>3, DraftStep
  <2>4. CASE \E r \in 1..MaxRevision : \/ BeginRecreate(c, r) \/ BeginPublish(c, r)
                                        \/ BeginClose(c, r)
                                        \/ \E d \in Document : BeginEdit(c, r, d)
    BY <2>4, Beginnings
  <2>5. CASE BeginPrepare(c)
    BY <2>5, 0 \in Nat, Beginnings
  <2>6. CASE Commit(c)
    BY <2>6, RecreateStep, EditStep, PublishStep, CloseStep, QuietEnd DEF Commit, CommitPrepare
  <2>7. CASE Abort(c)
    BY <2>7, QuietEnd DEF Abort
  <2> QED BY <1>2, <2>1, <2>2, <2>3, <2>4, <2>5, <2>6, <2>7
<1> QED BY <1>1, <1>2 DEF Next

\* The invariant holds throughout.
THEOREM CatalogInvariant == Spec => []Inv
BY InitInv, NextInv, PTL DEF Spec

\* Every table, page and open transaction keeps its type (TypeOK).
THEOREM CatalogTypeCorrect == Spec => []TypeOK
<1>1. Inv => TypeOK
    BY DEF Inv
<1> QED BY <1>1, CatalogInvariant, PTL

\* However calls interleave, publications form one line that ends in the head (publish).
THEOREM HistoryIsLinear == Spec => []LinearHistory
<1>1. Inv => LinearHistory
    BY DEF Inv, TableInv
<1> QED BY <1>1, CatalogInvariant, PTL

\* snapshot() never meets a published document that its digest or validation refuses.
THEOREM DigestsAlwaysMatch == Spec => []DigestsMatch
<1>1. Inv => DigestsMatch
    BY DEF Inv, TableInv
<1> QED BY <1>1, CatalogInvariant, PTL

\* A revision and its change request are published together (publish with _finish).
THEOREM PublishedWithItsRequest == Spec => []PublishedTogether
<1>1. Inv => PublishedTogether
    BY DEF Inv, TableInv
<1> QED BY <1>1, CatalogInvariant, PTL

\* Finished change requests and published revisions are left alone by every call: the
\* compare-and-set of _finish, and an edit's condition on the status of the draft.
THEOREM FinishedIsFinal == Spec => FinalRequests
<1> DEFINE Final == \A r \in DOMAIN requests :
                       /\ requests[r].status \in {"PUBLISHED", "CLOSED"} => requests'[r] = requests[r]
                       /\ revisions[r].status = "PUBLISHED" => revisions'[r] = revisions[r]
<1>1. Inv /\ [Next]_vars => [Final]_vars
  <2> SUFFICES ASSUME Inv, Next PROVE Final
    OBVIOUS
  <2>1. DOMAIN requests = 1..Len(revisions)
    BY Domains DEF Inv
  <2>2. ASSUME UNCHANGED <<revisions, requests>> PROVE Final
    BY <2>2
  <2>3. ASSUME NEW c \in Caller, NEW r \in Nat, CreateDraft(c, r) \/ Restore(c, r) PROVE Final
    <3>1. /\ Allocate(revisions[r].document, requests) /\ requests \in Seq(ChangeRequest)
          /\ revisions[r].document \in Document
        BY <2>3, Domains DEF CreateDraft, Restore, Exists, Inv, TablesOK, Revision
    <3>2. \A q \in 1..Len(revisions) : revisions'[q] = revisions[q] /\ requests'[q] = requests[q]
        BY <3>1, Allocates
    <3> QED BY <2>1, <3>2
  <2>4. ASSUME NEW c \in Caller, NEW d \in Document, Create(c, d) PROVE Final
    BY <2>1, <2>4 DEF Create, Inv, TablesOK
  <2>5. ASSUME NEW c \in Caller, CommitRecreate(c) PROVE Final
    <3>1. IsOpen(tx[c].revision)
        BY <2>5 DEF CommitRecreate, StillOpen
    <3> QED BY <2>1, <2>5, <3>1, RecreateStep DEF IsOpen
  <2>6. ASSUME NEW c \in Caller, CommitEdit(c) PROVE Final
    BY <2>1, <2>6, EditStep DEF CommitEdit
  <2>7. ASSUME NEW c \in Caller, CommitPublish(c) PROVE Final
    <3>1. revisions[tx[c].revision].status = "DRAFT"
        BY <2>7 DEF Inv, TxInv, Fits, CommitPublish
    <3> QED BY <2>1, <2>7, <3>1, PublishStep DEF IsOpen
  <2>8. ASSUME NEW c \in Caller, CommitClose(c) PROVE Final
    BY <2>1, <2>8, CloseStep DEF IsOpen
  <2> HIDE DEF Final
  <2>9. ASSUME NEW c \in Caller, Commit(c) PROVE Final
    BY <2>2, <2>5, <2>6, <2>7, <2>8, <2>9 DEF Commit, CommitPrepare
  <2>10. ASSUME NEW c \in Caller, NEW r \in 1..MaxRevision,
                \/ ReadDraft(c, r) \/ BeginRecreate(c, r) \/ BeginPublish(c, r) \/ BeginClose(c, r)
                \/ \E d \in Document : BeginEdit(c, r, d)
         PROVE  Final
    BY <2>2, <2>10 DEF ReadDraft, BeginRecreate, BeginPublish, BeginClose, BeginEdit, Begin
  <2>11. ASSUME NEW c \in Caller, ReadHead(c) \/ BeginPrepare(c) \/ Abort(c) PROVE Final
    BY <2>2, <2>11 DEF ReadHead, BeginPrepare, Begin, Abort
  <2> QED BY <2>3, <2>4, <2>9, <2>10, <2>11 DEF Next
<1> QED BY <1>1, CatalogInvariant, PTL DEF Spec, FinalRequests

\* A recreation that copies a draft copies what the superseded draft holds: an edit would
\* have had to wait for the head (recreate).
THEOREM RecreationKeepsWork == Spec => SupersededWorkIsKept
<1> DEFINE Kept == \A c \in Caller :
                      EndsBy(c, "RECREATE") /\ Len(revisions') > Len(revisions) =>
                         revisions'[Len(revisions')].document = revisions[tx[c].revision].document
<1>1. Inv /\ [Next]_vars => [Kept]_vars
  <2> SUFFICES ASSUME Inv, Next, NEW c \in Caller, EndsBy(c, "RECREATE"),
                      Len(revisions') > Len(revisions)
               PROVE  revisions'[Len(revisions')].document = revisions[tx[c].revision].document
    OBVIOUS
  <2>1. tx[c].op = "RECREATE" /\ tx'[c] # tx[c] /\ tx[c].document = revisions[tx[c].revision].document
    BY DEF EndsBy, Inv, TxInv, Fits, Idle
  <2>2. ~(Len(revisions) > Len(revisions)) /\ revisions' # revisions
    BY Domains DEF Inv
  <2> HIDE DEF Inv
  <2>3. PICK e \in Caller : \/ Commit(e)
                            \/ \E d \in Document : Create(e, d)
                            \/ \E r \in 1..MaxRevision : CreateDraft(e, r) \/ Restore(e, r)
    <3>1. \A e \in Caller : ReadHead(e) \/ BeginPrepare(e) \/ Abort(e) => revisions' = revisions
        BY DEF ReadHead, BeginPrepare, Begin, Abort
    <3>2. \A e \in Caller, r \in 1..MaxRevision :
             \/ ReadDraft(e, r) \/ BeginRecreate(e, r) \/ BeginPublish(e, r) \/ BeginClose(e, r)
             \/ \E d \in Document : BeginEdit(e, r, d)
             => revisions' = revisions
        BY DEF ReadDraft, BeginRecreate, BeginPublish, BeginClose, BeginEdit, Begin
    <3> QED BY <2>2, <3>1, <3>2 DEF Next
  <2>4. End(e)
    BY <2>3 DEF Commit, CommitRecreate, CommitEdit, CommitPublish, CommitClose, CommitPrepare,
                Create, CreateDraft, Restore
  <2>5. e = c
    BY <2>1, <2>4 DEF End, Inv, TypeOK
  <2>6. CommitRecreate(c)
    BY <2>1, <2>3, <2>5 DEF Commit, CommitRecreate, CommitEdit, CommitPublish, CommitClose,
                            CommitPrepare, Create, CreateDraft, Restore, Idle
  <2> QED BY <2>1, <2>6, RecreateStep
<1> QED BY <1>1, CatalogInvariant, PTL DEF Spec, SupersededWorkIsKept

\* The revision a preparation pinned stays the published one until its transaction ends:
\* a publication would have had to wait for the head (prepare).
THEOREM PreparationsPinTheHead == Spec => PreparedOnPublished
<1> DEFINE Pinned == \A c \in Caller : EndsBy(c, "PREPARE") => tx[c].revision = head.published
<1>1. Inv => Pinned
    BY DEF Inv, TxInv, Fits, EndsBy
<1> QED BY <1>1, CatalogInvariant, PTL DEF PreparedOnPublished
-----------------------------------------------------------------------------
(* What callers have seen.                                                 *)

\* What the page of c shows of the head is the present head or an older one, and what it
\* shows of a draft the present content or that of an older version.
PageInv(c) ==
    LET p == page[c] IN
    /\ p.head.generation <= head.generation
    /\ p.head.generation = head.generation => p.head = head
    /\ p.revision # None =>
          /\ Exists(p.revision)
          /\ p.version <= revisions[p.revision].version
          /\ p.version = revisions[p.revision].version =>
                p.document = revisions[p.revision].document

\* The versions a call has compared under the lock still are those of the tables.
ComparedInv(c) ==
    /\ tx[c].op \in {"RECREATE", "PUBLISH"} => page[c].head.generation = head.generation
    /\ tx[c].op \in {"EDIT", "PUBLISH"} =>
          /\ page[c].revision = tx[c].revision /\ tx[c].revision # None
          /\ page[c].version = revisions[tx[c].revision].version

Seen == \A c \in Caller : PageInv(c) /\ ComparedInv(c)

\* The head and the rows go forward: what has changed has a greater version.
Forward ==
    /\ head' = head \/ head'.generation > head.generation
    /\ \A r \in DOMAIN revisions :
          /\ Exists(r)'
          /\ \/ /\ revisions'[r].version = revisions[r].version
                /\ revisions'[r].document = revisions[r].document
             \/ revisions'[r].version > revisions[r].version

\* The end of a call leaves what the others have seen as it was, or older.
LEMMA EndKeepsSeen ==
    ASSUME Inv, Inv', Seen, NEW c \in Caller, End(c), Forward,
           \/ UNCHANGED <<head, revisions>>
           \/ \A e \in Caller \ {c} : tx[e].op \notin Serial
    PROVE  Seen'
<1>1. /\ head.generation \in Nat /\ head'.generation \in Nat
      /\ \A r \in DOMAIN revisions : revisions[r].version \in Nat /\ revisions[r].version > 0
      /\ \A r \in DOMAIN revisions' : revisions'[r].version \in Nat
      /\ \A e \in Caller : page[e].version \in Nat /\ page[e].head.generation \in Nat
  <2>1. TablesOK /\ TablesOK' /\ page \in [Caller -> Page]
      BY DEF Inv, TypeOK
  <2>2. /\ \A r \in DOMAIN revisions : revisions[r] \in Revision
        /\ \A r \in DOMAIN revisions' : revisions'[r] \in Revision
        /\ head \in [published : 0..MaxRevision, generation : Nat]
        /\ head' \in [published : 0..MaxRevision, generation : Nat]
      BY <2>1, ElementOfSeq, LenProperties DEF TablesOK
  <2> QED BY <2>1, <2>2 DEF Revision, Page
<1>2. \A e \in Caller : /\ page'[e] = IF e = c THEN Blank ELSE page[e]
                        /\ tx'[e] = IF e = c THEN Idle ELSE tx[e]
    BY DEF End, Inv, TypeOK
<1> SUFFICES ASSUME NEW e \in Caller PROVE PageInv(e)' /\ ComparedInv(e)'
    BY DEF Seen
<1>3. CASE e = c
  <2>1. head'.generation = 0 => head'.published = 0
      BY DEF Inv, TablesOK
  <2>2. head' = [published |-> head'.published, generation |-> head'.generation]
      BY DEF Inv, TablesOK
  <2> QED BY <1>1, <1>2, <1>3, <2>1, <2>2 DEF PageInv, ComparedInv, Blank, Idle, None
<1>4. CASE e # c
  <2>1. PageInv(e)'
      BY <1>1, <1>2, <1>4 DEF Seen, PageInv, Forward, Exists
  <2>2. ComparedInv(e)'
      BY <1>1, <1>2, <1>4 DEF Seen, ComparedInv, Serial
  <2> QED BY <2>1, <2>2
<1> QED BY <1>3, <1>4

\* A page that reads anew shows what is there.
LEMMA ReadSees ==
    ASSUME Inv, Seen, NEW c \in Caller, NEW r \in Nat, ReadHead(c) \/ ReadDraft(c, r)
    PROVE  Seen'
<1>1. /\ UNCHANGED <<head, revisions, tx>> /\ tx[c] = Idle
      /\ page \in [Caller -> Page] /\ page[c] \in Page
      /\ head.generation \in Nat
    BY DEF ReadHead, ReadDraft, Inv, TypeOK
<1>2. \A e \in Caller \ {c} : page'[e] = page[e]
    BY <1>1 DEF ReadHead, ReadDraft
<1>3. ComparedInv(c)'
    BY <1>1 DEF ComparedInv, Idle
<1>4. PageInv(c)'
  <2>1. CASE ReadHead(c)
    <3>1. /\ page'[c].head = head /\ page'[c].revision = page[c].revision
          /\ page'[c].version = page[c].version /\ page'[c].document = page[c].document
        BY <1>1, <2>1 DEF ReadHead, Page
    <3> QED BY <1>1, <3>1 DEF Seen, PageInv, Exists
  <2>2. CASE ReadDraft(c, r)
    <3>1. /\ page'[c].head = page[c].head /\ page'[c].revision = r
          /\ page'[c].version = revisions[r].version
          /\ page'[c].document = revisions[r].document /\ Exists(r)
        BY <1>1, <2>2 DEF ReadDraft, Page
    <3>2. revisions[r].version \in Nat
        BY <3>1, Domains DEF Inv, Exists, Revision
    <3> QED BY <1>1, <3>1, <3>2 DEF Seen, PageInv, Exists
  <2> QED BY <2>1, <2>2
<1>5. ASSUME NEW e \in Caller \ {c} PROVE PageInv(e)' /\ ComparedInv(e)'
    BY <1>1, <1>2 DEF Seen, PageInv, ComparedInv, Exists
<1> QED BY <1>3, <1>4, <1>5 DEF Seen

\* A call begins by comparing the versions its page carries.
LEMMA BeginSees ==
    ASSUME Inv, Seen, NEW c \in Caller, NEW r \in Nat,
           \/ BeginRecreate(c, r) \/ BeginPublish(c, r)
           \/ \E d \in Document : BeginEdit(c, r, d)
           \/ BeginClose(c, r) \/ BeginPrepare(c)
    PROVE  Seen'
<1>1. /\ UNCHANGED <<head, revisions, page>> /\ tx \in [Caller -> Transaction]
      /\ \A e \in Caller \ {c} : tx'[e] = tx[e]
    BY DEF BeginRecreate, BeginPublish, BeginEdit, BeginClose, BeginPrepare, Begin, Inv, TypeOK
<1>2. \A e \in Caller : PageInv(e)'
    BY <1>1 DEF Seen, PageInv, Exists
<1>3. \A e \in Caller \ {c} : ComparedInv(e)'
    BY <1>1 DEF Seen, ComparedInv
<1>4. ComparedInv(c)'
  <2>1. Exists(r) => r # None
      BY Domains DEF Inv, Exists, None
  <2>2. CASE BeginRecreate(c, r)
      BY <1>1, <2>2 DEF BeginRecreate, Begin, ComparedInv, SameGeneration
  <2>3. CASE BeginPublish(c, r)
      BY <1>1, <2>1, <2>3 DEF BeginPublish, Begin, ComparedInv, SameGeneration, SameDraft
  <2>4. CASE \E d \in Document : BeginEdit(c, r, d)
      BY <1>1, <2>1, <2>4 DEF BeginEdit, Begin, ComparedInv, SameDraft
  <2>5. CASE BeginClose(c, r) \/ BeginPrepare(c)
      BY <1>1, <2>5 DEF BeginClose, BeginPrepare, Begin, ComparedInv
  <2> QED BY <2>2, <2>3, <2>4, <2>5
<1> QED BY <1>2, <1>3, <1>4 DEF Seen

\* A caller that ends with the generation of the present head on its page has seen it.
LEMMA SawTheHead ==
    ASSUME Inv, Seen, NEW c \in Caller, End(c), head.generation > 0,
           page[c].head.generation = head.generation
    PROVE  tx'[c] = Idle /\ page'[c] # page[c] /\ page[c].head = head
<1>1. tx'[c] = Idle /\ page'[c] = Blank
    BY DEF End, Inv, TypeOK
<1>2. page[c].head = head /\ head.generation # 0
    BY DEF Seen, PageInv
<1> QED BY <1>1, <1>2 DEF Blank

\* New drafts leave the rows alone, and are allocated by callers who saw the head.
LEMMA GrowthSees ==
    ASSUME Inv, Seen, NEW c \in Caller,
           \/ \E d \in Document : Create(c, d)
           \/ \E r \in 1..MaxRevision : CreateDraft(c, r) \/ Restore(c, r)
           \/ CommitRecreate(c)
    PROVE  /\ Seen' /\ \A r \in DOMAIN revisions : revisions'[r] = revisions[r]
           /\ End(c) /\ (head.generation > 0 => page[c].head.generation = head.generation)
<1>1. /\ DOMAIN revisions = 1..Len(revisions) /\ Len(revisions) \in Nat
      /\ head \in [published : 0..MaxRevision, generation : Nat]
    BY Domains DEF Inv, TablesOK
<1>2. ASSUME NEW d \in Document, Create(c, d)
      PROVE  /\ Inv' /\ DOMAIN revisions = {} /\ head.generation = 0
             /\ head'.generation > head.generation
             /\ \A e \in Caller \ {c} : tx[e].op \notin Serial
  <2>1. Inv'
      BY <1>2, CreateStep
  <2>2. Len(revisions) = 0 /\ head.generation = 0 /\ head'.generation = 1
      BY <1>1, <1>2 DEF Create, Inv, TablesOK
  <2>3. \A e \in Caller : tx[e].op = "NONE"
      BY <1>1, <2>2 DEF Inv, TypeOK, Exists, Idle
  <2> QED BY <1>1, <2>1, <2>2, <2>3 DEF Serial
<1>3. ASSUME NEW r \in 1..MaxRevision, CreateDraft(c, r) \/ Restore(c, r)
      PROVE  /\ Inv' /\ head'.generation > head.generation
             /\ \A q \in DOMAIN revisions : revisions'[q] = revisions[q] /\ Exists(q)'
             /\ \A e \in Caller \ {c} : tx[e].op \notin Serial
             /\ page[c].head.generation = head.generation
  <2>1. /\ HeadFree /\ Exists(r) /\ Allocate(revisions[r].document, requests)
        /\ page[c].head.generation = head.generation
      BY <1>3 DEF CreateDraft, Restore, SameGeneration
  <2>2. revisions[r].document \in Document /\ requests \in Seq(ChangeRequest)
      BY <2>1, Domains DEF Exists, Revision, Inv, TablesOK
  <2>3. /\ TablesOK' /\ Len(revisions') = Len(revisions) + 1
        /\ \A q \in 1..Len(revisions) : revisions'[q] = revisions[q]
      BY <2>1, <2>2, Allocates
  <2>4. \A q \in DOMAIN revisions : Exists(q)'
      BY <1>1, <2>3, LenProperties DEF TablesOK, Exists
  <2>5. head'.generation > head.generation
      BY <1>1, <2>1 DEF Allocate
  <2>6. Inv'
      BY <1>3, DraftStep
  <2> QED BY <1>1, <2>1, <2>3, <2>4, <2>5, <2>6, Alone
<1>4. ASSUME CommitRecreate(c)
      PROVE  /\ Inv' /\ head'.generation > head.generation
             /\ \A q \in DOMAIN revisions : revisions'[q] = revisions[q] /\ Exists(q)'
             /\ \A e \in Caller \ {c} : tx[e].op \notin Serial
             /\ page[c].head.generation = head.generation
  <2>1. /\ Inv' /\ Len(revisions') = Len(revisions) + 1
        /\ \A q \in 1..Len(revisions) : revisions'[q] = revisions[q]
      BY <1>4, RecreateStep
  <2>2. \A q \in DOMAIN revisions : Exists(q)'
      BY <1>1, <2>1, LenProperties DEF Inv, TablesOK, Exists
  <2>3. head'.generation > head.generation
      BY <1>1, <1>4 DEF CommitRecreate, Allocate
  <2>4. page[c].head.generation = head.generation /\ tx[c].op \in Serial
      BY <1>4 DEF CommitRecreate, Seen, ComparedInv, Serial
  <2> QED BY <1>1, <2>1, <2>2, <2>3, <2>4, Alone
<1>5. End(c)
    BY DEF Create, CreateDraft, Restore, CommitRecreate
<1>6. /\ Inv' /\ head'.generation > head.generation
      /\ \A q \in DOMAIN revisions : revisions'[q] = revisions[q] /\ Exists(q)'
      /\ \A e \in Caller \ {c} : tx[e].op \notin Serial
      /\ head.generation > 0 => page[c].head.generation = head.generation
    BY <1>1, <1>2, <1>3, <1>4
<1>7. Forward
    BY <1>6 DEF Forward
<1> QED BY <1>5, <1>6, <1>7, EndKeepsSeen

\* An edit raises the version of the one row it changes, whose document it had seen.
LEMMA EditSees ==
    ASSUME Inv, Seen, NEW c \in Caller, CommitEdit(c)
    PROVE  /\ Seen' /\ End(c) /\ tx[c].op = "EDIT"
           /\ \A r \in DOMAIN revisions : revisions'[r].status = revisions[r].status
           /\ \A r \in DOMAIN revisions \ {tx[c].revision} : revisions'[r] = revisions[r]
           /\ page[c].document = revisions[tx[c].revision].document
<1> DEFINE q == tx[c].revision
<1>1. /\ tx[c].op = "EDIT" /\ End(c) /\ UNCHANGED head
      /\ revisions' = [revisions EXCEPT ![q].document = tx[c].document, ![q].version = @ + 1]
    BY DEF CommitEdit
<1>2. Inv' /\ \A e \in Caller \ {c} : tx[e].op \notin Serial
    BY <1>1, EditStep, Alone DEF Serial
<1>3. q \in DOMAIN revisions /\ revisions[q] \in Revision
    BY <1>1, Domains DEF Inv, TypeOK, Exists, Idle
<1>4. revisions[q].version \in Nat
    BY <1>3 DEF Revision
<1> HIDE DEF q
<1>5. /\ revisions'[q].version = revisions[q].version + 1
      /\ revisions'[q].status = revisions[q].status /\ DOMAIN revisions' = DOMAIN revisions
      /\ \A r \in DOMAIN revisions \ {q} : revisions'[r] = revisions[r]
    BY <1>1, <1>3 DEF Revision
<1>6. Forward
    BY <1>1, <1>4, <1>5 DEF Forward, Exists
<1>7. page[c].document = revisions[q].document
    BY <1>1 DEF Seen, PageInv, ComparedInv, q
<1> QED BY <1>1, <1>2, <1>5, <1>6, <1>7, EndKeepsSeen DEF q

\* A publication changes no document, and publishes the one its caller had seen.
LEMMA PublicationSees ==
    ASSUME Inv, Seen, NEW c \in Caller, CommitPublish(c)
    PROVE  /\ Seen' /\ End(c) /\ tx[c].op = "PUBLISH"
           /\ page[c].head.generation = head.generation
           /\ \A r \in DOMAIN revisions : revisions'[r].document = revisions[r].document
           /\ \A r \in DOMAIN revisions \ {tx[c].revision} : revisions'[r] = revisions[r]
           /\ page[c].document = revisions[tx[c].revision].document
<1> DEFINE q == tx[c].revision
<1>1. /\ tx[c].op = "PUBLISH" /\ End(c)
      /\ head' = [published |-> q, generation |-> head.generation + 1]
      /\ revisions' = [revisions EXCEPT ![q].status = "PUBLISHED", ![q].digest = tx[c].document]
    BY DEF CommitPublish
<1>2. Inv' /\ \A e \in Caller \ {c} : tx[e].op \notin Serial
    BY <1>1, PublishStep, Alone DEF Serial
<1>3. q \in DOMAIN revisions /\ revisions[q] \in Revision
    BY <1>1, Domains DEF Inv, TypeOK, Exists, Idle
<1>4. head'.generation > head.generation
    BY <1>1 DEF Inv, TablesOK
<1> HIDE DEF q
<1>5. /\ revisions'[q].version = revisions[q].version
      /\ revisions'[q].document = revisions[q].document /\ DOMAIN revisions' = DOMAIN revisions
      /\ \A r \in DOMAIN revisions \ {q} : revisions'[r] = revisions[r]
    BY <1>1, <1>3 DEF Revision
<1>6. Forward
    BY <1>4, <1>5 DEF Forward, Exists
<1>7. page[c].head.generation = head.generation /\ page[c].document = revisions[q].document
    BY <1>1 DEF Seen, PageInv, ComparedInv, q
<1> QED BY <1>1, <1>2, <1>5, <1>6, <1>7, EndKeepsSeen DEF q

\* The action of ActsOnWhatWasSeen.
Acted ==
    \A r \in DOMAIN revisions :
        /\ revisions'[r].status # revisions[r].status =>
              \E c \in Caller : EndsBy(c, "PUBLISH") /\ page[c].document = revisions'[r].document
        /\ revisions'[r].document # revisions[r].document =>
              \E c \in Caller : EndsBy(c, "EDIT") /\ page[c].document = revisions[r].document

\* The action of HeadMovesAsSeen.
HeadMoved ==
    head # head' /\ head.generation > 0 =>
        \E c \in Caller : tx'[c] = Idle /\ page'[c] # page[c] /\ page[c].head = head

\* Every step keeps what callers have seen, and acts on it.
LEMMA StepSees ==
    ASSUME Inv, Seen, [Next]_vars
    PROVE  Seen' /\ Acted /\ HeadMoved
<1>1. ASSUME UNCHANGED <<head, revisions>> PROVE Acted /\ HeadMoved
    BY <1>1 DEF Acted, HeadMoved
<1>2. CASE UNCHANGED vars
    BY <1>1, <1>2 DEF vars, Seen, PageInv, ComparedInv, Exists
<1>3. ASSUME NEW c \in Caller, NEW r \in Nat, ReadHead(c) \/ ReadDraft(c, r)
      PROVE  Seen' /\ Acted /\ HeadMoved
    BY <1>1, <1>3, ReadSees DEF ReadHead, ReadDraft
<1>4. ASSUME NEW c \in Caller, NEW r \in Nat,
             \/ BeginRecreate(c, r) \/ BeginPublish(c, r)
             \/ \E d \in Document : BeginEdit(c, r, d)
             \/ BeginClose(c, r) \/ BeginPrepare(c)
      PROVE  Seen' /\ Acted /\ HeadMoved
  <2>1. UNCHANGED <<head, revisions>>
      BY <1>4 DEF BeginRecreate, BeginPublish, BeginEdit, BeginClose, BeginPrepare, Begin
  <2> QED BY <1>1, <1>4, <2>1, BeginSees
<1>5. ASSUME NEW c \in Caller, CommitClose(c) \/ CommitPrepare(c) \/ Abort(c)
      PROVE  Seen' /\ Acted /\ HeadMoved
  <2>1. End(c) /\ UNCHANGED <<head, revisions>>
      BY <1>5 DEF CommitClose, CommitPrepare, Abort
  <2>2. Inv'
      BY <1>5, CloseStep, QuietEnd DEF CommitPrepare, Abort
  <2>3. Forward
      BY <2>1 DEF Forward, Exists
  <2> QED BY <1>1, <2>1, <2>2, <2>3, EndKeepsSeen
<1>6. ASSUME NEW c \in Caller,
             \/ \E d \in Document : Create(c, d)
             \/ \E r \in 1..MaxRevision : CreateDraft(c, r) \/ Restore(c, r)
             \/ CommitRecreate(c)
      PROVE  Seen' /\ Acted /\ HeadMoved
  <2>1. /\ Seen' /\ \A r \in DOMAIN revisions : revisions'[r] = revisions[r]
        /\ End(c) /\ (head.generation > 0 => page[c].head.generation = head.generation)
      BY <1>6, GrowthSees
  <2> QED BY <2>1, SawTheHead DEF Acted, HeadMoved
<1>7. ASSUME NEW c \in Caller, CommitEdit(c)
      PROVE  Seen' /\ Acted /\ HeadMoved
  <2>1. EndsBy(c, "EDIT") /\ UNCHANGED head
      BY <1>7, EditSees DEF EndsBy, End, CommitEdit, Inv, TypeOK
  <2> QED BY <1>7, <2>1, EditSees DEF Acted, HeadMoved
<1>8. ASSUME NEW c \in Caller, CommitPublish(c)
      PROVE  Seen' /\ Acted /\ HeadMoved
  <2>1. EndsBy(c, "PUBLISH")
      BY <1>8, PublicationSees DEF EndsBy, End, Inv, TypeOK
  <2>2. Acted
      BY <1>8, <2>1, PublicationSees DEF Acted
  <2>3. HeadMoved
      BY <1>8, PublicationSees, SawTheHead DEF HeadMoved
  <2> QED BY <1>8, <2>2, <2>3, PublicationSees
<1>9. ASSUME Next PROVE Seen' /\ Acted /\ HeadMoved
  <2>1. PICK c \in Caller :
           \/ ReadHead(c) \/ BeginPrepare(c) \/ Commit(c) \/ Abort(c)
           \/ \E d \in Document : Create(c, d)
           \/ \E r \in 1..MaxRevision :
                 \/ ReadDraft(c, r) \/ CreateDraft(c, r) \/ Restore(c, r) \/ BeginRecreate(c, r)
                 \/ BeginPublish(c, r) \/ BeginClose(c, r)
                 \/ \E d \in Document : BeginEdit(c, r, d)
      BY <1>9 DEF Next
  <2> QED BY <2>1, 0 \in Nat, <1>3, <1>4, <1>5, <1>6, <1>7, <1>8 DEF Commit
<1> QED BY <1>2, <1>9

\* At first nobody has seen anything.
LEMMA InitSees == Init => Seen
<1> SUFFICES ASSUME Init, NEW c \in Caller PROVE PageInv(c) /\ ComparedInv(c)
    BY DEF Seen
<1>1. page[c] = Blank /\ tx[c] = Idle /\ (head = Blank.head \/ head.generation = 1)
    BY DEF Init, Absent, Bootstrapped, Migrated, Blank
<1> QED BY <1>1 DEF PageInv, ComparedInv, Blank, Idle

\* The invariant of the pages holds throughout.
LEMMA PagesInvariant == Spec => [](Inv /\ Seen)
<1>1. Inv /\ Seen /\ [Next]_vars => Inv' /\ Seen'
    BY NextInv, StepSees
<1> QED BY InitInv, InitSees, <1>1, PTL DEF Spec

\* What becomes published, and what an edit replaces, is what its author had on the page,
\* for any number of administrators with pages of any age (the expected draft version).
THEOREM ActsOnThePage == Spec => ActsOnWhatWasSeen
<1>1. Inv /\ Seen /\ [Next]_vars => [Acted]_vars
    BY StepSees
<1> QED BY <1>1, PagesInvariant, PTL DEF Spec, ActsOnWhatWasSeen, Acted

\* The head only moves for a caller who had the present head on the page (the expected
\* generation): of any number of calls prepared from one page, at most one moves it.
THEOREM HeadMovesOncePerPage == Spec => HeadMovesAsSeen
<1>1. Inv /\ Seen /\ [Next]_vars => [HeadMoved]_vars
    BY StepSees
<1> QED BY <1>1, PagesInvariant, PTL DEF Spec, HeadMovesAsSeen, HeadMoved
=============================================================================
