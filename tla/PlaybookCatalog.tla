-------------------------- MODULE PlaybookCatalog --------------------------
(***************************************************************************)
(* The versioned playbook of one action: its head, its revisions and the   *)
(* change requests around the drafts, changed by administrators and read   *)
(* by the preparation of offers, each call in its own database transaction *)
(* (READ COMMITTED).                                                       *)
(*                                                                         *)
(* A call carries the versions its caller's page showed.  The calls in     *)
(* Serial wait for the head row and hold it to the end, so they read heads *)
(* and revisions that nobody else changes.  Closing does not take the      *)
(* head: a serial call may find the change request it read finished when   *)
(* it comes to write.  Where that can happen a call is two steps:          *)
(* Begin..., up to its checks, and Commit..., from its conditional UPDATE  *)
(* of the change request on (which keeps others off the row until COMMIT,  *)
(* hence one step); the other calls are one action.  Abort stands for a    *)
(* lost condition, a failed audit write or a crash.                        *)
(***************************************************************************)
EXTENDS Naturals, FiniteSets, Sequences, SequencesExt

CONSTANTS
    Caller,         \* administrators and preparing agents, one call at a time each
    Document,       \* contents of a definition
    Valid,          \* those validate_definition accepts
    Unsigned,       \* the digest of a draft (NULL)
    MaxRevision,    \* bound: revisions ever allocated
    MaxInherited,   \* bound: revisions bundled, or older than change requests
    MaxEdits        \* bound: edits ever made

ASSUME CatalogAssumption ==
    /\ Valid \subseteq Document /\ Unsigned \notin Document
    /\ MaxRevision \in Nat \ {0} /\ MaxInherited \in 0..MaxRevision /\ MaxEdits \in Nat

VARIABLES
    head,           \* admin.playbooks: published revision, generation
    revisions,      \* admin.playbook_revisions, by revision number
    requests,       \* admin.playbook_change_requests, by the revision they wrap
    page,           \* what each caller has read outside of a transaction
    tx              \* each caller's open transaction

vars == <<head, revisions, requests, page, tx>>
-----------------------------------------------------------------------------
None == 0           \* no revision; generation 0 stands for no playbook row

Idle == [op |-> "NONE", revision |-> None, document |-> Unsigned]

Blank == [head     |-> [published |-> None, generation |-> 0],
          revision |-> None,
          version  |-> 0,
          document |-> Unsigned]

Draft(document) ==
    [status |-> "DRAFT", document |-> document, version |-> 1, digest |-> Unsigned]

Release(document) ==
    [status |-> "PUBLISHED", document |-> document, version |-> 1, digest |-> document]

\* A revision published before there were change requests has none, and no base; "NONE"
\* keeps the place.
Envelope(status, base) == [status |-> status, base |-> base]

Absent ==
    /\ head = [published |-> None, generation |-> 0]
    /\ revisions = <<>>
    /\ requests = <<>>

\* Every bundled version is published, the latest is the head.
Bootstrapped ==
    \E n \in 1..MaxInherited :
       /\ head = [published |-> n, generation |-> 1]
       /\ revisions \in [1..n -> {Release(d) : d \in Valid}]
       /\ requests = [r \in 1..n |-> Envelope("NONE", None)]

\* A catalog that was edited before there were change requests, when a publication
\* compared no base: any published revision may be the head, whatever its number.  The
\* migration wraps each draft it finds, on the head of that day.  (The versions and the
\* generation are only ever compared with themselves; here they start at 1.)
Migrated ==
    \E n \in 1..MaxInherited, p \in 0..MaxInherited :
       /\ head = [published |-> p, generation |-> 1]
       /\ revisions \in [1..n -> {Release(d) : d \in Valid} \cup {Draft(d) : d \in Document}]
       /\ \/ p \in 1..n /\ revisions[p].status = "PUBLISHED"
          \/ p = None /\ \A r \in 1..n : revisions[r].status = "DRAFT"
       /\ requests = [r \in 1..n |-> IF revisions[r].status = "DRAFT"
                                     THEN Envelope("OPEN", p) ELSE Envelope("NONE", None)]

Init ==
    /\ Absent \/ Bootstrapped \/ Migrated
    /\ page = [c \in Caller |-> Blank]
    /\ tx = [c \in Caller |-> Idle]

Exists(r) == r \in DOMAIN revisions
-----------------------------------------------------------------------------
(* Reading, outside of the transactions that change anything.  A page is   *)
(* put together from several statements: the head apart from the draft.    *)

ReadHead(c) ==
    /\ tx[c] = Idle /\ head.generation > 0
    /\ page' = [page EXCEPT ![c].head = head]
    /\ UNCHANGED <<head, revisions, requests, tx>>

IsOpen(r) == requests[r].status = "OPEN"

\* The pages of finished requests offer none of the calls that need one.
ReadDraft(c, r) ==
    /\ tx[c] = Idle /\ Exists(r) /\ IsOpen(r)
    /\ page' = [page EXCEPT ![c].revision = r,
                            ![c].version  = revisions[r].version,
                            ![c].document = revisions[r].document]
    /\ UNCHANGED <<head, revisions, requests, tx>>
-----------------------------------------------------------------------------
(* Locks and conditions.                                                   *)

Serial_exceptEdits == {"RECREATE", "PUBLISH", "PREPARE"}    \* mutation: edits take no lock
Serial_exceptPrepare == {"RECREATE", "EDIT", "PUBLISH"}     \* mutation: nor preparations
\* The calls of two steps that take the head row FOR UPDATE.
Serial == {"RECREATE", "EDIT", "PUBLISH", "PREPARE"}

HeadFree == \A c \in Caller : tx[c].op \notin Serial

Begin(c, op, r, document) ==
    /\ tx[c] = Idle
    /\ op \in Serial => HeadFree
    /\ tx' = [tx EXCEPT ![c] = [op |-> op, revision |-> r, document |-> document]]
    /\ UNCHANGED <<head, revisions, requests, page>>

\* A second submission from the same page is that of another caller with an equal page.
End(c) ==
    /\ tx' = [tx EXCEPT ![c] = Idle]
    /\ page' = [page EXCEPT ![c] = Blank]

SameGeneration_any(c) == TRUE                    \* mutation: no expected generation
SameGeneration(c) == page[c].head.generation = head.generation

SameDraft_anyVersion(c, r) ==                    \* mutation: no expected draft version
    page[c].revision = r /\ revisions[r].status = "DRAFT"
SameDraft(c, r) ==
    /\ page[c].revision = r
    /\ revisions[r].status = "DRAFT"
    /\ revisions[r].version = page[c].version

CurrentBase_any(r) == TRUE                       \* mutation: behind requests are published
CurrentBase(r) == requests[r].base = head.published

StillOpen_any(r) == TRUE                         \* mutation: no compare-and-set on OPEN
\* The status condition of _finish; the table's trigger repeats it.
StillOpen(r) == IsOpen(r)

Finished(r, status) == [requests EXCEPT ![r].status = status]

Allocate_unwrapped(document, wrapped) ==         \* mutation: a draft without a request
    /\ Len(revisions) < MaxRevision
    /\ head' = [head EXCEPT !.generation = @ + 1]
    /\ revisions' = Append(revisions, Draft(document))
    /\ requests' = wrapped
\* A new draft on the present head, with its change request around it.
Allocate(document, wrapped) ==
    /\ Len(revisions) < MaxRevision
    /\ head' = [head EXCEPT !.generation = @ + 1]
    /\ revisions' = Append(revisions, Draft(document))
    /\ requests' = Append(wrapped, Envelope("OPEN", head.published))
-----------------------------------------------------------------------------
(* Creation, and drafts from published revisions.                          *)

\* A second creation fails on the primary key.
Create(c, d) ==
    /\ tx[c] = Idle /\ head.generation = 0
    /\ head' = [head EXCEPT !.generation = 1]
    /\ revisions' = <<Draft(d)>>
    /\ requests' = <<Envelope("OPEN", None)>>
    /\ End(c)

CreateDraft(c, r) ==
    /\ tx[c] = Idle /\ HeadFree /\ Exists(r)
    /\ head.published \in {None, r}
    /\ SameGeneration(c)
    /\ Allocate(revisions[r].document, requests)
    /\ End(c)

Restore(c, r) ==
    /\ tx[c] = Idle /\ HeadFree /\ Exists(r)
    /\ revisions[r].status = "PUBLISHED"
    /\ SameGeneration(c)
    /\ Allocate(revisions[r].document, requests)
    /\ End(c)

\* A draft left behind by a publication is copied onto the head, its request closed.
BeginRecreate(c, r) ==
    /\ Exists(r) /\ IsOpen(r) /\ SameDraft(c, r)
    /\ requests[r].base # head.published
    /\ SameGeneration(c)
    /\ Begin(c, "RECREATE", r, revisions[r].document)

CommitRecreate(c) ==
    LET r == tx[c].revision
    IN  /\ tx[c].op = "RECREATE" /\ StillOpen(r)
        /\ Allocate(tx[c].document, Finished(r, "CLOSED"))
        /\ End(c)
-----------------------------------------------------------------------------
(* Editing, publishing, finishing.                                         *)

Edits == FoldSeq(LAMBDA row, sum : sum + row.version - 1, 0, revisions)

\* The conditional UPDATE of the draft looks at its request without locking it.
BeginEdit(c, r, d) ==
    /\ Exists(r) /\ IsOpen(r) /\ SameDraft(c, r)
    /\ Edits < MaxEdits
    /\ Begin(c, "EDIT", r, d)

CommitEdit(c) ==
    LET r == tx[c].revision
    IN  /\ tx[c].op = "EDIT"
        /\ revisions' = [revisions EXCEPT ![r].document = tx[c].document,
                                          ![r].version = @ + 1]
        /\ End(c)
        /\ UNCHANGED <<head, requests>>

BeginPublish(c, r) ==
    /\ Exists(r) /\ IsOpen(r) /\ CurrentBase(r) /\ SameDraft(c, r)
    /\ revisions[r].document \in Valid
    /\ SameGeneration(c)
    /\ Begin(c, "PUBLISH", r, revisions[r].document)

\* The digest is that of the document read under the head lock.
CommitPublish(c) ==
    LET r == tx[c].revision
    IN  /\ tx[c].op = "PUBLISH" /\ StillOpen(r)
        /\ head' = [published |-> r, generation |-> head.generation + 1]
        /\ revisions' = [revisions EXCEPT ![r].status = "PUBLISHED",
                                          ![r].digest = tx[c].document]
        /\ requests' = Finished(r, "PUBLISHED")
        /\ End(c)

BeginClose(c, r) ==
    /\ Exists(r) /\ IsOpen(r)
    /\ Begin(c, "CLOSE", r, Unsigned)

CommitClose(c) ==
    LET r == tx[c].revision
    IN  /\ tx[c].op = "CLOSE" /\ StillOpen(r)
        /\ requests' = Finished(r, "CLOSED")
        /\ End(c)
        /\ UNCHANGED <<head, revisions>>
-----------------------------------------------------------------------------
(* Preparation of offers; the offer itself is ActionProposal's.            *)

\* A fresh preparation pins the revision its snapshot showed, if it still is published.
BeginPrepare(c) ==
    /\ page[c].head.published # None
    /\ page[c].head.published = head.published
    /\ Begin(c, "PREPARE", page[c].head.published, Unsigned)

CommitPrepare(c) ==
    /\ tx[c].op = "PREPARE"
    /\ End(c)
    /\ UNCHANGED <<head, revisions, requests>>

Abort(c) ==
    /\ tx[c] # Idle
    /\ End(c)
    /\ UNCHANGED <<head, revisions, requests>>

Commit(c) ==
    \/ CommitRecreate(c) \/ CommitEdit(c) \/ CommitPublish(c)
    \/ CommitClose(c) \/ CommitPrepare(c)

Next ==
    \E c \in Caller :
       \/ ReadHead(c) \/ BeginPrepare(c) \/ Commit(c) \/ Abort(c)
       \/ \E d \in Document : Create(c, d)
       \/ \E r \in 1..MaxRevision :
             \/ ReadDraft(c, r) \/ CreateDraft(c, r) \/ Restore(c, r) \/ BeginRecreate(c, r)
             \/ BeginPublish(c, r) \/ BeginClose(c, r)
             \/ \E d \in Document : BeginEdit(c, r, d)

Spec == Init /\ [][Next]_vars
-----------------------------------------------------------------------------
(* Properties.                                                             *)

Revision == [status : {"DRAFT", "PUBLISHED"}, document : Document,
             version : Nat \ {0}, digest : Document \cup {Unsigned}]

ChangeRequest == [status : {"NONE", "OPEN", "PUBLISHED", "CLOSED"}, base : 0..MaxRevision]

Page == [head : [published : 0..MaxRevision, generation : Nat], revision : 0..MaxRevision,
         version : Nat, document : Document \cup {Unsigned}]

Transaction == [op : {"NONE", "RECREATE", "EDIT", "PUBLISH", "PREPARE", "CLOSE"},
                revision : 0..MaxRevision, document : Document \cup {Unsigned}]

\* Rows, pages and transactions have the shape their tables and requests give them; each
\* revision has its change request, and an open transaction works on a row that exists.
TypeOK ==
    /\ head \in [published : 0..MaxRevision, generation : Nat]
    /\ revisions \in Seq(Revision) /\ requests \in Seq(ChangeRequest)
    /\ Len(revisions) = Len(requests) /\ Len(revisions) <= MaxRevision
    /\ head.published <= Len(revisions)
    /\ page \in [Caller -> Page]
    /\ tx \in [Caller -> Transaction]
    /\ \A c \in Caller : tx[c] # Idle => tx[c].op # "NONE" /\ Exists(tx[c].revision)

Published == {r \in DOMAIN revisions : revisions[r].status = "PUBLISHED"}

Reviewed == {r \in DOMAIN requests : requests[r].status = "PUBLISHED"}

\* Publications form one line that ends in the head (publish refuses BEHIND_HEAD): no two
\* replaced the same revision, none replaced the head, each but the head was replaced by
\* another, and the line has no circle; so it starts at one revision that came without a
\* review, or at none, and no publication silently undoes another.  The numbers do not
\* order it: a migrated draft may lie below its base.
LinearHistory ==
    /\ head.published \in Published \cup {None} /\ (head.published = None => Published = {})
    /\ \A r \in Reviewed :
          /\ requests[r].base \in Published \cup {None}
          /\ requests[r].base # head.published
          /\ requests[r].base \in Reviewed => requests[r].base < r
          /\ \A s \in Reviewed : requests[s].base = requests[r].base => s = r
          /\ r # head.published => \E s \in Reviewed : requests[s].base = r

\* A published document was accepted by validation, and its digest is its own: the
\* runtime's snapshot() recomputes it and would refuse the whole catalog.
DigestsMatch ==
    \A r \in Published : /\ revisions[r].document \in Valid
                         /\ revisions[r].digest = revisions[r].document

\* A revision and its change request are published together or not at all, even when a
\* closing, which does not wait for the head, runs in the middle of the publication.
PublishedTogether ==
    \A r \in DOMAIN revisions :
       revisions[r].status = "PUBLISHED" <=> requests[r].status \in {"PUBLISHED", "NONE"}

EndsBy(c, op) == tx[c].op = op /\ tx'[c] = Idle

\* What becomes published, and what an edit replaces, is the document its author had on
\* the page: no edit of somebody else slips under a publication or is overwritten.
ActsOnWhatWasSeen ==
    [][\A r \in DOMAIN revisions :
          /\ revisions'[r].status # revisions[r].status =>
                \E c \in Caller : EndsBy(c, "PUBLISH") /\ page[c].document = revisions'[r].document
          /\ revisions'[r].document # revisions[r].document =>
                \E c \in Caller : EndsBy(c, "EDIT") /\ page[c].document = revisions[r].document]_vars

\* The head and the list of revisions change only for a caller whose page showed the
\* present head: of two calls prepared from the same page one is refused.
HeadMovesAsSeen ==
    [][head # head' /\ head.generation > 0 =>
          \E c \in Caller : tx'[c] = Idle /\ page'[c] # page[c] /\ page[c].head = head]_vars

\* A published or closed change request is never changed again, nor is a published
\* revision: the late half of a race is refused instead.
FinalRequests ==
    [][\A r \in DOMAIN requests :
          /\ requests[r].status \in {"PUBLISHED", "CLOSED"} => requests'[r] = requests[r]
          /\ revisions[r].status = "PUBLISHED" => revisions'[r] = revisions[r]]_vars

\* A recreated draft carries the latest saved content of the one it supersedes: no edit
\* commits in between and stays behind in the closed request.
SupersededWorkIsKept ==
    [][\A c \in Caller : EndsBy(c, "RECREATE") /\ Len(revisions') > Len(revisions) =>
          revisions'[Len(revisions')].document = revisions[tx[c].revision].document]_vars

\* A preparation ends while the revision it pinned is still the published one.
PreparedOnPublished ==
    [][\A c \in Caller : EndsBy(c, "PREPARE") => tx[c].revision = head.published]_vars
=============================================================================
