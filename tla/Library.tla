------------------------------ MODULE Library ------------------------------
(***************************************************************************)
(* Uploaded files and the rows that name them: document requests and their *)
(* fulfilment, the knowledge base and its versions, the attachments of an  *)
(* opportunity.                                                            *)
(*                                                                         *)
(* An upload is on disk before the transaction that names it commits; a    *)
(* request that fails takes it off again, a process that dies does not.    *)
(* A request decides on the row it loaded before it received the file:     *)
(* the second SELECT of the same session gives it the same object back.    *)
(* What a client may send, and who may, is checked before all this.        *)
(***************************************************************************)
EXTENDS Rows, Naturals, FiniteSets

CONSTANTS
    File,          \* names that save_upload may choose
    DocRequest,    \* ids of document requests
    Doc,           \* ids of knowledge base documents
    Upload,        \* requests being served
    MaxDocuments   \* live attachments of one opportunity: 5

ASSUME LibraryAssumption == None \notin File \cup Doc /\ MaxDocuments \in Nat

VARIABLES
    disk,       \* the files in UPLOAD_DIR
    asked,      \* doc_requests
    shelf,      \* kb_documents
    attached,   \* the files of the live opp_documents of one opportunity
    upload,     \* what each request read and is about to write
    clobbered   \* a request wrote over rows that had changed since it read them

libraryVars == <<disk, asked, shelf, attached, upload, clobbered>>

Asked == [status : {"absent", "pending", "fulfilled", "declined"},
          file : File \cup {None}, reason : BOOLEAN]
KBDocument == [state : {"absent", "current", "archived", "deleted"},
               file : File \cup {None}, version : Nat,
               previous : Doc \cup {None}]

NotAsked == [status |-> "absent", file |-> None, reason |-> FALSE]
NoDoc == [state |-> "absent", file |-> None, version |-> 0, previous |-> None]
Free == [kind |-> "free", row |-> None, seen |-> None, file |-> None,
         toKb |-> FALSE]

Kinds == {"fulfil", "decline", "shelve", "revise", "unshelve", "attach"}

-----------------------------------------------------------------------------
(* save_upload: a fresh name.  None stands for a request without a file.   *)
Saved(f) == f # None => f \notin disk \cup {upload[k].file : k \in Upload}

Serve(k, r) ==
    /\ upload[k] = Free /\ Saved(r.file)
    /\ upload' = [upload EXCEPT ![k] = r]
    /\ disk' = disk \cup ({r.file} \ {None})
    /\ UNCHANGED <<asked, shelf, attached, clobbered>>

BeginFulfil(k, q, f, toKb) ==
    /\ asked[q].status # "absent"
    /\ Serve(k, [kind |-> "fulfil", row |-> q, seen |-> asked[q], file |-> f,
                 toKb |-> toKb])

BeginDecline(k, q) ==
    /\ asked[q].status = "pending"
    /\ Serve(k, [kind |-> "decline", row |-> q, seen |-> asked[q],
                 file |-> None, toKb |-> FALSE])

BeginShelve(k, f) ==
    Serve(k, [kind |-> "shelve", row |-> None, seen |-> None, file |-> f,
              toKb |-> TRUE])

(* update_kb_document with a new file, of a current version only.          *)
BeginRevise(k, d, f) ==
    /\ shelf[d].state = "current"
    /\ Serve(k, [kind |-> "revise", row |-> d, seen |-> shelf[d], file |-> f,
                 toKb |-> FALSE])

(* delete_kb_document; the file stays. *)
BeginUnshelve(k, d) ==
    /\ shelf[d].state \in {"current", "archived"}
    /\ Serve(k, [kind |-> "unshelve", row |-> d, seen |-> shelf[d],
                 file |-> None, toKb |-> FALSE])

(* upload_opp_document: the live attachments are counted after the upload. *)
BeginAttach(k, f) ==
    Serve(k, [kind |-> "attach", row |-> None, seen |-> attached, file |-> f,
              toKb |-> FALSE])

-----------------------------------------------------------------------------
Leave(k) == upload' = [upload EXCEPT ![k] = Free]

MutantUnlinked(r) == {r.file} \cup
    (IF r.kind \in {"fulfil", "revise"} THEN {r.seen.file} ELSE {})

(* delete_upload, which the route of an attachment does not call.          *)
Unlinked(r) == IF r.kind = "attach" THEN {} ELSE {r.file}

(* ALREADY_PROCESSED, MAX_DOCUMENTS_REACHED, or any exception.             *)
Refuse(k) ==
    /\ upload[k] # Free
    /\ disk' = disk \ Unlinked(upload[k])
    /\ Leave(k)
    /\ UNCHANGED <<asked, shelf, attached, clobbered>>

(* The process dies, or the commit fails after the route has returned.     *)
DropUpload(k) ==
    /\ upload[k] # Free /\ Leave(k)
    /\ UNCHANGED <<disk, asked, shelf, attached, clobbered>>

Shelved(f) == [state |-> "current", file |-> f, version |-> 1,
               previous |-> None]

Over(now, seen) == clobbered' = (clobbered \/ now # seen)

(* fulfill_doc_request, with its row of the knowledge base if asked for.   *)
CommitFulfil(k) ==
    LET r == upload[k] IN
    /\ r.kind = "fulfil" /\ r.seen.status = "pending"
    /\ asked' = [asked EXCEPT ![r.row] = Overlay(@, r.seen,
          [r.seen EXCEPT !.status = "fulfilled", !.file = r.file])]
    /\ IF r.toKb
       THEN \E d \in Doc : /\ shelf[d] = NoDoc
                           /\ shelf' = [shelf EXCEPT ![d] = Shelved(r.file)]
       ELSE UNCHANGED shelf
    /\ Over(asked[r.row], r.seen) /\ Leave(k)
    /\ UNCHANGED <<disk, attached>>

(* decline_doc_request *)
CommitDecline(k) ==
    LET r == upload[k] IN
    /\ r.kind = "decline"
    /\ asked' = [asked EXCEPT ![r.row] = Overlay(@, r.seen,
          [r.seen EXCEPT !.status = "declined", !.reason = TRUE])]
    /\ Over(asked[r.row], r.seen) /\ Leave(k)
    /\ UNCHANGED <<disk, shelf, attached>>

(* create_kb_document *)
CommitShelve(k) ==
    /\ upload[k].kind = "shelve"
    /\ \E d \in Doc : /\ shelf[d] = NoDoc
                      /\ shelf' = [shelf EXCEPT ![d] = Shelved(upload[k].file)]
    /\ Leave(k)
    /\ UNCHANGED <<disk, asked, attached, clobbered>>

MutantSnapshot(seen, file) == [seen EXCEPT !.state = "archived", !.file = file]

(* The outgoing version, as a row of its own. *)
Snapshot(seen, file) == [seen EXCEPT !.state = "archived"]

CommitRevise(k) ==
    LET r == upload[k] IN
    /\ r.kind = "revise"
    /\ \E old \in Doc :
          /\ shelf[old] = NoDoc
          /\ shelf' = [shelf EXCEPT
                ![old] = Snapshot(r.seen, r.file),
                ![r.row] = Overlay(shelf[r.row], r.seen,
                    [r.seen EXCEPT !.file = r.file, !.version = @ + 1,
                                   !.previous = old])]
    /\ Over(shelf[r.row], r.seen) /\ Leave(k)
    /\ UNCHANGED <<disk, asked, attached>>

CommitUnshelve(k) ==
    LET r == upload[k] IN
    /\ r.kind = "unshelve"
    /\ shelf' = [shelf EXCEPT ![r.row].state = "deleted"]
    /\ Over(shelf[r.row], r.seen) /\ Leave(k)
    /\ UNCHANGED <<disk, asked, attached>>

(* add_opp_document *)
CommitAttach(k) ==
    LET r == upload[k] IN
    /\ r.kind = "attach" /\ Cardinality(r.seen) < MaxDocuments
    /\ attached' = attached \cup {r.file}
    /\ Over(attached, r.seen) /\ Leave(k)
    /\ UNCHANGED <<disk, asked, shelf>>

(* remove_opp_document: the row goes, the file stays. *)
Detach(f) ==
    /\ f \in attached /\ attached' = attached \ {f}
    /\ UNCHANGED <<disk, asked, shelf, upload, clobbered>>

(* create_doc_request *)
AskFor(q) ==
    /\ asked[q].status = "absent"
    /\ asked' = [asked EXCEPT ![q].status = "pending"]
    /\ UNCHANGED <<disk, shelf, attached, upload, clobbered>>

-----------------------------------------------------------------------------
LibraryInit ==
    /\ disk = {} /\ attached = {} /\ clobbered = FALSE
    /\ asked = [q \in DocRequest |-> NotAsked]
    /\ shelf = [d \in Doc |-> NoDoc]
    /\ upload = [k \in Upload |-> Free]

Receive(k) ==
    \/ \E f \in File :
          \/ BeginShelve(k, f) \/ BeginAttach(k, f)
          \/ \E d \in Doc : BeginRevise(k, d, f)
          \/ \E q \in DocRequest, toKb \in BOOLEAN : BeginFulfil(k, q, f, toKb)
    \/ \E q \in DocRequest : BeginDecline(k, q)
    \/ \E d \in Doc : BeginUnshelve(k, d)

Finish(k) ==
    \/ CommitFulfil(k) \/ CommitDecline(k) \/ CommitShelve(k)
    \/ CommitRevise(k) \/ CommitUnshelve(k) \/ CommitAttach(k)
    \/ Refuse(k) \/ DropUpload(k)

LibraryNext ==
    \/ \E k \in Upload : Receive(k) \/ Finish(k)
    \/ \E q \in DocRequest : AskFor(q)
    \/ \E f \in File : Detach(f)

LibrarySpec == LibraryInit /\ [][LibraryNext]_libraryVars

-----------------------------------------------------------------------------
LibraryTypeOK ==
    /\ disk \subseteq File /\ attached \subseteq File /\ clobbered \in BOOLEAN
    /\ asked \in [DocRequest -> Asked] /\ shelf \in [Doc -> KBDocument]
    /\ \A k \in Upload :
        /\ upload[k].kind \in Kinds \cup {"free"}
        /\ upload[k].file \in File \cup {None}

(* A file that a row names can be downloaded: whatever fails, whenever, a  *)
(* request takes off the disk only what nobody has committed, and keeps    *)
(* what superseded and deleted documents name, and what is shared by a     *)
(* request and the knowledge base.                                         *)
NamedFilesExist ==
    /\ {asked[q].file : q \in DocRequest} \cup {shelf[d].file : d \in Doc}
          \cup attached \subseteq disk \cup {None}
    /\ \A k \in Upload : upload[k].file \in disk \cup {None}

(* Every version of a document can be followed back to the first, each     *)
(* with the file it had; a request that was answered has the one answer;   *)
(* an opportunity has no more attachments than it may.  Two requests that  *)
(* cross can break each: two uploads of a version 2 both archive the first *)
(* and one of them is lost, a request is fulfilled and declined, and both  *)
(* of two uploads are the fifth.                                           *)
HistoryKept ==
    clobbered \/
    /\ \A d \in Doc : shelf[d].version > 1 =>
          LET p == shelf[shelf[d].previous] IN
          /\ p.state \in {"archived", "deleted"}
          /\ p.version = shelf[d].version - 1
          /\ p.file # shelf[d].file
    /\ \A d, e \in Doc :
          shelf[d].previous # None /\ shelf[d].previous = shelf[e].previous => d = e
    /\ \A q \in DocRequest :
          /\ asked[q].status = "fulfilled" <=> asked[q].file # None
          /\ asked[q].status = "declined" <=> asked[q].reason
    /\ Cardinality(attached) <= MaxDocuments
=============================================================================
