----------------------------- MODULE RegisterForm -----------------------------
(***************************************************************************)
(* pages/RegisterPage.tsx with components/DocumentUpload.tsx, the merge of *)
(* documents/merge-extracted.ts and the list of documents/document-store.ts *)
(* the application form a property starts from, and the upload that fills  *)
(* it from what it reads in a document's name.                             *)
(*                                                                         *)
(* The upload ends in the callbacks of the render its handler was made in. *)
(* handleFile is memoised on the owner's address alone, which does not     *)
(* change while the page is there, so that is the page's first render: it  *)
(* calls the processSelected, and so the onExtracted, of that render, and  *)
(* handleExtracted merges into the form and the dirty keys it closed over: *)
(* FirstRender.                                                            *)
(***************************************************************************)
EXTENDS Naturals, Sequences

CONSTANTS
    Keys,           \* fields of the form
    Read,           \* the fields of them extraction can fill
    MaxDocuments    \* bound: documents uploaded

VARIABLES
    form,           \* form[k]: nothing yet, typed by the user, or read from a document
    dirty,          \* dirtyKeys
    badges,         \* extractedKeys
    processed,      \* docProcessed
    upload,         \* the phase of the upload
    documents,      \* the owner's stored documents: is each one linked to an application
    draft           \* pendingRegistration in sessionStorage

formVars == <<form, dirty, badges, processed, upload, documents, draft>>

Values == {"empty", "typed", "read"}

EmptyForm == [k \in Keys |-> "empty"]

\* What a closure of the page's first render sees.
FirstRender == [form |-> EmptyForm, dirty |-> {}]

FormTypeOK ==
    /\ form \in [Keys -> Values]
    /\ dirty \subseteq Keys /\ badges \subseteq Read
    /\ processed \in BOOLEAN
    /\ upload \in {"idle", "uploading", "processing", "done", "error"}
    /\ documents \in Seq({"unlinked", "linked"}) /\ Len(documents) <= MaxDocuments
    /\ draft \in [Keys -> Values]

FormInit ==
    /\ form = EmptyForm /\ dirty = {} /\ badges = {} /\ processed = FALSE
    /\ upload = "idle" /\ documents = <<>> /\ draft = EmptyForm

-------------------------------------------------------------------------------

\* set(): typing, or clearing a field.
Types(k, value) ==
    /\ form' = [form EXCEPT ![k] = value]
    /\ dirty' = dirty \cup {k}
    /\ badges' = badges \ {k}
    /\ UNCHANGED <<processed, upload, documents, draft>>

\* A file is dropped, or chosen to replace the one that is there. The wrong type
\* and a file that is too large are refused.
FileChosen ==
    /\ upload \in {"idle", "error", "done"}
    /\ upload' \in {"uploading", "error"}
    /\ UNCHANGED <<form, dirty, badges, processed, documents, draft>>

UploadReaches ==
    /\ upload = "uploading" /\ upload' = "processing"
    /\ UNCHANGED <<form, dirty, badges, processed, documents, draft>>

\* canFill(), of the form and the dirty keys it is given.
CanFill(k, into) == k \notin into.dirty /\ into.form[k] = "empty"

\* applyExtractedFields(): the fields found that may be filled.
Applied(found, into) == {k \in found : CanFill(k, into)}

\* extract() answers, the document is stored, and handleExtracted() merges.
Extracted(found) ==
    /\ upload = "processing" /\ Len(documents) < MaxDocuments
    /\ upload' = "done"
    /\ documents' = Append(documents, "unlinked")
    /\ badges' = Applied(found, FirstRender)
    /\ form' = [k \in Keys |-> IF k \in badges' THEN "read" ELSE FirstRender.form[k]]
    /\ processed' = TRUE
    /\ UNCHANGED <<dirty, draft>>

ExtractionFails ==
    /\ upload = "processing" /\ upload' = "error"
    /\ UNCHANGED <<form, dirty, badges, processed, documents, draft>>

\* Remove is there unless an upload is under way; the stored document stays.
Removed ==
    /\ upload \in {"done", "error"}
    /\ upload' = "idle" /\ processed' = FALSE /\ badges' = {}
    /\ UNCHANGED <<form, dirty, documents, draft>>

\* linkDocumentToApplication() of the latest document that has no application.
Linked(docs) ==
    LET pending == {i \in DOMAIN docs : docs[i] = "unlinked"}
    IN  [i \in DOMAIN docs |->
            IF i \in pending /\ \A j \in pending : j <= i THEN "linked" ELSE docs[i]]

\* handleSubmit(): the draft is handed to the review page; coming back opens an
\* empty form. A form that lacks a field (validate) stays where it is.
Submitted ==
    /\ \A k \in Keys : form[k] # "empty"
    /\ draft' = form
    /\ documents' = IF processed THEN Linked(documents) ELSE documents
    /\ form' = EmptyForm /\ dirty' = {} /\ badges' = {} /\ processed' = FALSE
    /\ upload' = "idle"

FormNext ==
    \/ \E k \in Keys, value \in {"empty", "typed"} : Types(k, value)
    \/ FileChosen \/ UploadReaches \/ ExtractionFails \/ Removed \/ Submitted
    \/ \E found \in SUBSET Read : Extracted(found)

FormSpec == FormInit /\ [][FormNext]_formVars

-------------------------------------------------------------------------------

\* What RegisterPage.tsx says of handleExtracted ("anything the user already typed
\* is never overwritten") and merge-extracted.ts of the merge ("A field the user
\* has edited manually (dirty) is NEVER overwritten"): a document that has been
\* read changes nothing the user has typed.
TypedFieldsSurvive ==
    [][upload = "processing" /\ upload' = "done"
          => \A k \in dirty : form[k] = "typed" => form'[k] = "typed"]_formVars
===============================================================================
