---------------------------- MODULE RegistryMetadata ----------------------------
(***************************************************************************)
(* The details of a registration beside the ledger: the draft RegisterPage *)
(* hands to RegistrationReviewPage, the registration filed from it, and    *)
(* the record of it server/registry keeps, sent by registry-client.ts once *)
(* the page has been told an id.                                           *)
(*                                                                         *)
(* A submission goes on when its page is left or has given up waiting; the *)
(* id it is told is that of the newest registration on the ledger          *)
(* (PriestateApi). An id is the place of a registration in chain, counted  *)
(* from one. Details are members of Drafts; the page without a draft shows *)
(* and submits those of a demo. The records are in memory.                 *)
(***************************************************************************)
EXTENDS Naturals, Sequences

CONSTANTS
    Drafts,         \* details an applicant may enter
    Demo,           \* the details shown when there is no draft
    MaxFiled        \* bound: submissions of a behaviour

ASSUME MetadataAssumption == MaxFiled \in Nat

VARIABLES
    chain,          \* the details of the registrations on the ledger, by id
    draft,          \* sessionStorage: pendingRegistration
    sheet,          \* the review page: open, details, step, id, what became of the record
    filings,        \* submissions: details, id once filed, awaited, of the open page
    intakes,        \* requests to keep a record: the record, how far, of the open page
    catalogue,      \* the server: whether the registry is configured, and its records
    ever            \* every record there has been, of whatever run of the server

metadataVars == <<chain, draft, sheet, filings, intakes, catalogue, ever>>

Details == Drafts \cup {Demo}

ClosedSheet == [open |-> FALSE, of |-> Demo, step |-> "review", id |-> 0, record |-> "none"]

\* toRegistryMetadataInput and the stored record: the id it names, and the details.
MetadataOf(ref, details) == [ref |-> ref, of |-> details]

Put(set, old, new) == (set \ {old}) \cup {new}

\* What the applicant's own sheet shows, when the answer is still for it.
OnSheet(shown, next) == sheet' = IF shown THEN next ELSE sheet

-------------------------------------------------------------------------------
(* The two pages *)

\* RegisterPage.handleSubmit with a valid form, and the page it goes to.
DraftHanded(d) ==
    /\ ~sheet.open
    /\ draft' = d
    /\ sheet' = [ClosedSheet EXCEPT !.open = TRUE, !.of = d]
    /\ UNCHANGED <<chain, filings, intakes, catalogue, ever>>

\* The review page by its own address, or reloaded.
SheetOpens ==
    /\ ~sheet.open
    /\ sheet' = [ClosedSheet EXCEPT !.open = TRUE, !.of = draft]
    /\ UNCHANGED <<chain, draft, filings, intakes, catalogue, ever>>

\* Left: what it has started goes on, and is shown nowhere.
SheetLeft ==
    /\ sheet.open
    /\ sheet' = ClosedSheet
    /\ filings' = {[f EXCEPT !.shown = FALSE] : f \in filings}
    /\ intakes' = {[i EXCEPT !.shown = FALSE] : i \in intakes}
    /\ UNCHANGED <<chain, draft, catalogue, ever>>

\* handleSubmit up to the transaction
Submits(n) ==
    /\ sheet.open /\ sheet.step = "review"
    /\ n \notin {f.n : f \in filings}
    /\ sheet' = [sheet EXCEPT !.step = "submitting", !.record = "none"]
    /\ filings' = filings \cup
           {[n |-> n, of |-> sheet.of, id |-> 0, awaited |-> TRUE, shown |-> TRUE]}
    /\ UNCHANGED <<chain, draft, intakes, catalogue, ever>>

\* The transaction becomes final, also after the page has given up.
FilingLands(f) ==
    /\ f \in filings /\ f.id = 0
    /\ chain' = Append(chain, f.of)
    /\ filings' = Put(filings, f, [f EXCEPT !.id = Len(chain')])
    /\ UNCHANGED <<draft, sheet, intakes, catalogue, ever>>

\* handleSubmit with the id it is told: the draft is removed, whichever it is by now,
\* and the record is sent, of the details this submission began with.
FilingTold(f) ==
    /\ f \in filings /\ f.awaited /\ f.id # 0
    /\ filings' = Put(filings, f, [f EXCEPT !.awaited = FALSE])
    /\ draft' = Demo
    /\ OnSheet(f.shown, [sheet EXCEPT !.step = "submitted", !.id = Len(chain), !.record = "sent"])
    /\ intakes' = intakes \cup {[ref |-> Len(chain), of |-> f.of, at |-> "sent", shown |-> f.shown]}
    /\ UNCHANGED <<chain, catalogue, ever>>

\* Refused by the wallet, or the minute is over.
FilingFails(f) ==
    /\ f \in filings /\ f.awaited
    /\ filings' = Put(filings, f, [f EXCEPT !.awaited = FALSE, !.shown = FALSE])
    /\ OnSheet(f.shown, [sheet EXCEPT !.step = "review"])
    /\ UNCHANGED <<chain, draft, intakes, catalogue, ever>>

\* What the page makes of the answer: kept, unavailable (503), or pending, which is
\* any other answer and none.
AnswersTo(i) == {"pending", i.at} \ {"sent"}

\* createApplicationMetadata, and the note of the page.
IntakeEnds(i, record) ==
    /\ i \in intakes
    /\ record \in AnswersTo(i)
    /\ intakes' = intakes \ {i}
    /\ OnSheet(i.shown, [sheet EXCEPT !.record = record])
    /\ UNCHANGED <<chain, draft, filings, catalogue, ever>>

-------------------------------------------------------------------------------
(* The registry of the server *)

\* RegistryStore.create: ids are counted from one, in the order of arrival.
Kept(ref, details) ==
    /\ catalogue' = [catalogue EXCEPT !.records = Append(@, MetadataOf(ref, details))]
    /\ ever' = ever \cup {MetadataOf(ref, details)}

\* parseRegistryApplicationInput, of what the page sends: a field that is too long or
\* holds a control character, and an area of more than 18 digits, are refused.
Accepted(valid) == catalogue.configured /\ valid

\* ingestApplicant: whoever sends it.
IntakeServed(i, valid) ==
    /\ i \in intakes /\ i.at = "sent"
    /\ IF Accepted(valid)
       THEN /\ Kept(i.ref, i.of)
            /\ intakes' = Put(intakes, i, [i EXCEPT !.at = "kept"])
       ELSE /\ intakes' = Put(intakes, i,
                   [i EXCEPT !.at = IF catalogue.configured THEN "pending" ELSE "unavailable"])
            /\ UNCHANGED <<catalogue, ever>>
    /\ UNCHANGED <<chain, draft, sheet, filings>>

\* ingest, with the officer's token: the page tells an applicant that an officer can
\* do that. A wrong token changes nothing. The server compares with nothing; taken is
\* an officer who copies from the ledger what the listing of the server misses.
OfficerCatalogues(ref) ==
    /\ catalogue.configured
    /\ ref \in DOMAIN chain /\ \A i \in DOMAIN catalogue.records : catalogue.records[i].ref # ref
    /\ Kept(ref, chain[ref])
    /\ UNCHANGED <<chain, draft, sheet, filings, intakes>>

RegistryRestarts ==
    /\ catalogue.records # <<>>
    /\ catalogue' = [catalogue EXCEPT !.records = <<>>]
    /\ UNCHANGED <<chain, draft, sheet, filings, intakes, ever>>

-------------------------------------------------------------------------------

MetadataInit ==
    /\ chain = <<>> /\ draft = Demo /\ sheet = ClosedSheet
    /\ filings = {} /\ intakes = {} /\ ever = {}
    /\ catalogue \in [configured : BOOLEAN, records : {<<>>}]

MetadataNext ==
    \/ \E d \in Drafts : DraftHanded(d)
    \/ SheetOpens \/ SheetLeft
    \/ \E n \in 1 .. MaxFiled : Submits(n)
    \/ \E f \in filings : FilingLands(f) \/ FilingTold(f) \/ FilingFails(f)
    \/ \E i \in intakes, record \in {"kept", "unavailable", "pending"} : IntakeEnds(i, record)
    \/ \E i \in intakes, valid \in BOOLEAN : IntakeServed(i, valid)
    \/ \E ref \in 1 .. MaxFiled : OfficerCatalogues(ref)
    \/ RegistryRestarts

-------------------------------------------------------------------------------

MetadataTypeOK ==
    /\ chain \in Seq(Details) /\ Len(chain) <= MaxFiled
    /\ draft \in Details
    /\ sheet.of \in Details /\ sheet.id \in 0 .. MaxFiled
    /\ \A f \in filings : f.id \in 0 .. Len(chain)
    /\ \A r \in ever : r.ref \in 1 .. MaxFiled

\* A record is of details that are on the ledger at the id it names or, when others
\* were filed in between, at an earlier one; a page that reports its registration as
\* filed and recorded has both, and says that the registry is not configured only
\* when it is not (RegistrationReviewPage.tsx 107-147, registry-client.ts 75-117).
RecordsFollowLedger ==
    /\ \A r \in ever : \E id \in 1 .. r.ref : id \in DOMAIN chain /\ chain[id] = r.of
    /\ sheet.step = "submitted" => sheet.id \in DOMAIN chain
    /\ sheet.record = "kept" => MetadataOf(sheet.id, sheet.of) \in ever
    /\ sheet.record = "unavailable" => ~catalogue.configured
===============================================================================
