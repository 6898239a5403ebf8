---------------------------- MODULE RegistrationPage ----------------------------
(***************************************************************************)
(* pages/UserRegistrationPage.tsx over auth/registration-api.ts and the    *)
(* registration session of the server. The buttons of a step are disabled  *)
(* while stepBusy; the address lookup, the location and the live check do  *)
(* not set it, so that their calls overlap any other. Each call is served  *)
(* at some time after it was sent and its answer comes at some later time, *)
(* or is lost after the server has acted. A handler keeps the form it was  *)
(* pressed with. The live check itself is CameraLiveness.                  *)
(***************************************************************************)
EXTENDS Naturals, Sequences, SequencesExt

CONSTANTS
    Forms,              \* complete forms the citizen may type
    Blank,              \* a form that is not complete
    MaxAsked,           \* bound: calls of the page under way at once
    NoRow

VARIABLES
    page,               \* what the component holds
    asked,              \* its calls under way
    row,                \* the session of the cookie at the server, or NoRow
    recorded            \* observer: what of the account the server has recorded

registrationPageVars == <<page, asked, row, recorded>>

\* A step of each kind: "code" is the e-mail and the Aadhaar-mobile step, which are
\* a start and a code; "upload" is the document, the password and the photo, which
\* are one call.
Steps == <<"personal", "code", "upload", "liveness", "location", "finalize">>

Passable == {Steps[i] : i \in DOMAIN Steps}

\* old: a session of an earlier visit. Bound: only such a session expires.
Row == [stored : Forms \cup {Blank}, passed : SUBSET Passable, old : BOOLEAN]

EmptyRow == [stored |-> Blank, passed |-> {}, old |-> FALSE]

\* It has come as far as some step.
Resumable == {[stored |-> f, passed |-> {Steps[j] : j \in 1..(i - 1)}, old |-> TRUE] :
                 f \in Forms, i \in DOMAIN Steps}

\* Steps that are one call, and then a look at the status.
CallOf == [verify |-> "code", send |-> "upload", location |-> "location"]

StepCalls == {"verify", "send"}

Ops == StepCalls \cup {"location", "status", "begin", "personal", "complete", "start", "lookup",
                       "finalize", "associate"}

\* next: what a handler asks for once its begin is answered.
Ask(op, next, form) == [op |-> op, next |-> next, form |-> form, verdict |-> "sent", seen |-> NoRow]

FreshPage == [view |-> "loading", status |-> NoRow, started |-> FALSE, form |-> Blank,
              saved |-> Blank, sent |-> FALSE, busy |-> FALSE, location |-> "idle", associated |-> FALSE]

RegistrationPageTypeOK ==
    /\ page \in [view : {"loading", "failed", "open"}, status : Row \cup {NoRow},
                 started : BOOLEAN, form : Forms \cup {Blank}, saved : Forms \cup {Blank},
                 sent : BOOLEAN, busy : BOOLEAN,
                 location : {"idle", "requesting", "submitting", "error"}, associated : BOOLEAN]
    /\ asked \in Seq([op : Ops, next : Ops, form : Forms \cup {Blank},
                      verdict : {"sent", "ok", "refused"}, seen : Row \cup {NoRow}])
    /\ row \in Row \cup {NoRow}
    /\ recorded \subseteq {"finalize", "associate"}

RegistrationPageInit ==
    /\ page = FreshPage
    /\ asked = <<Ask("status", "status", Blank)>>
    /\ row \in Resumable \cup {NoRow}
    /\ recorded = {}

-------------------------------------------------------------------------------
(* The server, as RegistrationSession has it.                                *)

AllGates == Passable \ {"finalize"}

\* What a call that is not refused does to the session.
AfterServing(call) ==
    CASE call.op = "personal" -> [row EXCEPT !.stored = call.form, !.passed = @ \ {"personal"}]
      [] call.op = "complete" -> [row EXCEPT !.passed = @ \cup {"personal"}]
      [] call.op = "finalize" -> [row EXCEPT !.passed = @ \cup {"finalize"}]
      [] call.op \in DOMAIN CallOf -> [row EXCEPT !.passed = @ \cup {CallOf[call.op]}]
      [] OTHER -> row

\* Finalize has signed the citizen in: the wallet is bound by the account's cookie.
MayServe(call) ==
    /\ row # NoRow \/ call.op = "associate"
    /\ call.op = "complete" => row.stored # Blank
    /\ call.op = "location" => "liveness" \in row.passed
    /\ call.op = "finalize" => AllGates \subseteq row.passed

\* The verdict of the server. The start of an e-mail takes back the proof of the one
\* before it; that of a link may be answered without a challenge.
RegistrationServed(i) ==
    LET call == asked[i] IN
    /\ call.verdict = "sent"
    /\ \/ /\ call.op = "status"
          /\ row' = row
          /\ asked' = [asked EXCEPT ![i].verdict = "ok", ![i].seen = row]
       \/ /\ call.op = "begin"
          /\ row' = EmptyRow
          /\ asked' = [asked EXCEPT ![i].verdict = "ok"]
       \/ /\ call.op \notin {"status", "begin"} /\ MayServe(call)
          /\ row' \in IF call.op # "start" THEN {AfterServing(call)}
                     ELSE {row, [row EXCEPT !.passed = @ \ {"code"}],
                                [row EXCEPT !.passed = @ \cup {"code"}]}
          /\ asked' = [asked EXCEPT ![i].verdict = "ok", ![i].seen = row']
       \/ /\ call.op # "status"
          /\ row' = row
          /\ asked' = [asked EXCEPT ![i].verdict = "refused"]
    /\ recorded' = IF asked'[i].verdict = "ok" THEN recorded \cup ({call.op} \cap {"finalize", "associate"})
                   ELSE recorded
    /\ UNCHANGED page

RowExpires ==
    /\ row # NoRow /\ row.old
    /\ row' = NoRow
    /\ UNCHANGED <<page, asked, recorded>>

-------------------------------------------------------------------------------
(* The page.                                                                 *)

\* currentRegistrationStep
CurrentStep ==
    IF page.status = NoRow THEN "personal"
    ELSE LET next == SelectInSeq(Steps, LAMBDA s : s \notin page.status.passed)
         IN IF next = 0 THEN "finalize" ELSE Steps[next]

Finalized == page.status # NoRow /\ "finalize" \in page.status.passed

AtStep(s) == page.view = "open" /\ ~Finalized /\ CurrentStep = s

\* Bound: calls overlap at two of the steps where one is not held back by stepBusy.
Room == Len(asked) < IF CurrentStep \in {"personal", "location"} THEN MaxAsked ELSE 1

Request(op, next, form) ==
    /\ Room
    /\ asked' = Append(asked, Ask(op, next, form))
    /\ UNCHANGED <<row, recorded>>

Press(op, next, form) ==
    /\ ~page.busy
    /\ Request(op, next, form)
    /\ page' = [page EXCEPT !.busy = TRUE]

\* ensureSession, then the call.
PressInSession(op) ==
    IF page.started THEN Press(op, op, page.form) ELSE Press("begin", op, page.form)

DetailsOnServer ==
    page.saved # Blank \/ (page.status # NoRow /\ page.status.stored # Blank)

UnsavedEdits == page.saved # Blank /\ page.saved # page.form

TypesForm(f) ==
    /\ AtStep("personal")
    /\ page' = [page EXCEPT !.form = f]
    /\ UNCHANGED <<asked, row, recorded>>

\* The button is there once details are stored.
SaveOffered == AtStep("personal") /\ DetailsOnServer

SavePressed ==
    /\ SaveOffered
    /\ page.form # Blank
    /\ PressInSession("personal")

ContinuePressed ==
    /\ AtStep("personal")
    /\ page.form # Blank /\ DetailsOnServer /\ ~UnsavedEdits
    /\ Press("complete", "complete", page.form)

\* "Use my current location" does not hold stepBusy itself, so that other buttons
\* can be pressed while it looks.
LookupPressed ==
    /\ AtStep("personal")
    /\ ~page.busy
    /\ \A i \in DOMAIN asked : asked[i].op # "lookup"
    /\ IF page.started THEN Request("lookup", "lookup", page.form)
       ELSE Request("begin", "lookup", page.form)
    /\ UNCHANGED page

\* The code is asked for once it was sent; the page then does not offer to send
\* another.
StepPressed(op) ==
    /\ AtStep(CallOf[op])
    /\ op = "verify" => page.sent
    /\ Press(op, op, Blank)

SendEmail == AtStep("code") /\ ~page.sent /\ Press("start", "start", Blank)

\* CameraLiveness has passed: the server holds it, and onComplete looks.
LiveCheckPasses ==
    /\ AtStep("liveness")
    /\ row # NoRow
    /\ Room
    /\ row' = [row EXCEPT !.passed = @ \cup {"liveness"}]
    /\ asked' = Append(asked, Ask("status", "status", Blank))
    /\ UNCHANGED <<page, recorded>>

CaptureLocation ==
    /\ AtStep("location")
    /\ page.location \in {"idle", "error"}
    /\ page' = [page EXCEPT !.location = "requesting"]
    /\ UNCHANGED <<asked, row, recorded>>

\* The poll sees a fix, or a state the watcher does not leave.
LocationFixed ==
    /\ page.location = "requesting"
    /\ \/ /\ page' = [page EXCEPT !.location = "submitting"]
          /\ Request("location", "location", Blank)
       \/ /\ page' = [page EXCEPT !.location = "error"]
          /\ UNCHANGED <<asked, row, recorded>>

FinalizePressed == AtStep("finalize") /\ Press("finalize", "finalize", Blank)

AssociateWallet ==
    /\ page.view = "open" /\ Finalized /\ ~page.associated
    /\ Press("associate", "associate", Blank)

-------------------------------------------------------------------------------
(* Answers.                                                                  *)

\* The status of an expired session is reset; what was sent in it is not.
Refreshed(p, seen) ==
    IF seen = NoRow THEN [p EXCEPT !.status = NoRow, !.started = FALSE]
    ELSE [p EXCEPT !.status = seen]

Booted(p, call, ok) ==
    IF ~ok THEN [p EXCEPT !.view = "failed"]
    ELSE [p EXCEPT !.view = "open", !.status = call.seen, !.started = call.seen # NoRow]

\* What the handler does with an answer that is ok.
AnsweredOk(p, call) ==
    CASE call.op = "status" -> {Refreshed(p, call.seen)}
      [] call.op = "begin" -> {[p EXCEPT !.started = TRUE]}
      [] call.op = "personal" -> {[p EXCEPT !.status = call.seen, !.saved = call.form]}
      [] call.op = "complete" -> {[p EXCEPT !.status = call.seen]}
      [] call.op = "lookup" -> {[p EXCEPT !.form = f] : f \in Forms \cup {Blank}}
      [] call.op = "start" /\ "code" \notin call.seen.passed -> {[p EXCEPT !.sent = TRUE]}
      [] call.op = "verify" -> {p, [p EXCEPT !.sent = FALSE]}
      [] call.op = "location" -> {[p EXCEPT !.location = "idle"]}
      [] call.op = "finalize" /\ p.status # NoRow ->
             {[p EXCEPT !.status.passed = @ \cup {"finalize"}]}
      [] call.op = "associate" -> {[p EXCEPT !.associated = TRUE]}
      [] OTHER -> {p}

\* And with one that is not, which is shown as an error.
AnsweredNot(p, call) ==
    {IF call.op = "location" THEN [p EXCEPT !.location = "error"] ELSE p}

\* What is awaited next within the same handler.
Then(call, ok) ==
    CASE ok /\ call.op = "begin" -> <<Ask(call.next, call.next, call.form)>>
      [] ok /\ call.op \in DOMAIN CallOf -> <<Ask("status", call.op, Blank)>>
      [] ok /\ call.op = "start" /\ "code" \in call.seen.passed -> <<Ask("status", "start", Blank)>>
      [] OTHER -> <<>>

\* A call that was made with stepBusy, and is the last of its handler.
Releases(call, ok) ==
    /\ call.next \notin {"status", "location", "lookup"}
    /\ Then(call, ok) = <<>>

RegistrationAnswered(i) ==
    LET call == asked[i] IN
    /\ call.verdict # "sent"
    /\ \E ok \in {call.verdict = "ok", FALSE} :
         /\ \E p \in IF page.view = "loading" THEN {Booted(page, call, ok)}
                     ELSE IF ok THEN AnsweredOk(page, call) ELSE AnsweredNot(page, call) :
              page' = [p EXCEPT !.busy = @ /\ ~Releases(call, ok)]
         /\ asked' = RemoveAt(asked, i) \o Then(call, ok)
    /\ UNCHANGED <<row, recorded>>

\* The citizen reloads the page; what is under way is aborted.
Reload ==
    /\ page.view # "loading"
    /\ page' = FreshPage
    /\ asked' = <<Ask("status", "status", Blank)>>
    /\ UNCHANGED <<row, recorded>>

\* A call of the handler goes one step further.
RegistrationCallProceeds(next) ==
    \E i \in DOMAIN asked : asked[i].next = next /\ (RegistrationServed(i) \/ RegistrationAnswered(i))

RegistrationPageNext ==
    \/ \E f \in Forms : TypesForm(f)
    \/ SavePressed \/ ContinuePressed \/ LookupPressed
    \/ \E op \in StepCalls : StepPressed(op)
    \/ SendEmail \/ LiveCheckPasses
    \/ CaptureLocation \/ LocationFixed \/ FinalizePressed \/ AssociateWallet
    \/ \E next \in Ops : RegistrationCallProceeds(next)
    \/ RowExpires \/ Reload

-------------------------------------------------------------------------------
(* Properties.                                                               *)

\* The page says "Account Created" and shows the wallet as bound only when the
\* server has recorded it, whichever answers came late or were lost
\* (UserRegistrationPage.tsx:245-263, 1533-1570).
RegistrationShowsServer ==
    /\ Finalized => "finalize" \in recorded
    /\ page.associated => "associate" \in recorded

\* The boot, a busy step and a submitted location wait for an answer or an error.
RegistrationWaits ==
    <<page.view = "loading", page.busy, page.location = "submitting">>

\* What the citizen has filled in completely and leaves as it is gets to the
\* server (UserRegistrationPage.tsx:497-500, 914-936).
CompleteFormIsSaved ==
    page.form # Blank ~> page.form = Blank \/ (row # NoRow /\ row.stored = page.form)
===============================================================================
