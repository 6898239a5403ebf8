------------------------------- MODULE ContactPage -------------------------------
(***************************************************************************)
(* pages/ContactVerificationPage.tsx, profile/contact-verification.ts and  *)
(* the providers of profile/providers: the two cards of the page, the      *)
(* profile it shows and the one it stores per wallet. The Enter key sends  *)
(* and verifies whatever is under way, so that calls overlap and their     *)
(* answers come in any order, after the wallet has been disconnected or    *)
(* changed too, or are lost after the server has acted. The code itself is *)
(* OtpService and KycChallenge: here a verification may be refused at any  *)
(* time, and is granted only to a contact with a challenge.                *)
(***************************************************************************)
EXTENDS Naturals, Sequences, SequencesExt

CONSTANTS
    Owners,             \* wallets that are connected in turn
    Addresses,          \* e-mail addresses
    Numbers,            \* mobile numbers
    MaxContactCalls,    \* bound: calls of the page under way at once
    Unset               \* no wallet, contact or pending value

ASSUME ContactAssumption == Owners # {}

VARIABLES
    owner,              \* the connected wallet; the page is there only with one
    cards,              \* cards[c]: step, the value the code was sent to, what is awaited
    shown,              \* the profile of the page
    stored,             \* localStorage: the profile of each wallet
    contactCalls,       \* calls of the page under way
    challenged,         \* at the server: contacts with a challenge
    confirmed           \* observer: contacts the server has confirmed, by wallet

contactVars == <<owner, cards, shown, stored, contactCalls, challenged, confirmed>>

Cards == {"email", "aadhaar"}

ContactsOf(c) == IF c = "email" THEN Addresses ELSE Numbers

Contacts == Addresses \cup Numbers

Profile == [Cards -> Contacts \cup {Unset}]

NoProfile == [c \in Cards |-> Unset]

FreshCard == [step |-> "input", pending |-> Unset, waits |-> {}]

ContactTypeOK ==
    /\ owner \in Owners \cup {Unset}
    /\ cards \in [Cards -> [step : {"input", "code"}, pending : Contacts \cup {Unset},
                            waits : SUBSET {"send", "verify"}]]
    /\ shown \in Profile
    /\ stored \in [Owners -> Profile]
    /\ contactCalls \in Seq([op : {"send", "verify"}, card : Cards, value : Contacts, by : Owners,
                             live : BOOLEAN, verdict : {"sent", "ok", "linked", "unlinked", "refused"}])
    /\ challenged \subseteq Contacts
    /\ confirmed \subseteq Owners \X Contacts

ContactInit ==
    /\ owner = Unset
    /\ cards = [c \in Cards |-> FreshCard]
    /\ shown = NoProfile
    /\ stored = [w \in Owners |-> NoProfile]
    /\ contactCalls = <<>>
    /\ challenged = {} /\ confirmed = {}

-------------------------------------------------------------------------------
\* The page is mounted with the wallet and loads its profile.
WalletConnects(w) ==
    /\ owner = Unset
    /\ owner' = w
    /\ shown' = stored[w]
    /\ cards' = [c \in Cards |-> FreshCard]
    /\ UNCHANGED <<stored, contactCalls, challenged, confirmed>>

\* It is unmounted; its calls go on.
WalletLeaves ==
    /\ owner # Unset
    /\ owner' = Unset
    /\ shown' = NoProfile
    /\ cards' = [c \in Cards |-> FreshCard]
    /\ contactCalls' = [i \in DOMAIN contactCalls |-> [contactCalls[i] EXCEPT !.live = FALSE]]
    /\ UNCHANGED <<stored, challenged, confirmed>>

Asks(op, c, v) ==
    /\ owner # Unset /\ shown[c] = Unset
    /\ Len(contactCalls) < MaxContactCalls
    /\ contactCalls' = Append(contactCalls, [op |-> op, card |-> c, value |-> v, by |-> owner,
                                             live |-> TRUE, verdict |-> "sent"])
    /\ cards' = [cards EXCEPT ![c].waits = @ \cup {op}]
    /\ UNCHANGED <<owner, shown, stored, challenged, confirmed>>

\* From the input, or again for the address the page waits for.
SendsCode(c, v) ==
    /\ \/ cards[c].step = "input"
       \/ cards[c].step = "code" /\ c = "email" /\ v = cards[c].pending
    /\ Asks("send", c, v)

VerifiesCode(c) ==
    /\ cards[c].step = "code" /\ cards[c].pending # Unset
    /\ Asks("verify", c, cards[c].pending)

\* "Change Email", "Start Over"
StartsOver(c) ==
    /\ owner # Unset /\ shown[c] = Unset /\ cards[c].step = "code"
    /\ cards' = [cards EXCEPT ![c].step = "input"]
    /\ UNCHANGED <<owner, shown, stored, contactCalls, challenged, confirmed>>

ResetsVerification ==
    /\ owner # Unset /\ shown # NoProfile
    /\ stored' = [stored EXCEPT ![owner] = NoProfile]
    /\ shown' = NoProfile
    /\ UNCHANGED <<owner, cards, contactCalls, challenged, confirmed>>

-------------------------------------------------------------------------------
\* The server sends a challenge, finds the number linked at once, grants a
\* verification of what it has challenged or finds it not linked after all, or
\* refuses.
ContactServed(i) ==
    LET call == contactCalls[i] IN
    /\ call.verdict = "sent"
    /\ \E verdict \in {"ok", "linked", "unlinked", "refused"} :
         /\ verdict = "linked" => call.op = "send" /\ call.card = "aadhaar"
         /\ verdict = "unlinked" => call.op = "verify" /\ call.card = "aadhaar"
         /\ verdict \in {"ok", "unlinked"} /\ call.op = "verify" => call.value \in challenged
         /\ challenged' = IF verdict \notin {"ok", "unlinked"} THEN challenged
                          ELSE IF call.op = "send" THEN challenged \cup {call.value}
                          ELSE challenged \ {call.value}
         /\ confirmed' = IF verdict = "linked" \/ (verdict = "ok" /\ call.op = "verify")
                         THEN confirmed \cup {<<call.by, call.value>>} ELSE confirmed
         /\ contactCalls' = [contactCalls EXCEPT ![i].verdict = verdict]
    /\ UNCHANGED <<owner, cards, shown, stored>>

\* onVerified: the profile is stored for the wallet of the call; the page that
\* made it, if it is still there, shows it.
Verified(call) ==
    /\ stored' = [stored EXCEPT ![call.by][call.card] = call.value]
    /\ shown' = IF call.live THEN [shown EXCEPT ![call.card] = call.value] ELSE shown

\* What the card does with an answer; the Aadhaar card goes back to its input when
\* the number is not linked, the e-mail card when it is verified.
CardAfter(call, verdict) ==
    LET card == [cards[call.card] EXCEPT !.waits = @ \ {call.op}] IN
    CASE call.op = "send" /\ verdict = "ok" -> [card EXCEPT !.step = "code", !.pending = call.value]
      [] call.op = "verify" /\ verdict = "ok" /\ call.card = "email" ->
             [card EXCEPT !.step = "input", !.pending = Unset]
      [] call.op = "verify" /\ verdict = "unlinked" -> [card EXCEPT !.step = "input"]
      [] OTHER -> card

\* A lost answer counts as a refusal.
ContactAnswered(i) ==
    LET call == contactCalls[i] IN
    /\ call.verdict # "sent"
    /\ \E verdict \in {call.verdict, "refused"} :
         /\ IF verdict = "linked" \/ (verdict = "ok" /\ call.op = "verify") THEN Verified(call)
            ELSE UNCHANGED <<stored, shown>>
         /\ cards' = IF call.live THEN [cards EXCEPT ![call.card] = CardAfter(call, verdict)] ELSE cards
    /\ contactCalls' = RemoveAt(contactCalls, i)
    /\ UNCHANGED <<owner, challenged, confirmed>>

ContactCallProceeds(c, op) ==
    \E i \in DOMAIN contactCalls :
        /\ contactCalls[i].card = c /\ contactCalls[i].op = op
        /\ ContactServed(i) \/ ContactAnswered(i)

\* The cards that are used, and the wallets that are connected.
ContactNext(used, wallets) ==
    \/ \E w \in wallets : WalletConnects(w)
    \/ WalletLeaves \/ ResetsVerification
    \/ \E c \in used :
         \/ VerifiesCode(c) \/ StartsOver(c) \/ \E v \in ContactsOf(c) : SendsCode(c, v)
         \/ \E op \in {"send", "verify"} : ContactCallProceeds(c, op)

-------------------------------------------------------------------------------
(* Properties.                                                               *)

\* A contact is shown or stored as verified only for a wallet the server has
\* confirmed that very contact for, though the page may have moved on to another
\* address, another wallet or a reset while the answer was under way
\* (ContactVerificationPage.tsx:79-108, 262-295).
ContactsAreConfirmed ==
    /\ \A w \in Owners, c \in Cards :
         stored[w][c] # Unset => <<w, stored[w][c]>> \in confirmed
    /\ \A c \in Cards : shown[c] # Unset => <<owner, shown[c]>> \in confirmed

\* "Sending..." and "Verifying..." of a card.
ContactWaits(c) == <<"send" \in cards[c].waits, "verify" \in cards[c].waits>>
===============================================================================
