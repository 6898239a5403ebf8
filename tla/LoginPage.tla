------------------------------ MODULE LoginPage ------------------------------
(***************************************************************************)
(* pages/UserLoginPage.tsx, one visit with a connected wallet: the check,  *)
(* the pending factors, the password, the face step. The server's login    *)
(* state asks for SMS, then WhatsApp; it never names Google as pending     *)
(* (login-state.ts:42), so the page's Google section is not reachable. The *)
(* factor buttons are not disabled while a call is under way: answers of   *)
(* several sends, verifications and re-reads come in any order, late, or   *)
(* are lost after the server has acted. A visit ends with the wallet.      *)
(***************************************************************************)
EXTENDS Naturals, Sequences, SequencesExt

CONSTANTS
    MaxCalls,           \* bound: calls of the page under way at once
    Unknown             \* no snapshot

VARIABLES
    login,              \* the page: phase, snapshot, exists, sentAt, busy
    calls,              \* its calls under way
    held,               \* at the server: whether the wallet has an account, factors passed
    session             \* at the server: the password was accepted on this visit

loginVars == <<login, calls, held, session>>

Channels == <<"sms", "whatsapp">>

Factors == {Channels[i] : i \in DOMAIN Channels}

\* LoginSnapshot: the factors it shows as verified.
NextPending(verified) == SelectInSeq(Channels, LAMBDA f : f \notin verified)

LoginReady(verified) == NextPending(verified) = 0

Snapshot == [exists : BOOLEAN, verified : SUBSET Factors]

Kinds == {"check", "send", "verify", "refresh", "login", "face"}

LoginTypeOK ==
    /\ login \in [phase : {"check", "factors", "complete", "face", "left"},
                  snapshot : Snapshot \cup {Unknown}, sent : SUBSET Factors, busy : BOOLEAN]
    /\ calls \in Seq([kind : Kinds, factor : Factors, ok : BOOLEAN \cup {Unknown}, seen : Snapshot])
    /\ held \in Snapshot
    /\ session \in BOOLEAN

Call(kind, f) == [kind |-> kind, factor |-> f, ok |-> Unknown, seen |-> [exists |-> FALSE, verified |-> {}]]

LoginInit ==
    /\ login = [phase |-> "check", snapshot |-> Unknown, sent |-> {}, busy |-> FALSE]
    /\ calls = <<Call("check", "sms")>>
    /\ held \in {s \in Snapshot : ~s.exists => s.verified = {}}
    /\ session = FALSE

Make(kind, f) ==
    /\ Len(calls) < MaxCalls
    /\ calls' = Append(calls, Call(kind, f))

-------------------------------------------------------------------------------
(* The server.                                                               *)

\* A code, or all factors and the password, are what lets a call succeed.
Served(i) ==
    /\ calls[i].ok = Unknown
    /\ \E ok \in BOOLEAN :
         /\ ok /\ calls[i].kind = "login" => LoginReady(held.verified)
         /\ held' = IF ok /\ calls[i].kind = "verify"
                    THEN [held EXCEPT !.verified = @ \cup {calls[i].factor}] ELSE held
         /\ session' = (session \/ (ok /\ calls[i].kind = "login"))
         /\ calls' = [calls EXCEPT ![i].ok = ok, ![i].seen = held']
    /\ UNCHANGED login

-------------------------------------------------------------------------------
(* The page.                                                                 *)

Pending(f) ==
    /\ login.phase \in {"factors", "complete"}
    /\ login.snapshot # Unknown
    /\ LET next == NextPending(login.snapshot.verified) IN next # 0 /\ Channels[next] = f

SendCode(f) ==
    /\ Pending(f)
    /\ login' = [login EXCEPT !.sent = @ \ {f}]
    /\ Make("send", f)
    /\ UNCHANGED <<held, session>>

VerifyCode(f) ==
    /\ Pending(f)
    /\ f \in login.sent
    /\ Make("verify", f)
    /\ UNCHANGED <<login, held, session>>

\* At a server that has all three factors configured; at any other the page does
\* not ask.
CompleteLogin ==
    /\ login.phase = "complete"
    /\ ~login.busy
    /\ login.snapshot # Unknown /\ login.snapshot.exists
    /\ LoginReady(login.snapshot.verified)
    /\ login' = [login EXCEPT !.busy = TRUE]
    /\ Make("login", "sms")
    /\ UNCHANGED <<held, session>>

\* setLogin and advancePhase.
Shown(p, snapshot) ==
    [p EXCEPT !.snapshot = snapshot,
              !.phase = IF LoginReady(snapshot.verified) THEN "complete" ELSE "factors"]

\* The page after an answer; a failed check leaves the page without a snapshot.
AfterAnswerTo(call, ok) ==
    CASE call.kind = "check" /\ ~ok -> [login EXCEPT !.phase = "factors"]
      [] call.kind = "check" /\ ok /\ ~call.seen.exists -> [login EXCEPT !.phase = "left"]
      [] call.kind \in {"check", "refresh"} /\ ok /\ call.seen.exists -> Shown(login, call.seen)
      [] call.kind = "send" /\ ok -> [login EXCEPT !.sent = @ \cup {call.factor}]
      [] call.kind = "verify" /\ ok -> [login EXCEPT !.sent = @ \ {call.factor}]
      [] call.kind = "login" /\ ~ok -> [login EXCEPT !.busy = FALSE]
      [] call.kind = "face" -> [login EXCEPT !.busy = FALSE, !.phase = "face"]
      [] OTHER -> login

\* What the handler asks for next.
FollowUp(call, ok) ==
    CASE call.kind = "verify" /\ ok -> <<Call("refresh", call.factor)>>
      [] call.kind = "login" /\ ok -> <<Call("face", call.factor)>>
      [] OTHER -> <<>>

\* A lost answer is a network error to the page.
Answered(i) ==
    /\ calls[i].ok # Unknown
    /\ \E ok \in {calls[i].ok, FALSE} :
         /\ login' = AfterAnswerTo(calls[i], ok)
         /\ calls' = RemoveAt(calls, i) \o FollowUp(calls[i], ok)
    /\ UNCHANGED <<held, session>>

\* A call of the kind goes one step further.
CallProceeds(kind) == \E i \in DOMAIN calls : calls[i].kind = kind /\ (Served(i) \/ Answered(i))

LoginNext ==
    \/ \E f \in Factors : SendCode(f) \/ VerifyCode(f)
    \/ CompleteLogin
    \/ \E kind \in Kinds : CallProceeds(kind)

-------------------------------------------------------------------------------
(* Properties.                                                               *)

\* What the stepper shows as verified is verified at the server, the password is
\* asked for only when the server has every factor, and the face step follows a
\* password it accepted, in whatever order the answers come
\* (UserLoginPage.tsx:100-146, 179-226, 250-283).
LoginShowsServer ==
    /\ login.snapshot # Unknown => login.snapshot.verified \subseteq held.verified
    /\ login.phase = "complete" => LoginReady(held.verified)
    /\ login.phase = "face" => session

\* The check and a busy button wait for an answer or an error.
LoginWaits == <<login.phase = "check", login.busy>>
===============================================================================
