----------------------------- MODULE OfficerSignIn -----------------------------
(***************************************************************************)
(* Who may see the officer's portal: the authorization of                  *)
(* auth/AuthContext.tsx and auth/roles.ts, the sign-in and registration    *)
(* pages of the officer, and the guard RequireOfficer.                     *)
(*                                                                         *)
(* officerRows are the officer's sessions on the server, officerCookie is *)
(* one the browser holds. An answer takes its Set-Cookie along and is      *)
(* applied when it arrives, in any order. A tab that is loaded again       *)
(* forgets the calls it had in flight.                                     *)
(***************************************************************************)
EXTENDS Naturals, FiniteSets

CONSTANTS
    MaxSessions,       \* bound: sessions the officer is given
    MaxOfficerCalls    \* bound: calls in flight at a time

ASSUME SignInAssumption == MaxSessions \in Nat

VARIABLES
    officerRows,       \* session number -> "absent", "live" or "dead"
    officerCookie,     \* priestate_officer_sid, 0 when there is none
    auth,              \* AuthContext: wallet, authorized, role as last rendered, and the grant
    told,         \* observer: this document has been told of a live session
    signIn,            \* the call of the sign-in (or registration) page
    officerCalls       \* calls in flight: by whom, cookie sent, answer, cookie set

signInVars == <<officerRows, officerCookie, auth, told, signIn, officerCalls>>

-------------------------------------------------------------------------------
(* The context and the guard                                                 *)

\* determineRole: the allow-list is empty here, the grant of the session counts.
RoleOf(grant) == IF grant THEN "OFFICER" ELSE "USER"

\* A render of AuthProvider works the role out again; a grant renders nothing.
RenderedAuth(a) == [a EXCEPT !.role = RoleOf(a.grant)]

\* RequireOfficer
PortalShown == auth.wallet /\ (auth.authorized \/ auth.role = "OFFICER")

WalletComesOrGoes ==
    /\ auth' = RenderedAuth([auth EXCEPT !.wallet = ~@])
    /\ UNCHANGED <<officerRows, officerCookie, told, signIn, officerCalls>>

\* The demo button of the page for the unauthorized.
GrantOrRevoke ==
    /\ auth.wallet /\ ~PortalShown
    /\ auth' = [auth EXCEPT !.grant = ~@]
    /\ UNCHANGED <<officerRows, officerCookie, told, signIn, officerCalls>>

-------------------------------------------------------------------------------
(* The credential                                                            *)

OfficerCall(by, sent) == [by |-> by, sent |-> sent, answer |-> "none", sets |-> 0]

Replaced(c, d) == officerCalls' = (officerCalls \ {c}) \cup {d}

\* loginOfficer or registerOfficer: the button is disabled while it runs.
SignInPressed ==
    /\ signIn = "idle"
    /\ Cardinality(officerCalls) < MaxOfficerCalls
    /\ officerCalls' = officerCalls \cup {OfficerCall("signIn", officerCookie)}
    /\ signIn' = "sent"
    /\ UNCHANGED <<officerRows, officerCookie, auth, told>>

\* The server answers a sign-in with a new session, or refuses it.
SignInAccepted(c, s) ==
    /\ c.by = "signIn" /\ c.answer = "none"
    /\ officerRows[s] = "absent" /\ \A t \in 1..(s - 1) : officerRows[t] # "absent"
    /\ officerRows' = [officerRows EXCEPT ![s] = "live"]
    /\ Replaced(c, [c EXCEPT !.answer = "ok", !.sets = s])
    /\ UNCHANGED <<officerCookie, auth, told, signIn>>

\* The server answers /me: a cookie whose session is gone is told to go.
MeServed(c) ==
    /\ c.by # "signIn" /\ c.answer = "none"
    /\ LET live == c.sent # 0 /\ officerRows[c.sent] = "live"
       IN Replaced(c, [c EXCEPT !.answer = IF live THEN "ok" ELSE "refused",
                                !.sets = IF live THEN c.sent ELSE 0])
    /\ UNCHANGED <<officerRows, officerCookie, auth, told, signIn>>

\* What an answer that arrives makes of the cookie: /me with none sets none.
CookieAfter(c, ok) ==
    IF ok THEN c.sets
    ELSE IF c.answer = "refused" /\ c.sent # 0 THEN 0 ELSE officerCookie

\* An accepted sign-in asks /me again (refreshOfficerAuth); a refused one, or one
\* whose answer is lost, shows its error.
SignInAnswered(c, heard) ==
    LET ok == heard /\ c.answer = "ok"
    IN /\ c.by = "signIn"
       /\ officerCookie' = CookieAfter(c, ok)
       /\ IF ok THEN Replaced(c, OfficerCall("refresh", c.sets)) /\ signIn' = "refreshing"
                ELSE officerCalls' = officerCalls \ {c} /\ signIn' = "idle"
       /\ UNCHANGED <<officerRows, auth, told>>

\* refreshOfficerAuth: the answer that arrives last decides, and a lost one says
\* no. The sign-in page then goes on to the portal, whatever was said.
MeAnswered(c, heard) ==
    LET ok == heard /\ c.answer = "ok"
    IN /\ c.by # "signIn"
       /\ officerCookie' = IF heard THEN CookieAfter(c, ok) ELSE officerCookie
       /\ officerCalls' = officerCalls \ {c}
       /\ signIn' = IF c.by = "refresh" THEN "idle" ELSE signIn
       /\ told' = (told \/ ok)
       /\ auth' = IF ok \/ auth.authorized
                  THEN RenderedAuth([auth EXCEPT !.authorized = ok]) ELSE auth
       /\ UNCHANGED officerRows

\* A session lapses, or is closed by another tab.
SessionEnds(s) ==
    /\ officerRows[s] = "live"
    /\ officerRows' = [officerRows EXCEPT ![s] = "dead"]
    /\ UNCHANGED <<officerCookie, auth, told, signIn, officerCalls>>

\* The tab is loaded again: the cookie stays, and the grant of the session;
\* AuthProvider asks /me.
TabReloaded ==
    /\ auth' = RenderedAuth([auth EXCEPT !.wallet = FALSE, !.authorized = FALSE])
    /\ signIn' = "idle" /\ told' = FALSE
    /\ officerCalls' = {OfficerCall("mount", officerCookie)}
    /\ UNCHANGED <<officerRows, officerCookie>>

-------------------------------------------------------------------------------

SignInInit ==
    /\ officerRows = [s \in 1..MaxSessions |-> "absent"]
    /\ officerCookie = 0
    /\ auth = [wallet |-> FALSE, authorized |-> FALSE, role |-> "USER", grant |-> FALSE]
    /\ told = FALSE
    /\ signIn = "idle"
    /\ officerCalls = {OfficerCall("mount", 0)}

\* A call is answered or fails.
SignInProceeds ==
    \E c \in officerCalls, heard \in BOOLEAN :
        SignInAnswered(c, heard) \/ (c.by = "refresh" /\ MeAnswered(c, heard))

SignInNext ==
    \/ WalletComesOrGoes \/ GrantOrRevoke \/ SignInPressed \/ TabReloaded
    \/ \E c \in officerCalls :
         \/ MeServed(c)
         \/ \E s \in 1..MaxSessions : SignInAccepted(c, s)
         \/ \E heard \in BOOLEAN : SignInAnswered(c, heard) \/ MeAnswered(c, heard)
    \/ \E s \in 1..MaxSessions : SessionEnds(s)

-------------------------------------------------------------------------------

SignInTypeOK ==
    /\ officerRows \in [1..MaxSessions -> {"absent", "live", "dead"}]
    /\ officerCookie \in 0..MaxSessions
    /\ auth \in [wallet : BOOLEAN, authorized : BOOLEAN, role : {"USER", "OFFICER"}, grant : BOOLEAN]
    /\ told \in BOOLEAN
    /\ signIn \in {"idle", "sent", "refreshing"}
    /\ officerCalls \subseteq [by : {"mount", "refresh", "signIn"}, sent : 0..MaxSessions,
                               answer : {"none", "ok", "refused"}, sets : 0..MaxSessions]
    /\ (signIn = "idle") = (\A c \in officerCalls : c.by = "mount")

\* Whichever answers overtake which, the portal is shown only to a tab with a
\* connected wallet that the server has told of a live officer session since it was
\* loaded, or whose browser session holds the demo grant (AuthContext.tsx 71-91,
\* RequireOfficer.tsx 91-104); and the cookie is that of a session there was.
PortalIsGuarded ==
    /\ PortalShown => auth.wallet /\ (told \/ auth.grant)
    /\ officerCookie # 0 => officerRows[officerCookie] # "absent"

\* The sign-in, in both its calls.
SignInWaits == <<signIn # "idle">>
===============================================================================
