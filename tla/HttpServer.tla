------------------------------ MODULE HttpServer ------------------------------
(***************************************************************************)
(* server/index.ts: what handle() does with a request around the services. *)
(* A route is described by how it reads its body, the cookie or credential *)
(* it asks for, the limiter it takes from and whether its service waits    *)
(* for a provider. A mail, SMS, KYC, OCR, geocoding or OAuth call is       *)
(* external and ends by an answer, an error or its time-out. Headers and   *)
(* cookies are left out.                                                   *)
(***************************************************************************)
EXTENDS Naturals, FiniteSets

CONSTANTS
    Requests,           \* bound: the numbers of the requests the model follows
    NoRequest

VARIABLES
    request,            \* request[r]: what is being served, or NoRequest
    answered            \* requests that were answered

httpVars == <<request, answered>>

Route(path, reads, asks, limiter, waits) ==
    [path |-> path, reads |-> reads, asks |-> asks, limiter |-> limiter, waits |-> waits]

PlainRoutes == {
    Route("options", "nothing", "none", "none", FALSE),
    Route("health", "nothing", "none", "none", FALSE),
    Route("account/capabilities", "nothing", "none", "none", FALSE),
    Route("registration/capabilities", "nothing", "none", "none", FALSE),
    Route("registration/status", "nothing", "none", "none", FALSE),
    Route("officer/auth/capabilities", "nothing", "none", "none", FALSE),
    Route("unknown", "json", "none", "none", FALSE)}

FactorRoutes == {
    Route("account/register", "json", "none", "register", FALSE),
    Route("account/otp-sms/send", "json", "session", "otp-send", TRUE),
    Route("account/otp-sms/verify", "json", "session", "none", FALSE),
    Route("account/otp-whatsapp/send", "json", "session", "otp-send", TRUE),
    Route("account/otp-whatsapp/verify", "json", "session", "none", FALSE)}

GoogleRoutes == {
    Route("account/google/begin", "json", "session", "none", FALSE),
    Route("account/google/complete", "json", "session", "none", FALSE),
    Route("account/google/callback", "nothing", "none", "none", TRUE)}

WalletRoutes == {
    Route("account/exists", "json", "none", "none", FALSE),
    Route("account/login/state", "json", "none", "none", FALSE),
    Route("account/login/face-verification", "json", "none", "none", FALSE)}

LoginRoutes == {
    Route("account/login", "json", "none", "login", FALSE),
    Route("account/me", "nothing", "session", "none", FALSE),
    Route("account/wallet/associate", "json", "session", "none", FALSE),
    Route("account/logout", "nothing", "none", "none", FALSE)}

BiometricRoutes == {
    Route("biometric/enrollment/begin", "json", "session", "none", FALSE),
    Route("biometric/enrollment/complete", "json", "session", "none", FALSE),
    Route("biometric/revoke", "json", "session", "none", FALSE),
    Route("biometric/verification/begin", "json", "none", "none", FALSE),
    Route("biometric/verification/complete", "json", "session", "none", FALSE),
    Route("account/identity-evidence", "json", "session", "none", FALSE)}

OfficerRoutes == {
    Route("officer/auth/register", "json", "none", "officer", FALSE),
    Route("officer/auth/login", "json", "none", "officer", FALSE),
    Route("officer/auth/me", "nothing", "officer", "none", FALSE),
    Route("officer/auth/logout", "nothing", "none", "none", FALSE)}

RegistrationProfileRoutes == {
    Route("registration/begin", "json", "none", "begin", FALSE),
    Route("registration/personal", "json", "registration", "none", TRUE),
    Route("registration/personal/complete", "json", "registration", "none", FALSE),
    Route("registration/personal/reverse-geocode", "json", "registration", "none", TRUE),
    Route("registration/aadhaar-document", "raw", "registration", "none", TRUE)}

RegistrationProofRoutes == {
    Route("registration/email", "json", "registration", "none", TRUE),
    Route("registration/email/verify", "json", "registration", "none", FALSE),
    Route("registration/aadhaar-mobile/start", "json", "registration", "none", TRUE),
    Route("registration/aadhaar-mobile/complete", "json", "registration", "none", TRUE),
    Route("registration/password", "json", "registration", "none", FALSE),
    Route("registration/liveness/start", "json", "registration", "none", FALSE),
    Route("registration/liveness/evidence", "json", "registration", "none", FALSE)}

RegistrationLastRoutes == {
    Route("registration/location", "json", "registration", "none", TRUE),
    Route("registration/photo", "raw", "registration", "none", FALSE),
    Route("registration/finalize", "json", "registration", "none", FALSE)}

RecoveryRoutes == {
    Route("forgot-password/begin", "json", "none", "forgot", TRUE),
    Route("forgot-password/email/verify", "json", "none", "none", FALSE),
    Route("forgot-password/liveness/start", "json", "none", "none", FALSE),
    Route("forgot-password/liveness/evidence", "json", "none", "none", FALSE),
    Route("forgot-password/biometric/start", "json", "none", "none", FALSE),
    Route("forgot-password/biometric/verify", "json", "none", "none", FALSE),
    Route("forgot-password/reset", "json", "none", "none", FALSE)}

ContactRoutes == {
    Route("email/send-otp", "json", "none", "email-send", TRUE),
    Route("email/verify-otp", "json", "none", "none", FALSE),
    Route("aadhaar-mobile/start", "json", "none", "aadhaar-start", TRUE),
    Route("aadhaar-mobile/complete", "json", "none", "none", TRUE)}

RegistryRoutes == {
    Route("officer/applications POST", "json", "credential", "none", FALSE),
    Route("officer/applications GET", "nothing", "credential", "none", FALSE),
    Route("officer/applications/:id GET", "nothing", "credential", "none", FALSE),
    Route("applications", "json", "none", "none", FALSE)}

Routes == PlainRoutes \cup FactorRoutes \cup GoogleRoutes \cup WalletRoutes \cup LoginRoutes
            \cup BiometricRoutes \cup OfficerRoutes \cup RegistrationProfileRoutes \cup RegistrationProofRoutes
            \cup RegistrationLastRoutes \cup RecoveryRoutes \cup ContactRoutes \cup RegistryRoutes

\* What decides how a request is served.
RouteProfile(route) == [reads |-> route.reads, guarded |-> route.asks # "none",
                   limited |-> route.limiter # "none", waits |-> route.waits]

Profiles == {RouteProfile(route) : route \in Routes}

HttpTypeOK ==
    /\ request \in [Requests ->
           [profile : Profiles, phase : {"reading", "waiting"}] \cup {NoRequest}]
    /\ answered \subseteq Requests

HttpInit ==
    /\ request = [r \in Requests |-> NoRequest]
    /\ answered = {}

-------------------------------------------------------------------------------
Serve(r, p, phase) ==
    /\ request' = [request EXCEPT ![r] = [profile |-> p, phase |-> phase]]
    /\ UNCHANGED answered

SendJson(r) ==
    /\ answered' = answered \cup {r}
    /\ request' = [request EXCEPT ![r] = NoRequest]

\* handle() up to its first await, or to its answer. A cookie that is missing or
\* stale answers a request that reads nothing, or a raw body, at once.
Handle(r, p) ==
    /\ request[r] = NoRequest /\ r \notin answered
    /\ \/ p.reads = "nothing" /\ ~p.waits /\ SendJson(r)
       \/ p.reads = "nothing" /\ p.waits /\ Serve(r, p, "waiting")
       \/ p.reads = "raw" /\ p.guarded /\ SendJson(r)
       \/ p.reads # "nothing" /\ Serve(r, p, "reading")

InPhase(r, phase) == request[r] # NoRequest /\ request[r].phase = phase

\* The body has arrived: the guard, the limiter and the service, up to its await.
BodyEnds(r) ==
    /\ InPhase(r, "reading")
    /\ \/ ~request[r].profile.waits /\ SendJson(r)
       \/ request[r].profile.waits /\ Serve(r, request[r].profile, "waiting")

\* The guard or the limiter answers 401, 403 or 429.
TurnedAway(r) ==
    /\ InPhase(r, "reading")
    /\ request[r].profile.guarded \/ request[r].profile.limited
    /\ SendJson(r)

\* Mutant: only "data" and "end" are listened to.
BodyBreaksUnheard(r) == InPhase(r, "reading") /\ UNCHANGED httpVars

\* The body is too large, is no JSON object, or the connection breaks or times
\* out: the promise resolves to null.
BodyBreaks(r) == InPhase(r, "reading") /\ SendJson(r)

\* The service resolves, or throws and catch answers 500.
ProviderEnds(r) == InPhase(r, "waiting") /\ SendJson(r)

HttpNext ==
    \E r \in Requests :
        \/ BodyEnds(r) \/ TurnedAway(r) \/ BodyBreaks(r) \/ ProviderEnds(r)
        \/ \E p \in Profiles : Handle(r, p)

-------------------------------------------------------------------------------
(* Properties.                                                               *)

\* The requests that wait for their answer. The handler of each comes to its end,
\* whatever becomes of the body and the provider (index.ts:454-503, 2382-2386).
HttpWaits == [r \in Requests |-> request[r] # NoRequest]
===============================================================================
