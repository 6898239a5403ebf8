--------------------------- MODULE OtpService_proofs ---------------------------
(***************************************************************************)
(* Proofs about OtpService for every set of keys, requests and codes and   *)
(* every value of the limits that OtpAssumption allows.                    *)
(***************************************************************************)
EXTENDS OtpService, FiniteSetTheorems, TLAPS

-------------------------------------------------------------------------------
(* A granted commit writes values of the right types.                      *)
LEMMA StoreTyped ==
    ASSUME TypeOK, NEW k \in Keys, NEW c \in Codes, NEW e \in Nat, Store(k, c, e)
    PROVE  /\ active' \in [Keys -> ActiveOtp \cup {None}]
           /\ stamps' \in [Keys -> SUBSET Times]
           /\ lastSent' \in [Keys -> Times \cup {None}]
           /\ sent' \in [Keys -> SUBSET Times]
<1>1. now \in Times /\ Recent(k) \subseteq Times
  BY DEF TypeOK, Recent
<1>2. [code |-> c, expiresAt |-> e, attempts |-> 0, at |-> now] \in ActiveOtp
  <2>1. 0 \in 0..(MaxAttempts - 1)
    BY OtpAssumption
  <2>2. QED
    BY <1>1, <2>1 DEF ActiveOtp
<1>3. active' \in [Keys -> ActiveOtp \cup {None}]
  BY <1>2 DEF TypeOK, Store
<1>4. QED
  BY <1>1, <1>3 DEF TypeOK, Store

(* Every variable keeps its type. *)
THEOREM TypeCorrect == Spec => []TypeOK
<1>1. Init => TypeOK
  BY OtpAssumption DEF Init, TypeOK, Times
<1>2. TypeOK /\ [Next]_vars => TypeOK'
  <2> SUFFICES ASSUME TypeOK, [Next]_vars
               PROVE  TypeOK'
    OBVIOUS
  <2>0. \A k \in Keys : Recent(k) \subseteq Times
    BY DEF TypeOK, Recent
  <2>1. ASSUME NEW r \in Reqs, NEW k \in Keys, NEW c \in Codes, BeginIssue(r, k, c)
        PROVE  TypeOK'
    <3>1. [key |-> k, code |-> c, expiresAt |-> now + Ttl] \in Pending
      BY OtpAssumption DEF TypeOK, Times, Pending
    <3>2. req' \in [Reqs -> Pending \cup {None}]
      BY <2>1, <3>1 DEF BeginIssue, TypeOK
    <3>3. QED
      BY <2>0, <2>1, <3>2 DEF BeginIssue, Prune, TypeOK
  <2>2. ASSUME NEW k \in Keys, BeginRefused(k)
        PROVE  TypeOK'
    BY <2>0, <2>2 DEF BeginRefused, Prune, TypeOK
  <2>3. ASSUME NEW k \in Keys, VerifyExpired(k)
        PROVE  TypeOK'
    BY <2>3 DEF VerifyExpired, TypeOK
  <2>4. ASSUME NEW r \in Reqs, DeliveredThenCommit(r)
        PROVE  TypeOK'
    <3> DEFINE p == req[r]
    <3>1. p.key \in Keys /\ p.code \in Codes /\ p.expiresAt \in Nat
      BY <2>4 DEF DeliveredThenCommit, TypeOK, Pending
    <3>2. /\ active' \in [Keys -> ActiveOtp \cup {None}]
          /\ stamps' \in [Keys -> SUBSET Times]
          /\ lastSent' \in [Keys -> Times \cup {None}]
          /\ sent' \in [Keys -> SUBSET Times]
      <4>1. CASE MaySend(p.key)
        <5>1. Store(p.key, p.code, p.expiresAt)
          BY <2>4, <4>1 DEF DeliveredThenCommit, CommitIssue
        <5>2. QED
          BY <3>1, <5>1, StoreTyped
      <4>2. CASE ~MaySend(p.key)
        <5>1. Prune(p.key) /\ UNCHANGED <<active, lastSent, sent>>
          BY <2>4, <4>2 DEF DeliveredThenCommit, CommitIssue
        <5>2. QED
          BY <2>0, <3>1, <5>1 DEF Prune, TypeOK
      <4>3. QED
        BY <4>1, <4>2
    <3>3. QED
      BY <2>4, <3>1, <3>2 DEF DeliveredThenCommit, TypeOK
  <2>5. ASSUME NEW r \in Reqs, DeliveryFailed(r)
        PROVE  TypeOK'
    BY <2>5 DEF DeliveryFailed, TypeOK
  <2>6. ASSUME NEW k \in Keys, NEW c \in Codes, Issue(k, c)
        PROVE  TypeOK'
    <3>1. now + Ttl \in Nat /\ Store(k, c, now + Ttl)
      BY <2>6, OtpAssumption DEF Issue, TypeOK, Times
    <3>2. QED
      BY <2>6, <3>1, StoreTyped DEF Issue, TypeOK
  <2>7. ASSUME NEW k \in Keys, NEW c \in Codes, Verify(k, c)
        PROVE  TypeOK'
    <3> DEFINE e == active[k]
               n == e.attempts + 1
    <3>1. /\ e \in ActiveOtp
          /\ n \in Nat
          /\ e.at \in Times
      BY <2>7, OtpAssumption DEF Verify, Attempted, AfterGuess, TypeOK, ActiveOtp
    <3>2. ASSUME ~(n >= MaxAttempts)
          PROVE  [e EXCEPT !.attempts = n] \in ActiveOtp
      BY <3>1, <3>2, OtpAssumption DEF ActiveOtp
    <3>3. active' \in [Keys -> ActiveOtp \cup {None}]
      BY <2>7, <3>2 DEF Verify, Attempted, AfterGuess, TypeOK
    <3>4. tried' \in [Keys -> [Times -> Nat]]
      BY <2>7, <3>1 DEF Verify, Attempted, AfterGuess, TypeOK
    <3>5. accepted' \in [Keys -> SUBSET (Times \X Times)]
      BY <2>7, <3>1 DEF Verify, Attempted, AfterGuess, TypeOK
    <3>6. QED
      BY <2>7, <3>3, <3>4, <3>5 DEF Verify, Attempted, AfterGuess, TypeOK
  <2>8. CASE Sweep
    BY <2>8 DEF Sweep, TypeOK
  <2>9. CASE Tick
    BY <2>9, OtpAssumption DEF Tick, TypeOK, Times
  <2>10. CASE UNCHANGED vars
    BY <2>10 DEF vars, TypeOK
  <2>11. QED
    BY <2>1, <2>2, <2>3, <2>4, <2>5, <2>6, <2>7, <2>8, <2>9, <2>10 DEF Next
<1>3. QED
  BY <1>1, <1>2, PTL DEF Spec

-------------------------------------------------------------------------------
(* The inductive invariant. SendBudget and CooldownGap speak of every code  *)
(* ever stored, the code only sees stamps and lastSent: HistoryKept says    *)
(* that what pruning and sweeping forget is too old to matter. The bounds   *)
(* on guesses need CodeKept: the live entry is the one its store time names.*)

HistoryKept ==
    \A k \in Keys :
        /\ stamps[k] \subseteq sent[k]
        /\ \A s \in sent[k] :
             /\ s <= now
             /\ now - s < Window => s \in stamps[k]
             /\ lastSent[k] = None => now - s >= Window
             /\ lastSent[k] # None => s <= lastSent[k]

CodeKept ==
    \A k \in Keys : active[k] # None =>
        /\ active[k].at \in sent[k]
        /\ active[k].expiresAt <= active[k].at + Ttl
        /\ tried[k][active[k].at] = active[k].attempts
        /\ \A a \in accepted[k] : a[1] # active[k].at

PendingKept == \A r \in Reqs : req[r] # None => req[r].expiresAt <= now + Ttl

UntriedKept == \A k \in Keys : \A t \in Times \ sent[k] : tried[k][t] = 0

IInv ==
    /\ TypeOK
    /\ HistoryKept
    /\ CodeKept
    /\ PendingKept
    /\ UntriedKept
    /\ SendBudget
    /\ CooldownGap
    /\ AttemptCap
    /\ AcceptedOnceAndFresh
    /\ StoredImpliesDelivered

(* A set of clock values is finite, so its parts are no larger than it.     *)
LEMMA TimesFinite ==
    ASSUME NEW S \in SUBSET Times, NEW T \in SUBSET S
    PROVE  /\ IsFiniteSet(S)
           /\ Cardinality(S) \in Nat
           /\ Cardinality(T) \in Nat
           /\ Cardinality(T) <= Cardinality(S)
<1>1. IsFiniteSet(Times)
  BY FS_Interval, OtpAssumption DEF Times
<1>2. IsFiniteSet(S)
  BY <1>1, FS_Subset
<1>3. QED
  BY <1>2, FS_Subset, FS_CardinalityType

(* When the checks pass, every stored code of the key is a cooldown old, so *)
(* the current instant names no earlier code.                               *)
LEMMA GrantIsNew ==
    ASSUME IInv, NEW k \in Keys, MaySend(k)
    PROVE  /\ now \notin sent[k]
           /\ \A s \in sent[k] : s < now /\ now - s >= Cooldown
<1>1. ASSUME NEW s \in sent[k]
      PROVE  s < now /\ now - s >= Cooldown
  <2>1. s \in Nat /\ now \in Nat /\ s <= now
    BY OtpAssumption DEF IInv, TypeOK, HistoryKept, Times
  <2>2. CASE lastSent[k] = None
    BY <2>1, <2>2, OtpAssumption DEF IInv, HistoryKept
  <2>3. CASE lastSent[k] # None
    <3>1. lastSent[k] \in Nat /\ s <= lastSent[k] /\ now - lastSent[k] >= Cooldown
      BY <2>3, OtpAssumption DEF IInv, TypeOK, Times, HistoryKept, MaySend, Cooled
    <3>2. QED
      BY <2>1, <3>1, OtpAssumption
  <2>4. QED
    BY <2>2, <2>3
<1>2. QED
  BY <1>1, OtpAssumption DEF IInv, TypeOK, Times

(* A granted commit stays inside the budget: a window that reaches now only *)
(* holds stamps that survived the pruning, fewer than MaxSends of them.     *)
LEMMA GrantWithinBudget ==
    ASSUME IInv, NEW k \in Keys, MaySend(k), NEW t \in Times
    PROVE  Cardinality({s \in sent[k] \cup {now} : s <= t /\ t - s < Window}) <= MaxSends
<1> DEFINE W == {s \in sent[k] \cup {now} : s <= t /\ t - s < Window}
<1>1. now \in Times /\ sent[k] \subseteq Times /\ now \in Nat /\ t \in Nat
  BY OtpAssumption DEF IInv, TypeOK, Times
<1>2. CASE t < now
  <2>1. W = {s \in sent[k] : s <= t /\ t - s < Window}
    BY <1>1, <1>2
  <2>2. QED
    BY <2>1 DEF IInv, SendBudget
<1>3. CASE now <= t
  <2>1. W \subseteq Recent(k) \cup {now}
    <3>1. ASSUME NEW s \in sent[k], t - s < Window
          PROVE  s \in Recent(k)
      <4>1. s \in Nat /\ s <= now
        BY <1>1, OtpAssumption DEF IInv, HistoryKept, Times
      <4>2. now - s < Window
        BY <1>1, <1>3, <3>1, <4>1, OtpAssumption
      <4>3. QED
        BY <4>2 DEF IInv, HistoryKept, Recent
    <3>2. QED
      BY <3>1
  <2>2. Recent(k) \in SUBSET Times /\ now \notin Recent(k)
    BY GrantIsNew DEF IInv, TypeOK, HistoryKept, Recent
  <2>3. IsFiniteSet(Recent(k)) /\ Cardinality(Recent(k)) \in Nat
    BY <2>2, TimesFinite
  <2>4. Cardinality(Recent(k) \cup {now}) = Cardinality(Recent(k)) + 1
    BY <2>2, <2>3, FS_AddElement
  <2>5. Cardinality(W) <= Cardinality(Recent(k) \cup {now}) /\ Cardinality(W) \in Nat
    <3>1. Recent(k) \cup {now} \in SUBSET Times
      BY <1>1, <2>2
    <3>2. QED
      BY <2>1, <3>1, TimesFinite
  <2>6. Cardinality(Recent(k)) < MaxSends
    BY DEF MaySend, UnderCap
  <2>7. QED
    BY <2>3, <2>4, <2>5, <2>6, OtpAssumption
<1>4. QED
  BY <1>1, <1>2, <1>3

(* A granted commit keeps every part of the invariant that it touches.      *)
LEMMA StoreKeeps ==
    ASSUME IInv, NEW k \in Keys, NEW c \in Codes, NEW e \in Nat,
           MaySend(k), Store(k, c, e), e <= now + Ttl,
           UNCHANGED <<now, client, tried, accepted>>,
           mailbox' \in [Keys -> SUBSET Codes],
           \A j \in Keys : mailbox[j] \subseteq mailbox'[j],
           client[k] = "two-phase" => c \in mailbox'[k]
    PROVE  /\ HistoryKept'
           /\ CodeKept'
           /\ UntriedKept'
           /\ SendBudget'
           /\ CooldownGap'
           /\ AttemptCap'
           /\ AcceptedOnceAndFresh'
           /\ StoredImpliesDelivered'
<1>1. /\ sent'[k] = sent[k] \cup {now}
      /\ \A j \in Keys \ {k} : sent'[j] = sent[j]
      /\ stamps'[k] = Recent(k) \cup {now}
      /\ \A j \in Keys \ {k} : stamps'[j] = stamps[j]
      /\ lastSent'[k] = now
      /\ \A j \in Keys \ {k} : lastSent'[j] = lastSent[j]
      /\ active'[k] = [code |-> c, expiresAt |-> e, attempts |-> 0, at |-> now]
      /\ \A j \in Keys \ {k} : active'[j] = active[j]
  BY DEF IInv, TypeOK, Store
<1>2. /\ now' = now /\ client' = client /\ tried' = tried /\ accepted' = accepted
      /\ now \in Nat /\ now \in Times /\ now # None
  BY OtpAssumption DEF IInv, TypeOK, Times
<1>3. now \notin sent[k] /\ \A s \in sent[k] : s < now /\ now - s >= Cooldown
  BY GrantIsNew
<1>4. HistoryKept'
  <2> SUFFICES ASSUME NEW j \in Keys
               PROVE  /\ stamps'[j] \subseteq sent'[j]
                      /\ \A s \in sent'[j] :
                           /\ s <= now
                           /\ now - s < Window => s \in stamps'[j]
                           /\ lastSent'[j] = None => now - s >= Window
                           /\ lastSent'[j] # None => s <= lastSent'[j]
    BY <1>2 DEF HistoryKept
  <2>1. CASE j = k
    <3>1. sent[k] \subseteq Nat
      BY OtpAssumption DEF IInv, TypeOK, Times
    <3>2. QED
      BY <1>1, <1>2, <1>3, <2>1, <3>1 DEF IInv, HistoryKept, Recent
  <2>2. CASE j # k
    BY <1>1, <2>2 DEF IInv, HistoryKept
  <2>3. QED
    BY <2>1, <2>2
<1>5. CodeKept'
  <2> SUFFICES ASSUME NEW j \in Keys, active'[j] # None
               PROVE  /\ active'[j].at \in sent'[j]
                      /\ active'[j].expiresAt <= active'[j].at + Ttl
                      /\ tried[j][active'[j].at] = active'[j].attempts
                      /\ \A a \in accepted[j] : a[1] # active'[j].at
    BY <1>2 DEF CodeKept
  <2>1. CASE j = k
    <3>1. tried[k][now] = 0
      BY <1>2, <1>3 DEF IInv, UntriedKept
    <3>2. \A a \in accepted[k] : a[1] # now
      BY <1>3 DEF IInv, AcceptedOnceAndFresh
    <3>3. QED
      BY <1>1, <2>1, <3>1, <3>2
  <2>2. CASE j # k
    BY <1>1, <2>2 DEF IInv, CodeKept
  <2>3. QED
    BY <2>1, <2>2
<1>6. UntriedKept'
  BY <1>1, <1>2 DEF IInv, UntriedKept
<1>7. SendBudget'
  <2> SUFFICES ASSUME NEW j \in Keys, NEW t \in Times
               PROVE  Cardinality({s \in sent'[j] : s <= t /\ t - s < Window}) <= MaxSends
    BY DEF SendBudget
  <2>1. CASE j = k
    BY <1>1, <2>1, GrantWithinBudget
  <2>2. CASE j # k
    BY <1>1, <2>2 DEF IInv, SendBudget
  <2>3. QED
    BY <2>1, <2>2
<1>8. CooldownGap'
  <2> SUFFICES ASSUME NEW j \in Keys, NEW s \in sent'[j], NEW t \in sent'[j], s < t
               PROVE  t - s >= Cooldown
    BY DEF CooldownGap
  <2>1. CASE j = k /\ s = now
    <3>1. t \in Nat /\ (t = now \/ t < now)
      BY <1>1, <1>2, <1>3, <2>1, OtpAssumption DEF IInv, TypeOK, Times
    <3>2. QED
      BY <1>2, <2>1, <3>1
  <2>2. CASE j = k /\ s # now
    BY <1>1, <1>3, <2>2 DEF IInv, CooldownGap
  <2>3. CASE j # k
    BY <1>1, <2>3 DEF IInv, CooldownGap
  <2>4. QED
    BY <2>1, <2>2, <2>3
<1>9. AttemptCap'
  BY <1>2 DEF IInv, AttemptCap
<1>10. AcceptedOnceAndFresh'
  BY <1>1, <1>2 DEF IInv, AcceptedOnceAndFresh
<1>11. StoredImpliesDelivered'
  BY <1>1, <1>2 DEF IInv, StoredImpliesDelivered
<1>12. QED
  BY <1>4, <1>5, <1>6, <1>7, <1>8, <1>9, <1>10, <1>11

(* SendBudget, CooldownGap, AttemptCap, AcceptedOnceAndFresh and              *)
(* StoredImpliesDelivered hold of otp-service.ts for every instance: they are *)
(* parts of an invariant that every step keeps.                               *)
THEOREM Inductive == Spec => []IInv
<1>1. Init => IInv
  <2> SUFFICES ASSUME Init
               PROVE  IInv
    OBVIOUS
  <2>1. TypeOK
    BY OtpAssumption DEF Init, TypeOK, Times
  <2>2. SendBudget
    <3>1. \A k \in Keys, t \in Times : {s \in sent[k] : s <= t /\ t - s < Window} = {}
      BY DEF Init
    <3>2. QED
      BY <3>1, FS_EmptySet, OtpAssumption DEF SendBudget
  <2>3. QED
    BY <2>1, <2>2, OtpAssumption
    DEF Init, IInv, HistoryKept, CodeKept, PendingKept, UntriedKept, CooldownGap,
        AttemptCap, AcceptedOnceAndFresh, StoredImpliesDelivered
<1>2. IInv /\ TypeOK' /\ [Next]_vars => IInv'
  <2> SUFFICES ASSUME IInv, TypeOK', [Next]_vars
               PROVE  IInv'
    OBVIOUS
  <2>0. now \in Nat /\ \A k \in Keys : sent[k] \subseteq Nat
    BY OtpAssumption DEF IInv, TypeOK, Times
  <2>a. \A r \in Reqs : req[r] # None =>
            req[r].key \in Keys /\ req[r].code \in Codes /\ req[r].expiresAt \in Nat
    BY DEF IInv, TypeOK, Pending
  \* Pruning is the only thing a refused request does.
  <2>b. ASSUME NEW k \in Keys, Prune(k),
               UNCHANGED <<now, client, active, lastSent, sent, tried, accepted>>,
               \A j \in Keys : mailbox[j] \subseteq mailbox'[j]
        PROVE  /\ HistoryKept' /\ CodeKept' /\ UntriedKept' /\ SendBudget'
               /\ CooldownGap' /\ AttemptCap' /\ AcceptedOnceAndFresh'
               /\ StoredImpliesDelivered'
    <3>1. HistoryKept'
      <4>1. stamps'[k] = Recent(k) /\ \A j \in Keys \ {k} : stamps'[j] = stamps[j]
        BY <2>b DEF Prune, IInv, TypeOK
      <4>2. QED
        BY <2>b, <4>1 DEF IInv, HistoryKept, Recent
    <3>2. CodeKept' /\ UntriedKept' /\ SendBudget' /\ CooldownGap' /\ AttemptCap'
          /\ AcceptedOnceAndFresh'
      BY <2>b DEF IInv, CodeKept, UntriedKept, SendBudget, CooldownGap, AttemptCap,
                  AcceptedOnceAndFresh
    <3>3. StoredImpliesDelivered'
      BY <2>b DEF IInv, StoredImpliesDelivered
    <3>4. QED
      BY <3>1, <3>2, <3>3
  <2>1. ASSUME NEW r \in Reqs, NEW k \in Keys, NEW c \in Codes, BeginIssue(r, k, c)
        PROVE  IInv'
    <3>1. PendingKept'
      BY <2>0, <2>1, OtpAssumption DEF BeginIssue, IInv, TypeOK, PendingKept
    <3>2. QED
      BY <2>1, <2>b, <3>1 DEF BeginIssue, IInv
  <2>2. ASSUME NEW k \in Keys, BeginRefused(k)
        PROVE  IInv'
    <3>1. PendingKept'
      BY <2>2 DEF BeginRefused, IInv, PendingKept
    <3>2. QED
      BY <2>2, <2>b, <3>1 DEF BeginRefused, IInv
  <2>3. ASSUME NEW k \in Keys, VerifyExpired(k)
        PROVE  IInv'
    <3>1. active'[k] = None /\ \A j \in Keys \ {k} : active'[j] = active[j]
      BY <2>3 DEF VerifyExpired, IInv, TypeOK
    <3>2. CodeKept' /\ StoredImpliesDelivered'
      BY <2>3, <3>1 DEF VerifyExpired, IInv, CodeKept, StoredImpliesDelivered
    <3>3. QED
      BY <2>3, <3>2 DEF VerifyExpired, IInv, HistoryKept, PendingKept, UntriedKept,
                        SendBudget, CooldownGap, AttemptCap, AcceptedOnceAndFresh
  <2>4. ASSUME NEW r \in Reqs, DeliveredThenCommit(r)
        PROVE  IInv'
    <3> DEFINE p == req[r]
    <3>1. p.key \in Keys /\ p.code \in Codes /\ p.expiresAt \in Nat /\ p.expiresAt <= now + Ttl
      BY <2>4, <2>a DEF DeliveredThenCommit, IInv, PendingKept
    <3>2. /\ \A j \in Keys : mailbox[j] \subseteq mailbox'[j]
          /\ p.code \in mailbox'[p.key]
          /\ mailbox' \in [Keys -> SUBSET Codes]
          /\ UNCHANGED <<now, client, tried, accepted>>
      BY <2>4, <3>1 DEF DeliveredThenCommit, IInv, TypeOK
    <3>3. PendingKept'
      BY <2>4 DEF DeliveredThenCommit, IInv, TypeOK, PendingKept
    <3>4. CASE MaySend(p.key)
      <4>1. Store(p.key, p.code, p.expiresAt)
        BY <2>4, <3>4 DEF DeliveredThenCommit, CommitIssue
      <4>2. QED
        BY <3>1, <3>2, <3>3, <3>4, <4>1, StoreKeeps DEF IInv
    <3>5. CASE ~MaySend(p.key)
      <4>1. Prune(p.key) /\ UNCHANGED <<active, lastSent, sent>>
        BY <2>4, <3>5 DEF DeliveredThenCommit, CommitIssue
      <4>2. QED
        BY <2>b, <3>1, <3>2, <3>3, <4>1 DEF IInv
    <3>6. QED
      BY <3>4, <3>5
  <2>5. ASSUME NEW r \in Reqs, DeliveryFailed(r)
        PROVE  IInv'
    <3>1. PendingKept'
      BY <2>5 DEF DeliveryFailed, IInv, TypeOK, PendingKept
    <3>2. QED
      BY <2>5, <3>1 DEF DeliveryFailed, IInv, HistoryKept, CodeKept, UntriedKept, SendBudget,
                        CooldownGap, AttemptCap, AcceptedOnceAndFresh, StoredImpliesDelivered
  <2>6. ASSUME NEW k \in Keys, NEW c \in Codes, Issue(k, c)
        PROVE  IInv'
    <3>1. now + Ttl \in Nat /\ Store(k, c, now + Ttl) /\ MaySend(k) /\ client[k] # "two-phase"
      BY <2>0, <2>6, OtpAssumption DEF Issue
    <3>2. UNCHANGED <<now, client, tried, accepted, mailbox, req>>
      BY <2>6 DEF Issue
    <3>3. now + Ttl <= now + Ttl /\ mailbox' \in [Keys -> SUBSET Codes]
          /\ \A j \in Keys : mailbox[j] \subseteq mailbox'[j]
      BY <2>0, <3>2, OtpAssumption DEF IInv, TypeOK
    <3>4. PendingKept'
      BY <3>2 DEF IInv, PendingKept
    <3>5. QED
      BY <3>1, <3>2, <3>3, <3>4, StoreKeeps DEF IInv
  <2>7. ASSUME NEW k \in Keys, NEW c \in Codes, Verify(k, c)
        PROVE  IInv'
    <3> DEFINE e == active[k]
               n == e.attempts + 1
               match == n <= MaxAttempts /\ c = e.code
    <3>1. /\ e # None /\ now < e.expiresAt
          /\ e.attempts \in 0..(MaxAttempts - 1)
          /\ e.at \in Times /\ e.at \in Nat /\ e.expiresAt \in Nat
          /\ e.at \in sent[k] /\ e.expiresAt <= e.at + Ttl
          /\ tried[k][e.at] = e.attempts
          /\ \A a \in accepted[k] : a[1] # e.at
          /\ e.at <= now
      BY <2>7, OtpAssumption DEF Verify, Attempted, AfterGuess, IInv, TypeOK, ActiveOtp, Times, CodeKept, HistoryKept
    <3>2. n \in Nat /\ n <= MaxAttempts
      BY <3>1, OtpAssumption
    <3>3. /\ UNCHANGED <<now, client, stamps, lastSent, req, sent, mailbox>>
          /\ tried' = [tried EXCEPT ![k][e.at] = @ + 1]
          /\ accepted' = IF match THEN [accepted EXCEPT ![k] = @ \cup {<<e.at, now>>}]
                          ELSE accepted
          /\ active' = [active EXCEPT ![k] =
                           IF match \/ n >= MaxAttempts THEN None ELSE [e EXCEPT !.attempts = n]]
      BY <2>7, <3>2 DEF Verify, Attempted, AfterGuess
    <3>4. /\ tried'[k][e.at] = n
          /\ \A t \in Times \ {e.at} : tried'[k][t] = tried[k][t]
          /\ \A j \in Keys \ {k} : tried'[j] = tried[j]
      BY <3>1, <3>3 DEF IInv, TypeOK
    <3>5. /\ active'[k] # None => /\ active'[k] = [e EXCEPT !.attempts = n]
                                   /\ accepted' = accepted
          /\ \A j \in Keys \ {k} : active'[j] = active[j] /\ accepted'[j] = accepted[j]
      BY <3>3 DEF IInv, TypeOK
    <3>6. /\ [e EXCEPT !.attempts = n].at = e.at
          /\ [e EXCEPT !.attempts = n].expiresAt = e.expiresAt
          /\ [e EXCEPT !.attempts = n].attempts = n
          /\ [e EXCEPT !.attempts = n].code = e.code
      BY <3>1 DEF IInv, TypeOK, ActiveOtp
    <3>7. CodeKept'
      <4> SUFFICES ASSUME NEW j \in Keys, active'[j] # None
                   PROVE  /\ active'[j].at \in sent[j]
                          /\ active'[j].expiresAt <= active'[j].at + Ttl
                          /\ tried'[j][active'[j].at] = active'[j].attempts
                          /\ \A a \in accepted'[j] : a[1] # active'[j].at
        BY <3>3 DEF CodeKept
      <4>1. CASE j = k
        <5>1. /\ active'[k].at = e.at
              /\ active'[k].expiresAt = e.expiresAt
              /\ active'[k].attempts = n
              /\ accepted'[k] = accepted[k]
          BY <3>5, <3>6, <4>1
        <5>2. QED
          BY <3>1, <3>4, <4>1, <5>1
      <4>2. CASE j # k
        BY <3>4, <3>5, <4>2 DEF IInv, CodeKept
      <4>3. QED
        BY <4>1, <4>2
    <3>8. UntriedKept'
      BY <3>1, <3>3, <3>4 DEF IInv, UntriedKept
    <3>9. AttemptCap'
      BY <3>2, <3>4 DEF IInv, AttemptCap
    <3>10. AcceptedOnceAndFresh'
      <4>1. accepted'[k] \subseteq accepted[k] \cup {<<e.at, now>>}
        BY <3>3 DEF IInv, TypeOK
      <4>2. now - e.at < Ttl
        BY <2>0, <3>1, OtpAssumption
      <4>3. QED
        BY <3>1, <3>3, <3>5, <4>1, <4>2 DEF IInv, AcceptedOnceAndFresh
    <3>11. StoredImpliesDelivered'
      BY <3>1, <3>3, <3>5, <3>6 DEF IInv, StoredImpliesDelivered
    <3>12. QED
      BY <3>3, <3>7, <3>8, <3>9, <3>10, <3>11
      DEF IInv, HistoryKept, PendingKept, SendBudget, CooldownGap
  <2>8. CASE Sweep
    <3>1. HistoryKept'
      <4> SUFFICES ASSUME NEW k \in Keys
                   PROVE  /\ stamps'[k] \subseteq sent[k]
                          /\ \A s \in sent[k] :
                               /\ s <= now
                               /\ now - s < Window => s \in stamps'[k]
                               /\ lastSent'[k] = None => now - s >= Window
                               /\ lastSent'[k] # None => s <= lastSent'[k]
        BY <2>8 DEF Sweep, HistoryKept
      <4>1. CASE Recent(k) = {}
        <5>1. stamps'[k] = {} /\ lastSent'[k] = None
          BY <2>8, <4>1 DEF Sweep
        <5>2. \A s \in sent[k] : ~(now - s < Window)
          BY <4>1 DEF IInv, HistoryKept, Recent
        <5>3. \A s \in sent[k] : now - s >= Window
          BY <2>0, <5>2, OtpAssumption
        <5>4. QED
          BY <2>0, <5>1, <5>2, <5>3 DEF IInv, HistoryKept
      <4>2. CASE Recent(k) # {}
        BY <2>8, <4>2 DEF Sweep, IInv, HistoryKept
      <4>3. QED
        BY <4>1, <4>2
    <3>2. CodeKept' /\ StoredImpliesDelivered'
      BY <2>8 DEF Sweep, IInv, CodeKept, StoredImpliesDelivered
    <3>3. QED
      BY <2>8, <3>1, <3>2 DEF Sweep, IInv, PendingKept, UntriedKept, SendBudget, CooldownGap,
                              AttemptCap, AcceptedOnceAndFresh
  <2>9. CASE Tick
    <3>1. now' = now + 1
      BY <2>9 DEF Tick
    <3>2. HistoryKept'
      BY <2>0, <2>9, <3>1, OtpAssumption DEF Tick, IInv, HistoryKept
    <3>3. PendingKept'
      BY <2>0, <2>9, <2>a, <3>1, OtpAssumption DEF Tick, IInv, PendingKept
    <3>4. QED
      BY <2>9, <3>2, <3>3 DEF Tick, IInv, CodeKept, UntriedKept, SendBudget, CooldownGap,
                              AttemptCap, AcceptedOnceAndFresh, StoredImpliesDelivered
  <2>10. CASE UNCHANGED vars
    BY <2>10 DEF vars, IInv, HistoryKept, CodeKept, PendingKept, UntriedKept, SendBudget,
                 CooldownGap, AttemptCap, AcceptedOnceAndFresh, StoredImpliesDelivered
  <2>11. QED
    BY <2>1, <2>2, <2>3, <2>4, <2>5, <2>6, <2>7, <2>8, <2>9, <2>10 DEF Next
<1>3. QED
  BY <1>1, <1>2, TypeCorrect, PTL DEF Spec

(* otp-service.ts, header: codes stored per key and rolling window are capped. *)
THEOREM SendBudgetHolds == Spec => []SendBudget
  BY Inductive, PTL DEF IInv

(* otp-service.ts, header: stored codes of a key are a cooldown apart.         *)
THEOREM CooldownGapHolds == Spec => []CooldownGap
  BY Inductive, PTL DEF IInv

(* otp-service.ts, header: a stored code answers at most MaxAttempts guesses.  *)
THEOREM AttemptCapHolds == Spec => []AttemptCap
  BY Inductive, PTL DEF IInv

(* otp-service.ts, header: a stored code lets one guess in, within Ttl.        *)
THEOREM AcceptedOnceAndFreshHolds == Spec => []AcceptedOnceAndFresh
  BY Inductive, PTL DEF IInv

(* otp-service.ts:120-126: two-phase clients never store an undelivered code.  *)
THEOREM StoredImpliesDeliveredHolds == Spec => []StoredImpliesDelivered
  BY Inductive, PTL DEF IInv

-------------------------------------------------------------------------------
(* The service implements the promise its clients rely on.                     *)

Left(k) == MaxAttempts - active[k].attempts

(* The mapped code of a key depends on its entry only.                         *)
LEMMA ArmedAt ==
    ASSUME NEW k \in Keys
    PROVE  ArmedCodes[k] = IF active[k] = None THEN None
                           ELSE [code |-> active[k].code, left |-> Left(k)]
  BY DEF ArmedCodes, Left

(* A live entry maps to an armed code with at least one guess left.            *)
LEMMA ArmedLive ==
    ASSUME TypeOK, NEW k \in Keys, active[k] # None
    PROVE  /\ ArmedCodes[k] # None
           /\ ArmedCodes[k].code = active[k].code
           /\ ArmedCodes[k].left = Left(k)
           /\ Left(k) \in 1..MaxAttempts
           /\ active[k].attempts \in 0..(MaxAttempts - 1)
<1>1. active[k].code \in Codes /\ active[k].attempts \in 0..(MaxAttempts - 1)
  BY DEF TypeOK, ActiveOtp
<1>2. Left(k) \in 1..MaxAttempts
  BY <1>1, OtpAssumption DEF Left
<1>3. [code |-> active[k].code, left |-> Left(k)] \in [code : Codes, left : 1..MaxAttempts]
  BY <1>1, <1>2
<1>4. [code |-> active[k].code, left |-> Left(k)] # None
  BY <1>3, OtpAssumption
<1>5. ArmedCodes[k] = [code |-> active[k].code, left |-> Left(k)]
  BY ArmedAt
<1>6. QED
  BY <1>1, <1>2, <1>4, <1>5

(* Storing a code is arming it.                                                *)
LEMMA StoreArms ==
    ASSUME TypeOK, NEW k \in Keys, NEW c \in Codes, NEW e \in Nat, Store(k, c, e)
    PROVE  Promise!Arm(k, c)
<1> DEFINE entry == [code |-> c, expiresAt |-> e, attempts |-> 0, at |-> now]
<1>1. active' = [active EXCEPT ![k] = entry]
  BY DEF Store
<1>2. entry # None
  <2>1. entry \in [code : Codes, expiresAt : Nat, attempts : 0..MaxAttempts, at : Times]
    BY OtpAssumption DEF TypeOK
  <2>2. QED
    BY <2>1, OtpAssumption
<1>3. MaxAttempts - entry.attempts = MaxAttempts /\ entry.code = c
  BY OtpAssumption
<1>4. ArmedCodes' = [ArmedCodes EXCEPT ![k] = [code |-> c, left |-> MaxAttempts]]
  <2>1. \A j \in Keys : ArmedCodes'[j] = IF j = k THEN [code |-> c, left |-> MaxAttempts]
                                         ELSE ArmedCodes[j]
    <3> HIDE DEF entry
    <3>1. \A j \in Keys : active'[j] = IF j = k THEN entry ELSE active[j]
      BY <1>1 DEF TypeOK
    <3>2. QED
      BY <1>2, <1>3, <3>1 DEF ArmedCodes
  <2>2. QED
    BY <2>1 DEF ArmedCodes
<1>5. QED
  BY <1>4 DEF Promise!Arm, Promise!Fresh

(* Every step of the service is a step of OneTimeCode or leaves it unchanged:  *)
(* storing arms, verify() is a right or a wrong guess, and expiry and sweep()  *)
(* let codes lapse.                                                            *)
THEOREM Implements == Spec => ImplementsOneTimeCode
<1>1. Init => Promise!OtcInit
  BY DEF Init, ArmedCodes, Promise!OtcInit
<1>2. TypeOK /\ [Next]_vars => [Promise!OtcNext]_ArmedCodes
  <2> SUFFICES ASSUME TypeOK, [Next]_vars
               PROVE  Promise!OtcNext \/ ArmedCodes' = ArmedCodes
    OBVIOUS
  <2>0. ASSUME active' = active
        PROVE  ArmedCodes' = ArmedCodes
    BY <2>0 DEF ArmedCodes
  <2>1. ASSUME NEW r \in Reqs, NEW k \in Keys, NEW c \in Codes, BeginIssue(r, k, c)
        PROVE  ArmedCodes' = ArmedCodes
    BY <2>0, <2>1 DEF BeginIssue
  <2>2. ASSUME NEW k \in Keys, BeginRefused(k)
        PROVE  ArmedCodes' = ArmedCodes
    BY <2>0, <2>2 DEF BeginRefused
  <2>3. ASSUME NEW k \in Keys, VerifyExpired(k)
        PROVE  Promise!OtcNext
    <3>1. Promise!Lapse({k})
      BY <2>3 DEF VerifyExpired, Promise!Lapse, ArmedCodes, TypeOK
    <3>2. QED
      BY <3>1 DEF Promise!OtcNext
  <2>4. ASSUME NEW r \in Reqs, DeliveredThenCommit(r)
        PROVE  Promise!OtcNext \/ ArmedCodes' = ArmedCodes
    <3> DEFINE p == req[r]
    <3>1. p.key \in Keys /\ p.code \in Codes /\ p.expiresAt \in Nat
      BY <2>4 DEF DeliveredThenCommit, TypeOK, Pending
    <3>2. CASE MaySend(p.key)
      <4>1. Store(p.key, p.code, p.expiresAt)
        BY <2>4, <3>2 DEF DeliveredThenCommit, CommitIssue
      <4>2. Promise!Arm(p.key, p.code)
        BY <3>1, <4>1, StoreArms
      <4>3. QED
        BY <3>1, <4>2 DEF Promise!OtcNext
    <3>3. CASE ~MaySend(p.key)
      BY <2>0, <2>4, <3>3 DEF DeliveredThenCommit, CommitIssue
    <3>4. QED
      BY <3>2, <3>3
  <2>5. ASSUME NEW r \in Reqs, DeliveryFailed(r)
        PROVE  ArmedCodes' = ArmedCodes
    BY <2>0, <2>5 DEF DeliveryFailed
  <2>6. ASSUME NEW k \in Keys, NEW c \in Codes, Issue(k, c)
        PROVE  Promise!OtcNext
    <3>1. Store(k, c, now + Ttl) /\ now + Ttl \in Nat
      BY <2>6, OtpAssumption DEF Issue, TypeOK, Times
    <3>2. Promise!Arm(k, c)
      BY <3>1, StoreArms
    <3>3. QED
      BY <3>2 DEF Promise!OtcNext
  <2>7. ASSUME NEW k \in Keys, NEW c \in Codes, Verify(k, c)
        PROVE  Promise!OtcNext
    <3> DEFINE e == active[k]
               n == e.attempts + 1
               rest == [e EXCEPT !.attempts = n]
    <3>1. /\ ArmedCodes[k] # None
          /\ ArmedCodes[k].code = e.code
          /\ ArmedCodes[k].left = Left(k)
          /\ Left(k) \in 1..MaxAttempts
          /\ e.attempts \in 0..(MaxAttempts - 1)
          /\ e \in ActiveOtp
      BY <2>7, ArmedLive DEF Verify, Attempted, AfterGuess, TypeOK
    <3>2. n \in Nat /\ n <= MaxAttempts /\ (n >= MaxAttempts <=> Left(k) = 1)
      BY <3>1, OtpAssumption DEF Left
    <3>3. active' = [active EXCEPT ![k] =
                       IF c = e.code \/ n >= MaxAttempts THEN None ELSE rest]
      BY <2>7, <3>2 DEF Verify, Attempted, AfterGuess
    <3>4. CASE c = e.code
      <4>1. Promise!RightGuess(k, c)
        BY <3>1, <3>3, <3>4 DEF Promise!RightGuess, ArmedCodes, TypeOK
      <4>2. QED
        BY <4>1 DEF Promise!OtcNext
    <3>5. CASE c # e.code /\ n >= MaxAttempts
      <4>1. ArmedCodes' = [ArmedCodes EXCEPT ![k] = None]
        BY <3>3, <3>5 DEF ArmedCodes, TypeOK
      <4>2. Promise!WrongGuess(k, c)
        BY <3>1, <3>2, <3>5, <4>1 DEF Promise!WrongGuess
      <4>3. QED
        BY <4>2 DEF Promise!OtcNext
    <3>6. CASE c # e.code /\ ~(n >= MaxAttempts)
      <4>1. rest \in ActiveOtp
        BY <3>1, <3>2, <3>6, OtpAssumption DEF ActiveOtp
      <4>2. rest # None /\ rest.code = e.code /\ rest.attempts = n
        <5>1. rest \in [code : Codes, expiresAt : Nat, attempts : 0..MaxAttempts, at : Times]
          BY <3>1, <3>2, OtpAssumption DEF ActiveOtp
        <5>2. rest # None
          BY <5>1, OtpAssumption
        <5>3. QED
          BY <3>1, <5>2 DEF ActiveOtp
      <4>3. MaxAttempts - n = Left(k) - 1
        BY <3>1, OtpAssumption DEF Left
      <4>4. ArmedCodes[k] = [code |-> e.code, left |-> Left(k)]
        BY <2>7, ArmedAt DEF Verify, Attempted, AfterGuess
      <4>5. ArmedCodes' = [ArmedCodes EXCEPT ![k] = [code |-> e.code, left |-> Left(k) - 1]]
        <5>1. \A j \in Keys : ArmedCodes'[j] =
                  IF j = k THEN [code |-> e.code, left |-> Left(k) - 1] ELSE ArmedCodes[j]
          <6> HIDE DEF rest
          <6>1. \A j \in Keys : active'[j] = IF j = k THEN rest ELSE active[j]
            BY <3>3, <3>6 DEF TypeOK
          <6>2. QED
            BY <4>2, <4>3, <6>1 DEF ArmedCodes
        <5>2. QED
          BY <5>1 DEF ArmedCodes
      <4>6. ArmedCodes' = [ArmedCodes EXCEPT ![k] = [code |-> @.code, left |-> @.left - 1]]
        BY <4>4, <4>5
      <4>7. Promise!WrongGuess(k, c)
        BY <3>1, <3>2, <3>6, <4>6 DEF Promise!WrongGuess
      <4>8. QED
        BY <4>7 DEF Promise!OtcNext
    <3>7. QED
      BY <3>4, <3>5, <3>6
  <2>8. CASE Sweep
    <3> DEFINE S == {k \in Keys : active[k] # None /\ now >= active[k].expiresAt}
    <3>1. \A k \in Keys : active'[k] = IF k \in S THEN None ELSE active[k]
      BY <2>8 DEF Sweep
    <3>2. Promise!Lapse(S)
      BY <3>1 DEF Promise!Lapse, ArmedCodes
    <3>3. QED
      BY <3>2 DEF Promise!OtcNext
  <2>9. CASE Tick
    BY <2>0, <2>9 DEF Tick
  <2>10. CASE UNCHANGED vars
    BY <2>0, <2>10 DEF vars
  <2>11. QED
    BY <2>1, <2>2, <2>3, <2>4, <2>5, <2>6, <2>7, <2>8, <2>9, <2>10 DEF Next
<1>3. QED
  BY <1>1, <1>2, TypeCorrect, PTL DEF Spec, ImplementsOneTimeCode, Promise!OtcSpec
===============================================================================
