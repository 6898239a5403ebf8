---------------------------- MODULE Clients_proofs ----------------------------
(***************************************************************************)
(* Proofs about the pages, the answering of the server's requests and the  *)
(* deployer's scripts, for every set of wallets, networks, registrations   *)
(* and drafts and every bound on calls, runs and sessions. Each part has   *)
(* its inductive invariant, which its steps keep; the last section puts    *)
(* them together for the composition that MCClients checks.                *)
(***************************************************************************)
EXTENDS MCClients, SequenceTheorems, FiniteSetTheorems, WellFoundedInduction, TLAPS

-------------------------------------------------------------------------------
(* A call that is answered leaves the sequence of calls, by RemoveAt, and what *)
(* its handler asks for next is put at the end.                               *)

(* What is left are the others, in their order.                               *)
LEMMA RemovedAt ==
    ASSUME NEW S, NEW s \in Seq(S), NEW i \in DOMAIN s
    PROVE  /\ RemoveAt(s, i) \in Seq(S)
           /\ Len(RemoveAt(s, i)) = Len(s) - 1
           /\ \A j \in 1 .. (Len(s) - 1) : RemoveAt(s, i)[j] = IF j < i THEN s[j] ELSE s[j + 1]
<1> DEFINE a == SubSeq(s, 1, i - 1)
           b == SubSeq(s, i + 1, Len(s))
<1>1. Len(s) \in Nat /\ i \in 1 .. Len(s) /\ DOMAIN s = 1 .. Len(s)
  OBVIOUS
<1>2. /\ a \in Seq(S) /\ Len(a) = i - 1 /\ \A j \in 1 .. (i - 1) : a[j] = s[j]
  BY <1>1, SubSeqProperties
<1>3. /\ b \in Seq(S) /\ Len(b) = Len(s) - i /\ \A j \in 1 .. (Len(s) - i) : b[j] = s[i + j]
  <2>1. CASE i = Len(s)
    BY <1>1, <2>1, SubSeqProperties
  <2>2. CASE i < Len(s)
    <3>1. \A j \in (i + 1) .. Len(s) : j \in 1 .. Len(s)
      BY <1>1
    <3>2. /\ i + 1 \in 1 .. (Len(s) + 1) /\ Len(s) \in i .. Len(s)
      BY <1>1, <2>2
    <3>3. b \in Seq(S) /\ Len(b) = Len(s) - (i + 1) + 1
          /\ \A j \in 1 .. (Len(s) - (i + 1) + 1) : b[j] = s[(i + 1) + j - 1]
      BY <1>1, <2>2, <3>1, <3>2, SubSeqProperties
    <3>4. \A j \in 1 .. (Len(s) - i) : (i + 1) + j - 1 = i + j
      BY <1>1
    <3>5. Len(s) - (i + 1) + 1 = Len(s) - i
      BY <1>1
    <3>6. QED
      BY <3>3, <3>4, <3>5
  <2>3. QED
    BY <1>1, <2>1, <2>2
<1> HIDE DEF a, b
<1>4. /\ a \o b \in Seq(S) /\ Len(a \o b) = Len(a) + Len(b)
      /\ \A j \in 1 .. (Len(a) + Len(b)) : (a \o b)[j] = IF j <= Len(a) THEN a[j] ELSE b[j - Len(a)]
  BY <1>2, <1>3, ConcatProperties
<1>5. RemoveAt(s, i) = a \o b
  BY DEF RemoveAt, a, b
<1>6. \A j \in 1 .. (Len(s) - 1) : (a \o b)[j] = IF j < i THEN s[j] ELSE s[j + 1]
  <2> SUFFICES ASSUME NEW j \in 1 .. (Len(s) - 1)
               PROVE  (a \o b)[j] = IF j < i THEN s[j] ELSE s[j + 1]
    OBVIOUS
  <2>1. j \in 1 .. (Len(a) + Len(b))
    BY <1>1, <1>2, <1>3
  <2>2. CASE j < i
    <3>1. j <= Len(a) /\ j \in 1 .. (i - 1)
      BY <1>1, <1>2, <2>2
    <3>2. QED
      BY <1>2, <1>4, <2>1, <2>2, <3>1
  <2>3. CASE ~(j < i)
    <3>1. ~(j <= Len(a)) /\ j - Len(a) \in 1 .. (Len(s) - i) /\ i + (j - Len(a)) = j + 1
      BY <1>1, <1>2, <2>3
    <3>2. QED
      BY <1>3, <1>4, <2>1, <2>3, <3>1
  <2>4. QED
    BY <2>2, <2>3
<1>7. Len(a \o b) = Len(s) - 1
  BY <1>1, <1>2, <1>3, <1>4
<1>8. QED
  BY <1>4, <1>5, <1>6, <1>7

(* Whatever is true of every call is true of those that are left, and of those *)
(* that follow up when it is true of them.                                    *)
LEMMA Answering ==
    ASSUME NEW S, NEW s \in Seq(S), NEW i \in DOMAIN s, NEW more \in Seq(S)
    PROVE  RemoveAt(s, i) \o more \in Seq(S)
<1> DEFINE a == RemoveAt(s, i)
<1>1. a \in Seq(S)
  BY RemovedAt
<1> HIDE DEF a
<1>2. a \o more \in Seq(S)
  BY <1>1, ConcatProperties
<1>3. QED
  BY <1>2 DEF a

(* A sequence whose elements are all of a set.                                *)
LEMMA AllOf ==
    ASSUME NEW S, NEW s \in Seq(S), NEW T, \A i \in DOMAIN s : s[i] \in T
    PROVE  s \in Seq(T)
<1>1. Len(s) \in Nat /\ s \in [1 .. Len(s) -> T]
  OBVIOUS
<1>2. QED
  BY <1>1, SeqDef

(* The least of some numbers is one of them.                                  *)
LEMMA LeastOf ==
    ASSUME NEW S \in SUBSET Nat, S # {}
    PROVE  Min(S) \in S
<1>1. PICK a \in S : \A b \in S : <<b, a>> \notin OpToRel(<, Nat)
  BY WFMin, NatLessThanWellFounded
<1>2. ASSUME NEW b \in S PROVE a <= b
  <2>1. a \in Nat /\ b \in Nat
    OBVIOUS
  <2>2. ~(b < a)
    BY <1>1, <2>1 DEF OpToRel
  <2>3. QED
    BY <2>1, <2>2
<1>3. QED
  BY <1>1, <1>2 DEF Min

-------------------------------------------------------------------------------
(* The requests of the server.                                                *)

(* No request is under way at first.                                          *)
LEMMA HttpStarts == HttpInit => HttpTypeOK
BY DEF HttpInit, HttpTypeOK

(* Every step of a request keeps the types.                                   *)
LEMMA HttpStepKeeps ==
    ASSUME HttpTypeOK, [HttpNext]_httpVars
    PROVE  HttpTypeOK'
<1> USE DEF HttpTypeOK
<1>1. ASSUME NEW r \in Requests, SendJson(r)
      PROVE  HttpTypeOK'
  BY <1>1 DEF SendJson
<1>2. ASSUME NEW r \in Requests, NEW p \in Profiles, NEW phase \in {"reading", "waiting"},
             Serve(r, p, phase)
      PROVE  HttpTypeOK'
  <2>1. [profile |-> p, phase |-> phase] \in [profile : Profiles, phase : {"reading", "waiting"}]
    BY <1>2
  <2>2. QED
    BY <1>2, <2>1 DEF Serve
<1>3. ASSUME NEW r \in Requests, BodyEnds(r)
      PROVE  HttpTypeOK'
  <2>1. request[r].profile \in Profiles
    BY <1>3 DEF BodyEnds, InPhase
  <2>2. QED
    BY <1>1, <1>2, <1>3, <2>1 DEF BodyEnds
<1>4. ASSUME NEW r \in Requests, NEW p \in Profiles, Handle(r, p)
      PROVE  HttpTypeOK'
  BY <1>1, <1>2, <1>4 DEF Handle
<1>5. ASSUME NEW r \in Requests, TurnedAway(r) \/ BodyBreaks(r) \/ ProviderEnds(r)
      PROVE  HttpTypeOK'
  BY <1>1, <1>5 DEF TurnedAway, BodyBreaks, ProviderEnds
<1>6. CASE UNCHANGED httpVars
  BY <1>6 DEF httpVars
<1>7. QED
  BY <1>3, <1>4, <1>5, <1>6 DEF HttpNext

-------------------------------------------------------------------------------
(* The live check of the camera. The page counts an accepted answer once, and *)
(* the server's run counted it before: index and the accepted answers under    *)
(* way are at most what the run has done (CountsFit). That holds of a try that *)
(* began with nothing under way, which has the wire to itself until its        *)
(* start() is over (StartsAlone); the types hold of every other one too.       *)

AcceptedIn(w) == {i \in DOMAIN w : w[i].ordinal # 0 /\ w[i].verdict = "accepted"}

\* What an ended run had done before its last challenge, or more than a lapsed one had.
DoneBy(count) == IF count = NoRun THEN Challenges - 1 ELSE count

QuietPage == hearing = 0 /\ \A f \in 1..MaxFrames : looking[f] = 0

SettingUp == camera.phase \in {"starting", "setup"}

StartsAlone ==
    /\ camera.phase = "idle" => wire = << >> /\ QuietPage
    /\ SettingUp =>
           /\ QuietPage /\ Len(wire) = 1 /\ wire[1].ordinal = 0 /\ wire[1].verdict # "last"
           /\ camera.phase = "setup" <=> wire[1].verdict = "setup"
    /\ ~SettingUp => \A i \in DOMAIN wire : wire[i].ordinal # 0 /\ wire[i].verdict # "setup"

LastIsEarned ==
    /\ camera.phase = "done" => earned
    /\ \A i \in DOMAIN wire : wire[i].verdict = "last" => earned

Counts == camera.phase = "running" \/ (camera.phase \in {"failed", "done"} /\ ~Settled)

CountsFit == Counts => camera.index + Cardinality(AcceptedIn(wire)) <= DoneBy(run[Applicant])

\* What holds of a try that began with nothing under way.
Clean == StartsAlone /\ LastIsEarned /\ CountsFit

CameraTyped ==
    /\ camera \in CameraState
    /\ looking \in [1..MaxFrames -> 0..Challenges] /\ hearing \in 0..Challenges
    /\ wire \in Seq(WireCall) /\ Len(wire) <= MaxWire
    /\ run \in [{Applicant} -> 0..(Challenges - 1) \cup {NoRun}]
    /\ spoken \in 1..Challenges /\ earned \in BOOLEAN /\ tangled \in BOOLEAN

CameraIInv == CameraTyped /\ (~tangled => Clean)

(* The invariant gives the types and what the page shows.                     *)
LEMMA CameraIInvShows == CameraIInv => CameraTypeOK /\ CameraShowsRun
<1> SUFFICES ASSUME CameraIInv PROVE CameraTypeOK /\ CameraShowsRun
  OBVIOUS
<1>1. CameraTypeOK
  BY DEF CameraIInv, CameraTyped, CameraTypeOK, Server!GateTypeOK
<1>2. ASSUME ~tangled, camera.phase = "done" PROVE earned
  BY <1>2 DEF CameraIInv, Clean, LastIsEarned
<1>3. ASSUME ~tangled, camera.phase = "running", run[Applicant] # NoRun
      PROVE  camera.index
                 + Cardinality({i \in DOMAIN wire : wire[i].ordinal # 0 /\ wire[i].verdict = "accepted"})
                 <= run[Applicant]
  BY <1>3 DEF CameraIInv, Clean, CountsFit, Counts, DoneBy, AcceptedIn
<1>4. QED
  BY <1>1, <1>2, <1>3 DEF CameraShowsRun

(* Nothing is under way.                                                      *)
LEMMA CameraStarts == CameraInit => CameraIInv
<1> SUFFICES ASSUME CameraInit PROVE CameraIInv
  OBVIOUS
<1>1. 0 \in 0..Challenges /\ 1 \in 1..Challenges /\ 0 <= MaxWire
  BY CameraAssumption
<1>2. wire = << >> /\ wire \in Seq(WireCall) /\ Len(wire) = 0 /\ DOMAIN wire = {}
  BY DEF CameraInit
<1>3. CameraTyped
  BY <1>1, <1>2 DEF CameraInit, CameraTyped, CameraState, Server!GateInit
<1>4. camera.phase = "idle" /\ QuietPage
  BY DEF CameraInit, QuietPage
<1>5. Clean
  BY <1>2, <1>4 DEF Clean, StartsAlone, SettingUp, LastIsEarned, CountsFit, Counts
<1>6. QED
  BY <1>3, <1>5 DEF CameraIInv

(* The accepted answers of a sequence are finitely many.                      *)
LEMMA AcceptedFinite ==
    ASSUME NEW w \in Seq(WireCall)
    PROVE  /\ IsFiniteSet(AcceptedIn(w)) /\ Cardinality(AcceptedIn(w)) \in Nat
           /\ AcceptedIn(w) \subseteq 1 .. Len(w)
<1>1. Len(w) \in Nat /\ DOMAIN w = 1 .. Len(w)
  OBVIOUS
<1>2. AcceptedIn(w) \subseteq 1 .. Len(w)
  BY <1>1 DEF AcceptedIn
<1>3. IsFiniteSet(1 .. Len(w))
  BY <1>1, FS_Interval
<1>4. IsFiniteSet(AcceptedIn(w))
  BY <1>2, <1>3, FS_Subset
<1>5. QED
  BY <1>2, <1>4, FS_CardinalityType

(* An answer that is delivered is one less on its way, if it was accepted.    *)
LEMMA DeliveredAccepted ==
    ASSUME NEW w \in Seq(WireCall), NEW i \in DOMAIN w, NEW t, t = RemoveAt(w, i)
    PROVE  /\ t \in Seq(WireCall) /\ Len(t) = Len(w) - 1
           /\ \A j \in DOMAIN t : \E k \in DOMAIN w : t[j] = w[k]
           /\ Cardinality(AcceptedIn(t)) \in Nat
           /\ Cardinality(AcceptedIn(t)) <= Cardinality(AcceptedIn(w))
           /\ w[i].ordinal # 0 /\ w[i].verdict = "accepted" =>
                  Cardinality(AcceptedIn(t)) + 1 <= Cardinality(AcceptedIn(w))
<1> DEFINE A == AcceptedIn(w) \ {i}
           T == AcceptedIn(t)
           spot == [j \in T |-> IF j < i THEN j ELSE j + 1]
<1>1. /\ t \in Seq(WireCall) /\ Len(t) = Len(w) - 1
      /\ \A j \in 1 .. (Len(w) - 1) : t[j] = IF j < i THEN w[j] ELSE w[j + 1]
  BY RemovedAt
<1>2. Len(w) \in Nat /\ i \in 1 .. Len(w) /\ DOMAIN w = 1 .. Len(w) /\ DOMAIN t = 1 .. (Len(w) - 1)
  BY <1>1
<1>3. ASSUME NEW j \in DOMAIN t
      PROVE  /\ j < i => j \in DOMAIN w /\ t[j] = w[j]
             /\ ~(j < i) => j + 1 \in DOMAIN w /\ j + 1 # i /\ t[j] = w[j + 1]
  BY <1>1, <1>2
<1>4. \A j \in T : j \in DOMAIN t /\ t[j].ordinal # 0 /\ t[j].verdict = "accepted" /\ j \in Nat
  BY <1>2 DEF AcceptedIn
<1>5. ASSUME NEW j \in T PROVE spot[j] \in A
  <2>1. CASE j < i
    BY <1>2, <1>3, <1>4, <2>1 DEF AcceptedIn
  <2>2. CASE ~(j < i)
    BY <1>2, <1>3, <1>4, <2>2 DEF AcceptedIn
  <2>3. QED
    BY <2>1, <2>2
<1>6. ASSUME NEW j \in T, NEW k \in T, spot[j] = spot[k] PROVE j = k
  <2>1. spot[j] = (IF j < i THEN j ELSE j + 1) /\ spot[k] = (IF k < i THEN k ELSE k + 1)
    OBVIOUS
  <2>2. j \in Nat /\ k \in Nat /\ i \in Nat
    BY <1>2, <1>4
  <2> HIDE DEF spot
  <2>3. (IF j < i THEN j ELSE j + 1) = (IF k < i THEN k ELSE k + 1)
    BY <1>6, <2>1
  <2>4. QED
    BY <2>2, <2>3
<1>7. spot \in [T -> A]
  BY <1>5
<1> HIDE DEF A, T, spot
<1>8. spot \in Injection(T, A)
  BY <1>6, <1>7 DEF Injection, IsInjective
<1>9. IsFiniteSet(AcceptedIn(w)) /\ Cardinality(AcceptedIn(w)) \in Nat
  BY AcceptedFinite
<1>10. IsFiniteSet(T) /\ Cardinality(T) \in Nat
  BY <1>1, AcceptedFinite DEF T
<1>11. /\ IsFiniteSet(A)
       /\ Cardinality(A) = IF i \in AcceptedIn(w) THEN Cardinality(AcceptedIn(w)) - 1
                           ELSE Cardinality(AcceptedIn(w))
  BY <1>9, FS_RemoveElement DEF A
<1>12. Cardinality(T) <= Cardinality(A)
  BY <1>8, <1>10, <1>11, FS_Injection
<1>13. w[i].ordinal # 0 /\ w[i].verdict = "accepted" => i \in AcceptedIn(w)
  BY DEF AcceptedIn
<1>14. /\ Cardinality(T) <= Cardinality(AcceptedIn(w))
       /\ i \in AcceptedIn(w) => Cardinality(T) + 1 <= Cardinality(AcceptedIn(w))
  BY <1>9, <1>10, <1>11, <1>12
<1>15. ASSUME NEW j \in DOMAIN t PROVE \E k \in DOMAIN w : t[j] = w[k]
  <2>1. CASE j < i
    BY <1>3, <2>1
  <2>2. CASE ~(j < i)
    BY <1>3, <2>2
  <2>3. QED
    BY <2>1, <2>2
<1>16. QED
  BY <1>1, <1>10, <1>13, <1>14, <1>15 DEF T

(* A call that is put on the wire is the last of it.                          *)
LEMMA Sent ==
    ASSUME wire \in Seq(WireCall), Len(wire) <= MaxWire,
           NEW o \in 0..Challenges, NEW p \in 0..Challenges, Send(o, p)
    PROVE  /\ wire' \in Seq(WireCall) /\ Len(wire') = Len(wire) + 1 /\ Len(wire') <= MaxWire
           /\ wire'[Len(wire) + 1].ordinal = o /\ wire'[Len(wire) + 1].verdict = "sent"
           /\ \A i \in DOMAIN wire' :
                 \/ i \in DOMAIN wire /\ wire'[i] = wire[i]
                 \/ i = Len(wire) + 1
           /\ AcceptedIn(wire)' = AcceptedIn(wire)
<1> DEFINE e == [ordinal |-> o, phrase |-> p, verdict |-> "sent"]
<1>1. e \in WireCall /\ e.ordinal = o /\ e.verdict = "sent"
  BY DEF WireCall, Verdicts
<1>2. Len(wire) < MaxWire /\ wire' = Append(wire, e)
  BY DEF Send
<1> HIDE DEF e
<1>3. /\ wire' \in Seq(WireCall) /\ Len(wire') = Len(wire) + 1
      /\ (\A i \in 1 .. Len(wire) : wire'[i] = wire[i])
      /\ wire'[Len(wire) + 1] = e /\ DOMAIN wire' = 1 .. (Len(wire) + 1)
  BY <1>1, <1>2, AppendProperties
<1>4. Len(wire) \in Nat /\ DOMAIN wire = 1 .. Len(wire)
  OBVIOUS
<1>5. Len(wire') <= MaxWire
  BY <1>2, <1>3, <1>4, CameraAssumption
<1>6. ASSUME NEW i \in DOMAIN wire'
      PROVE  (i \in DOMAIN wire /\ wire'[i] = wire[i]) \/ i = Len(wire) + 1
  <2>1. i \in 1 .. Len(wire) \/ i = Len(wire) + 1
    BY <1>3, <1>4
  <2>2. QED
    BY <1>3, <1>4, <2>1
<1>7. AcceptedIn(wire)' = AcceptedIn(wire)
  <2>1. \A i \in DOMAIN wire : i \in DOMAIN wire' /\ wire'[i] = wire[i]
    BY <1>3, <1>4
  <2>2. \A i : i \in AcceptedIn(wire)' <=> i \in AcceptedIn(wire)
    BY <1>1, <1>3, <1>6, <2>1 DEF AcceptedIn
  <2>3. QED
    BY <2>2
<1>8. QED
  BY <1>1, <1>3, <1>5, <1>6, <1>7

(* One call on the wire changes.                                              *)
LEMMA CallChanged ==
    ASSUME wire \in Seq(WireCall), NEW i \in DOMAIN wire, NEW e \in WireCall,
           wire' = [wire EXCEPT ![i] = e]
    PROVE  /\ wire' \in Seq(WireCall) /\ Len(wire') = Len(wire) /\ DOMAIN wire' = DOMAIN wire
           /\ \A j \in DOMAIN wire : wire'[j] = IF j = i THEN e ELSE wire[j]
<1>1. Len(wire) \in Nat /\ DOMAIN wire = 1 .. Len(wire)
  OBVIOUS
<1>2. /\ wire' \in Seq(WireCall) /\ Len(wire') = Len(wire)
      /\ \A j \in 1 .. Len(wire) : wire'[j] = IF j = i THEN e ELSE wire[j]
  BY <1>1, ExceptSeq
<1>3. QED
  BY <1>1, <1>2

(* What the page does with an answer leaves it of its type.                   *)
LEMMA AnswersFit ==
    ASSUME NEW c \in CameraState, NEW verdict
    PROVE  Finished(c) \in CameraState /\ AfterAnswer(verdict, c) \subseteq CameraState
<1>1. ASSUME NEW d \in CameraState PROVE Finished(d) \in CameraState
  BY DEF Finished, CameraState
<1>2. Advanced(c) \subseteq CameraState
  <2>1. c.index \in 0..Challenges /\ Challenges \in Nat
    BY CameraAssumption DEF CameraState
  <2>2. CASE c.index + 1 >= Challenges
    <3>1. [c EXCEPT !.index = Challenges] \in CameraState
      BY <2>1 DEF CameraState
    <3>2. QED
      BY <1>1, <2>2, <3>1 DEF Advanced
  <2>3. CASE ~(c.index + 1 >= Challenges)
    <3>1. c.index + 1 \in 0..Challenges
      BY <2>1, <2>3
    <3> DEFINE next == c.index + 1
    <3>2. \A phase \in {"running", "failed"} : [c EXCEPT !.phase = phase, !.index = next] \in CameraState
      <4> HIDE DEF next
      <4>1. next \in 0..Challenges
        BY <3>1 DEF next
      <4>2. QED
        BY <4>1 DEF CameraState
    <3>3. QED
      BY <2>3, <3>2 DEF Advanced
  <2>4. QED
    BY <2>2, <2>3
<1>3. QED
  BY <1>1, <1>2 DEF AfterAnswer

(* Every step of the component and the server, of whatever try, keeps types.  *)
LEMMA CameraTypesKept ==
    ASSUME CameraTyped, [CameraNext]_cameraVars
    PROVE  CameraTyped'
<1>1. /\ camera \in CameraState
      /\ looking \in [1..MaxFrames -> 0..Challenges] /\ hearing \in 0..Challenges
      /\ wire \in Seq(WireCall) /\ Len(wire) <= MaxWire
      /\ run \in [{Applicant} -> 0..(Challenges - 1) \cup {NoRun}]
      /\ spoken \in 1..Challenges /\ earned \in BOOLEAN /\ tangled \in BOOLEAN
  BY DEF CameraTyped
<1>2. Len(wire) \in Nat /\ DOMAIN wire = 1 .. Len(wire) /\ \A i \in DOMAIN wire : wire[i] \in WireCall
  BY <1>1, ElementOfSeq
<1>3. 0 \in 0..Challenges /\ Current \in 0..Challenges /\ 0 \in 0..(Challenges - 1)
  <2>1. camera.index \in 0..Challenges
    BY <1>1 DEF CameraState
  <2>2. QED
    BY <2>1, CameraAssumption DEF Current
<1>4. \A o, p \in 0..Challenges : Send(o, p) => wire' \in Seq(WireCall) /\ Len(wire') <= MaxWire
  BY <1>1, Sent
<1>5. \A i \in DOMAIN wire, verdict \in Verdicts :
          Judge(i, verdict) => /\ wire' \in Seq(WireCall) /\ Len(wire') <= MaxWire
                               /\ UNCHANGED <<camera, looking, hearing, tangled>>
  <2> SUFFICES ASSUME NEW i \in DOMAIN wire, NEW verdict \in Verdicts, Judge(i, verdict)
               PROVE  /\ wire' \in Seq(WireCall) /\ Len(wire') <= MaxWire
                      /\ UNCHANGED <<camera, looking, hearing, tangled>>
    OBVIOUS
  <2> DEFINE e == [wire[i] EXCEPT !.verdict = verdict]
  <2>1. wire' = [wire EXCEPT ![i] = e] /\ UNCHANGED <<camera, looking, hearing, tangled>>
    BY DEF Judge
  <2>2. e \in WireCall
    BY <1>2 DEF WireCall
  <2> HIDE DEF e
  <2>3. QED
    BY <1>1, <2>1, <2>2, CallChanged
<1>6. "accepted" \in Verdicts /\ "last" \in Verdicts /\ "refused" \in Verdicts /\ "setup" \in Verdicts
  BY DEF Verdicts
<1>7. CASE StartPressed
  <2>1. camera' \in CameraState
    BY <1>1, <1>7 DEF StartPressed, CameraState
  <2>2. wire' \in Seq(WireCall) /\ Len(wire') <= MaxWire
    BY <1>3, <1>4, <1>7 DEF StartPressed
  <2>3. UNCHANGED <<looking, hearing, run, spoken, earned>> /\ tangled' \in BOOLEAN
    BY <1>7 DEF StartPressed
  <2>4. QED
    BY <1>1, <2>1, <2>2, <2>3 DEF CameraTyped
<1>8. CASE BeginPhraseListening
  <2>1. camera' \in CameraState
    BY <1>1, <1>8 DEF BeginPhraseListening, CameraState
  <2>2. QED
    BY <1>1, <1>3, <1>8, <2>1 DEF BeginPhraseListening, CameraTyped
<1>9. CASE PhraseHeard
  <2>1. /\ \/ camera' = [camera EXCEPT !.listening = FALSE] /\ UNCHANGED wire
           \/ camera' = [[camera EXCEPT !.listening = FALSE] EXCEPT !.submitting = TRUE]
              /\ Send(hearing, hearing)
        /\ hearing' = 0 /\ UNCHANGED <<looking, run, spoken, earned, tangled>>
    BY <1>9 DEF PhraseHeard
  <2>2. camera' \in CameraState
    BY <1>1, <2>1 DEF CameraState
  <2>3. wire' \in Seq(WireCall) /\ Len(wire') <= MaxWire
    BY <1>1, <1>4, <2>1
  <2>4. QED
    BY <1>1, <1>3, <2>1, <2>2, <2>3 DEF CameraTyped
<1>10. CASE \E i \in DOMAIN wire : SetupEnds(i)
  <2>1. PICK i \in DOMAIN wire : SetupEnds(i)
    BY <1>10
  <2>2. wire' = RemoveAt(wire, i) /\ UNCHANGED <<looking, hearing, run, spoken, earned, tangled>>
    BY <2>1 DEF SetupEnds
  <2>3. \/ camera' = [camera EXCEPT !.phase = "failed"]
        \/ \E phase \in {"running", "failed"} :
              camera' = [camera EXCEPT !.phase = phase, !.index = 0, !.on = TRUE]
    BY <2>1 DEF SetupEnds
  <2>4. camera' \in CameraState
    BY <1>1, <1>3, <2>3 DEF CameraState
  <2>5. wire' \in Seq(WireCall) /\ Len(wire') = Len(wire) - 1
    BY <1>1, <2>2, RemovedAt
  <2>6. Len(wire') <= MaxWire
    BY <1>1, <1>2, <2>5, CameraAssumption
  <2>7. QED
    BY <1>1, <2>2, <2>4, <2>5, <2>6 DEF CameraTyped
<1>11. CASE CameraServed
  <2>1. PICK i \in DOMAIN wire : CameraServes(i)
    BY <1>11 DEF CameraServed
  <2>2. CASE \E p \in Phrases : ServeStart(i, p)
    <3>1. PICK p \in Phrases : ServeStart(i, p)
      BY <2>2
    <3>2. p \in 1..Challenges /\ p \in 0..Challenges
      BY CameraAssumption
    <3> DEFINE e == [wire[i] EXCEPT !.verdict = "accepted", !.phrase = p]
    <3>3. wire' = [wire EXCEPT ![i] = e]
      BY <1>1, <3>1 DEF ServeStart
    <3>4. e \in WireCall
      BY <1>2, <1>6, <3>2 DEF WireCall
    <3> HIDE DEF e
    <3>5. wire' \in Seq(WireCall) /\ Len(wire') <= MaxWire
      BY <1>1, <3>3, <3>4, CallChanged
    <3>6. run' \in [{Applicant} -> 0..(Challenges - 1) \cup {NoRun}]
      <4>1. run' = [run EXCEPT ![Applicant] = 0]
        BY <3>1 DEF ServeStart, Server!StartRun
      <4>2. QED
        BY <1>1, <1>3, <4>1
    <3>7. spoken' = p /\ earned' = FALSE /\ UNCHANGED <<camera, looking, hearing, tangled>>
      BY <3>1 DEF ServeStart
    <3>8. QED
      BY <1>1, <3>2, <3>5, <3>6, <3>7 DEF CameraTyped
  <2>3. CASE ServeEvidence(i) /\ Server!Advance(Applicant) /\ Judge(i, "accepted") /\ UNCHANGED earned
    <3>1. /\ run[Applicant] # NoRun /\ run[Applicant] + 1 < Challenges
          /\ run' = [run EXCEPT ![Applicant] = run[Applicant] + 1] /\ UNCHANGED spoken
      BY <2>3 DEF Server!Advance, ServeEvidence
    <3>2. run[Applicant] + 1 \in 0..(Challenges - 1)
      BY <1>1, <3>1, CameraAssumption
    <3>3. run' \in [{Applicant} -> 0..(Challenges - 1) \cup {NoRun}]
      BY <1>1, <3>1, <3>2
    <3>4. QED
      BY <1>1, <1>5, <1>6, <2>3, <3>1, <3>3 DEF CameraTyped
  <2>4. CASE ServeEvidence(i) /\ Server!Finish(Applicant) /\ Judge(i, "last") /\ earned' = TRUE
    <3>1. run' = [run EXCEPT ![Applicant] = NoRun] /\ UNCHANGED spoken
      BY <2>4 DEF Server!Finish, ServeEvidence
    <3>2. run' \in [{Applicant} -> 0..(Challenges - 1) \cup {NoRun}]
      BY <1>1, <3>1
    <3>3. QED
      BY <1>1, <1>5, <1>6, <2>4, <3>1, <3>2 DEF CameraTyped
  <2>5. CASE ServeRefuses(i)
    BY <1>1, <1>5, <1>6, <2>5 DEF ServeRefuses, CameraTyped
  <2>6. ServeEvidence(i) =>
          \/ Server!Advance(Applicant) /\ Judge(i, "accepted") /\ UNCHANGED earned
          \/ Server!Finish(Applicant) /\ Judge(i, "last") /\ earned' = TRUE
    BY DEF ServeEvidence
  <2>7. QED
    BY <2>1, <2>2, <2>3, <2>4, <2>5, <2>6 DEF CameraServes
<1>12. CASE CameraAnswered
  <2>1. PICK i \in DOMAIN wire : Arrives(i)
    BY <1>12 DEF CameraAnswered
  <2>2. hearing' \in 0..Challenges /\ UNCHANGED <<looking, run, spoken, earned, tangled>>
    BY <1>1, <1>3, <2>1 DEF Arrives, Heard
  <2>3. PICK verdict : IF wire[i].ordinal = 0 THEN Started(i, verdict)
                       ELSE /\ wire' = RemoveAt(wire, i)
                            /\ camera' \in AfterAnswer(verdict, [camera EXCEPT !.submitting = FALSE])
    BY <2>1 DEF Arrives
  <2>4. RemoveAt(wire, i) \in Seq(WireCall) /\ Len(RemoveAt(wire, i)) <= MaxWire
    <3> DEFINE rest == RemoveAt(wire, i)
    <3>1. rest \in Seq(WireCall) /\ Len(rest) = Len(wire) - 1
      BY <1>1, RemovedAt
    <3> HIDE DEF rest
    <3>2. Len(rest) <= MaxWire
      BY <1>1, <1>2, <3>1, CameraAssumption
    <3>3. QED
      BY <3>1, <3>2 DEF rest
  <2>5. camera' \in CameraState /\ wire' \in Seq(WireCall) /\ Len(wire') <= MaxWire
    <3>1. CASE wire[i].ordinal # 0
      <4> DEFINE c == [camera EXCEPT !.submitting = FALSE]
      <4>1. c \in CameraState
        BY <1>1 DEF CameraState
      <4>2. camera' \in AfterAnswer(verdict, c) /\ wire' = RemoveAt(wire, i)
        BY <2>3, <3>1
      <4> HIDE DEF c
      <4>3. QED
        BY <2>4, <4>1, <4>2, AnswersFit
    <3>2. CASE wire[i].ordinal = 0 /\ verdict = "refused"
      <4>1. wire' = RemoveAt(wire, i) /\ camera' = [camera EXCEPT !.phase = "failed"]
        BY <2>3, <3>2 DEF Started
      <4>2. camera' \in CameraState
        BY <1>1, <4>1 DEF CameraState
      <4>3. QED
        BY <2>4, <4>1, <4>2
    <3>3. CASE wire[i].ordinal = 0 /\ verdict # "refused"
      <4> DEFINE e == [wire[i] EXCEPT !.verdict = "setup"]
      <4>1. /\ wire' = [wire EXCEPT ![i] = e]
            /\ camera' = [camera EXCEPT !.phase = "setup", !.index = 0, !.phrase = wire[i].phrase,
                                        !.submitting = FALSE]
        BY <2>3, <3>3 DEF Started
      <4>2. e \in WireCall
        BY <1>2, <1>6 DEF WireCall
      <4> HIDE DEF e
      <4>3. wire' \in Seq(WireCall) /\ Len(wire') <= MaxWire
        BY <1>1, <4>1, <4>2, CallChanged
      <4>4. wire[i].phrase \in 0..Challenges
        BY <1>2 DEF WireCall
      <4>5. camera' \in CameraState
        BY <1>1, <1>3, <4>1, <4>4 DEF CameraState
      <4>6. QED
        BY <4>3, <4>5
    <3>4. QED
      BY <3>1, <3>2, <3>3
  <2>6. QED
    BY <1>1, <2>2, <2>5 DEF CameraTyped
<1>13. CASE RunLapses
  <2>1. UNCHANGED <<camera, looking, hearing, wire, spoken, earned, tangled>>
        /\ Server!LapseRuns({Applicant})
    BY <1>13 DEF RunLapses
  <2>2. run' \in [{Applicant} -> 0..(Challenges - 1) \cup {NoRun}]
    BY <2>1 DEF Server!LapseRuns
  <2>3. QED
    BY <1>1, <2>1, <2>2 DEF CameraTyped
<1>14. CASE \E f \in 1..MaxFrames : FrameCaptured(f)
  BY <1>1, <1>3, <1>14 DEF FrameCaptured, CameraTyped
<1>15. CASE \E f \in 1..MaxFrames : FrameDetected(f)
  <2>1. PICK f \in 1..MaxFrames : FrameDetected(f)
    BY <1>15
  <2>2. /\ looking' = [looking EXCEPT ![f] = 0] /\ looking[f] \in 0..Challenges
        /\ UNCHANGED <<hearing, run, spoken, earned, tangled>>
        /\ \/ UNCHANGED <<camera, wire>>
           \/ Send(looking[f], 0) /\ camera' = [camera EXCEPT !.submitting = TRUE]
    BY <1>1, <2>1 DEF FrameDetected
  <2>3. camera' \in CameraState
    BY <1>1, <2>2 DEF CameraState
  <2>4. wire' \in Seq(WireCall) /\ Len(wire') <= MaxWire
    BY <1>1, <1>3, <1>4, <2>2
  <2>5. looking' \in [1..MaxFrames -> 0..Challenges]
    BY <1>1, <1>3, <2>2
  <2>6. QED
    BY <1>1, <2>2, <2>3, <2>4, <2>5 DEF CameraTyped
<1>16. CASE UNCHANGED cameraVars
  BY <1>1, <1>16 DEF cameraVars, CameraTyped
<1>17. QED
  BY <1>7, <1>8, <1>9, <1>10, <1>11, <1>12, <1>13, <1>14, <1>15, <1>16 DEF CameraNext

(* Every step keeps what holds of a try that began with nothing under way, and *)
(* a start that is pressed with nothing under way begins one.                  *)
LEMMA CameraStepKeeps ==
    ASSUME CameraIInv, [CameraNext]_cameraVars
    PROVE  CameraIInv'
<1> DEFINE C == Cardinality(AcceptedIn(wire))
           D == DoneBy(run[Applicant])
<1>1. /\ camera \in CameraState
      /\ looking \in [1..MaxFrames -> 0..Challenges] /\ hearing \in 0..Challenges
      /\ wire \in Seq(WireCall) /\ Len(wire) <= MaxWire
      /\ run \in [{Applicant} -> 0..(Challenges - 1) \cup {NoRun}]
      /\ earned \in BOOLEAN /\ tangled \in BOOLEAN
  BY DEF CameraIInv, CameraTyped
<1>2. CameraTyped'
  BY CameraTypesKept DEF CameraIInv
<1>3. /\ run' \in [{Applicant} -> 0..(Challenges - 1) \cup {NoRun}] /\ wire' \in Seq(WireCall)
      /\ camera' \in CameraState
  BY <1>2 DEF CameraTyped
<1>4. SUFFICES ASSUME ~tangled' PROVE Clean'
  BY <1>2 DEF CameraIInv
<1>5. Len(wire) \in Nat /\ DOMAIN wire = 1 .. Len(wire) /\ \A i \in DOMAIN wire : wire[i] \in WireCall
  BY <1>1, ElementOfSeq
<1>6. C \in Nat
  BY <1>1, AcceptedFinite
<1>7. camera.phase \in {"idle", "starting", "setup", "running", "done", "failed"}
      /\ camera.index \in 0..Challenges
  BY <1>1 DEF CameraState
<1>8. D \in 0..(Challenges - 1)
  BY <1>1, CameraAssumption DEF DoneBy
<1>9. Settled <=> wire = << >> /\ QuietPage
  BY DEF Settled, QuietPage
<1>10. CASE StartPressed
  <2>1. /\ Settled /\ camera'.phase = "starting" /\ Send(0, 0)
        /\ UNCHANGED <<looking, hearing, run, spoken, earned>>
    BY <1>1, <1>4, <1>10 DEF StartPressed, CameraState
  <2>2. wire = << >> /\ QuietPage /\ Len(wire) = 0
    BY <1>9, <2>1
  <2>3. /\ Len(wire') = 1 /\ wire'[1].ordinal = 0 /\ wire'[1].verdict = "sent"
    <3>1. 0 \in 0..Challenges
      BY CameraAssumption
    <3>2. QED
      BY <1>1, <2>1, <2>2, <3>1, Sent
  <2>4. \A i \in DOMAIN wire' : i = 1
    BY <1>3, <2>3
  <2>5. QED
    BY <2>1, <2>2, <2>3, <2>4 DEF Clean, StartsAlone, SettingUp, LastIsEarned, CountsFit, Counts, QuietPage
\* From here on the try goes on that began with nothing under way.
<1>11. SUFFICES ASSUME ~StartPressed PROVE Clean'
  BY <1>10
<1>12. UNCHANGED tangled
  BY <1>11 DEF CameraNext, BeginPhraseListening, PhraseHeard, SetupEnds, CameraServed, CameraServes,
     ServeStart, ServeEvidence, ServeRefuses, Judge, CameraAnswered, Arrives, RunLapses,
     FrameCaptured, FrameDetected, cameraVars
<1>13. StartsAlone /\ LastIsEarned /\ CountsFit
  BY <1>4, <1>12 DEF CameraIInv, Clean
<1>14. Counts => camera.index \in 0..(Challenges - 1) /\ camera.index + C <= D
  <2>1. Counts => camera.index + C <= D
    BY <1>13 DEF CountsFit
  <2> HIDE DEF C, D
  <2>2. QED
    BY <1>6, <1>7, <1>8, <2>1, CameraAssumption
\* With something under way that is not a start.
<1>15. ~Settled /\ ~SettingUp =>
          Counts /\ \A i \in DOMAIN wire : wire[i].ordinal # 0 /\ wire[i].verdict # "setup"
  BY <1>7, <1>9, <1>13 DEF StartsAlone, SettingUp, Counts
\* A start has the wire to itself.
<1>16. SettingUp => /\ QuietPage /\ Len(wire) = 1 /\ wire[1].ordinal = 0 /\ wire[1].verdict # "last"
                    /\ (camera.phase = "setup" <=> wire[1].verdict = "setup")
                    /\ \A i \in DOMAIN wire : i = 1
  <2>1. SettingUp => /\ QuietPage /\ Len(wire) = 1 /\ wire[1].ordinal = 0 /\ wire[1].verdict # "last"
                     /\ (camera.phase = "setup" <=> wire[1].verdict = "setup")
    BY <1>13 DEF StartsAlone
  <2>2. Len(wire) = 1 => \A i \in DOMAIN wire : i = 1
    BY <1>5
  <2>3. QED
    BY <2>1, <2>2
\* The page works on, with nothing or evidence posted.
<1>17. ASSUME Counts, camera'.phase = camera.phase, camera'.index = camera.index,
              UNCHANGED wire \/ \E o \in 1..Challenges, p \in 0..Challenges : Send(o, p),
              UNCHANGED <<run, earned>>
       PROVE  Clean'
  <2>1. camera.phase \in {"running", "failed", "done"} /\ ~SettingUp
    BY <1>17 DEF Counts, SettingUp
  <2>2. \A i \in DOMAIN wire : /\ wire[i].ordinal # 0 /\ wire[i].verdict # "setup"
                               /\ wire[i].verdict = "last" => earned
    BY <1>13, <2>1 DEF StartsAlone, LastIsEarned
  <2>3. /\ AcceptedIn(wire)' = AcceptedIn(wire)
        /\ \A i \in DOMAIN wire' : /\ wire'[i].ordinal # 0 /\ wire'[i].verdict # "setup"
                                   /\ wire'[i].verdict = "last" => earned
    <3>1. CASE UNCHANGED wire
      BY <2>2, <3>1 DEF AcceptedIn
    <3>2. CASE \E o \in 1..Challenges, p \in 0..Challenges : Send(o, p)
      <4>1. PICK o \in 1..Challenges, p \in 0..Challenges : Send(o, p)
        BY <3>2
      <4>2. o \in 0..Challenges /\ o # 0
        BY <4>1, CameraAssumption
      <4>3. QED
        BY <1>1, <2>2, <4>1, <4>2, Sent
    <3>3. QED
      BY <1>17, <3>1, <3>2
  <2>4. StartsAlone' /\ LastIsEarned'
    BY <1>13, <1>17, <2>1, <2>3 DEF StartsAlone, SettingUp, LastIsEarned
  <2>5. CountsFit'
    BY <1>14, <1>17, <2>3 DEF CountsFit
  <2>6. QED
    BY <2>4, <2>5 DEF Clean
<1>18. CASE BeginPhraseListening \/ \E f \in 1..MaxFrames : FrameCaptured(f)
  <2>1. /\ camera.phase = "running" /\ UNCHANGED <<wire, run, earned>>
        /\ camera'.phase = camera.phase /\ camera'.index = camera.index
    BY <1>1, <1>18 DEF BeginPhraseListening, FrameCaptured, CameraState
  <2>2. Counts
    BY <2>1 DEF Counts
  <2>3. QED
    BY <1>17, <2>1, <2>2
<1>19. CASE PhraseHeard \/ \E f \in 1..MaxFrames : FrameDetected(f)
  <2>1. /\ ~QuietPage /\ UNCHANGED <<run, earned>>
        /\ camera'.phase = camera.phase /\ camera'.index = camera.index
        /\ UNCHANGED wire \/ \E o \in 1..Challenges, p \in 0..Challenges : Send(o, p)
    <3>1. CASE PhraseHeard
      <4>1. hearing \in 1..Challenges /\ hearing \in 0..Challenges
        BY <1>1, <3>1, CameraAssumption DEF PhraseHeard
      <4>2. \/ camera' = [camera EXCEPT !.listening = FALSE] /\ UNCHANGED wire
            \/ camera' = [[camera EXCEPT !.listening = FALSE] EXCEPT !.submitting = TRUE]
               /\ Send(hearing, hearing)
        BY <3>1 DEF PhraseHeard
      <4>3. camera'.phase = camera.phase /\ camera'.index = camera.index
        BY <1>1, <4>2 DEF CameraState
      <4>4. QED
        BY <3>1, <4>1, <4>2, <4>3 DEF PhraseHeard, QuietPage
    <3>2. CASE \E f \in 1..MaxFrames : FrameDetected(f)
      <4>1. PICK f \in 1..MaxFrames : FrameDetected(f)
        BY <3>2
      <4>2. looking[f] \in 0..Challenges /\ looking[f] # 0
        BY <1>1, <4>1 DEF FrameDetected
      <4>3. looking[f] \in 1..Challenges /\ 0 \in 0..Challenges
        BY <4>2, CameraAssumption
      <4>4. \/ UNCHANGED <<camera, wire>>
            \/ Send(looking[f], 0) /\ camera' = [camera EXCEPT !.submitting = TRUE]
        BY <4>1 DEF FrameDetected
      <4>5. camera'.phase = camera.phase /\ camera'.index = camera.index
        BY <1>1, <4>4 DEF CameraState
      <4>6. QED
        BY <4>1, <4>2, <4>3, <4>4, <4>5 DEF FrameDetected, QuietPage
    <3>3. QED
      BY <1>19, <3>1, <3>2
  <2>2. ~Settled /\ ~SettingUp
    BY <1>9, <1>16, <2>1
  <2>3. QED
    BY <1>15, <1>17, <2>1, <2>2
<1>20. CASE \E i \in DOMAIN wire : SetupEnds(i)
  <2>1. PICK i \in DOMAIN wire : SetupEnds(i)
    BY <1>20
  <2>2. /\ wire[i].verdict = "setup" /\ wire' = RemoveAt(wire, i)
        /\ UNCHANGED <<looking, hearing, run, spoken, earned>>
        /\ \/ camera' = [camera EXCEPT !.phase = "failed"]
           \/ \E phase \in {"running", "failed"} :
                camera' = [camera EXCEPT !.phase = phase, !.index = 0, !.on = TRUE]
    BY <2>1 DEF SetupEnds
  <2>3. SettingUp /\ QuietPage /\ Len(wire) = 1
    BY <1>13, <1>16, <2>2 DEF StartsAlone
  <2>4. /\ camera'.phase \in {"running", "failed"}
        /\ camera'.phase = "running" => camera'.index = 0
    BY <1>1, <2>2 DEF CameraState
  <2>5. wire' = << >> /\ DOMAIN wire' = {}
    <3>1. Len(wire') = 0
      BY <1>1, <2>2, <2>3, RemovedAt
    <3>2. QED
      BY <1>3, <3>1
  <2>6. Cardinality(AcceptedIn(wire))' = 0
    <3>1. AcceptedIn(wire)' = {}
      BY <2>5 DEF AcceptedIn
    <3>2. QED
      BY <3>1, FS_EmptySet
  <2>7. QuietPage' /\ Settled'
    BY <2>2, <2>3, <2>5 DEF QuietPage, Settled
  <2>8. StartsAlone' /\ LastIsEarned'
    BY <2>4, <2>5 DEF StartsAlone, SettingUp, LastIsEarned
  <2>9. CountsFit'
    <3>1. D \in 0..(Challenges - 1) /\ DoneBy(run'[Applicant]) = D
      BY <1>8, <2>2
    <3> HIDE DEF D
    <3>2. camera'.index = 0 => camera'.index + Cardinality(AcceptedIn(wire))' <= DoneBy(run'[Applicant])
      BY <2>6, <3>1
    <3>3. QED
      BY <2>4, <2>7, <3>2 DEF CountsFit, Counts
  <2>10. QED
    BY <2>8, <2>9 DEF Clean
<1>21. CASE RunLapses
  <2>1. UNCHANGED <<camera, looking, hearing, wire, spoken, earned>> /\ Server!LapseRuns({Applicant})
    BY <1>21 DEF RunLapses
  <2>2. run'[Applicant] = NoRun
    BY <2>1 DEF Server!LapseRuns
  <2>3. StartsAlone' /\ LastIsEarned'
    BY <1>13, <2>1 DEF StartsAlone, SettingUp, LastIsEarned, QuietPage
  <2>4. (Counts' <=> Counts) /\ AcceptedIn(wire)' = AcceptedIn(wire)
    BY <2>1 DEF Counts, Settled, AcceptedIn
  <2>5. CountsFit'
    <3>1. DoneBy(run'[Applicant]) = Challenges - 1
      BY <2>2 DEF DoneBy
    <3> HIDE DEF C, D
    <3>2. Counts => camera.index + C <= Challenges - 1
      BY <1>6, <1>7, <1>8, <1>14, CameraAssumption
    <3>3. QED
      BY <2>1, <2>4, <3>1, <3>2 DEF CountsFit, C
  <2>6. QED
    BY <2>3, <2>5 DEF Clean
\* A verdict is written on a call; its ordinal stays.
<1>22. ASSUME NEW i \in DOMAIN wire, wire[i].verdict = "sent", NEW e \in WireCall,
              e.ordinal = wire[i].ordinal, wire' = [wire EXCEPT ![i] = e]
       PROVE  /\ Len(wire') = Len(wire) /\ DOMAIN wire' = DOMAIN wire /\ wire'[i] = e
              /\ (\A j \in DOMAIN wire : j # i => wire'[j] = wire[j])
              /\ (\A j \in DOMAIN wire : wire'[j].ordinal = wire[j].ordinal)
              /\ e.ordinal # 0 =>
                   Cardinality(AcceptedIn(wire))' = IF e.verdict = "accepted" THEN C + 1 ELSE C
  <2>1. /\ Len(wire') = Len(wire) /\ DOMAIN wire' = DOMAIN wire
        /\ \A j \in DOMAIN wire : wire'[j] = IF j = i THEN e ELSE wire[j]
    BY <1>1, <1>22, CallChanged
  <2>2. ASSUME e.ordinal # 0
        PROVE  Cardinality(AcceptedIn(wire))' = IF e.verdict = "accepted" THEN C + 1 ELSE C
    <3>1. i \notin AcceptedIn(wire)
      BY <1>22 DEF AcceptedIn
    <3>2. CASE e.verdict = "accepted"
      <4>1. \A j : j \in AcceptedIn(wire)' <=> j = i \/ j \in AcceptedIn(wire)
        BY <2>1, <2>2, <3>1, <3>2 DEF AcceptedIn
      <4>2. AcceptedIn(wire)' = AcceptedIn(wire) \cup {i}
        BY <4>1
      <4>3. IsFiniteSet(AcceptedIn(wire))
        BY <1>1, AcceptedFinite
      <4>4. Cardinality(AcceptedIn(wire) \cup {i}) = Cardinality(AcceptedIn(wire)) + 1
        BY <3>1, <4>3, FS_AddElement
      <4>5. QED
        BY <3>2, <4>2, <4>4
    <3>3. CASE e.verdict # "accepted"
      <4>1. \A j : j \in AcceptedIn(wire)' <=> j \in AcceptedIn(wire)
        BY <2>1, <3>1, <3>3 DEF AcceptedIn
      <4>2. AcceptedIn(wire)' = AcceptedIn(wire)
        BY <4>1
      <4>3. QED
        BY <3>3, <4>2
    <3>4. QED
      BY <3>2, <3>3
  <2>3. QED
    BY <1>22, <2>1, <2>2
<1>23. CASE CameraServed
  <2>1. PICK i \in DOMAIN wire : CameraServes(i)
    BY <1>23 DEF CameraServed
  <2>2. wire[i].verdict = "sent" /\ wire # << >> /\ wire[i] \in WireCall
    BY <1>5, <2>1 DEF CameraServes, Unserved
  <2>3. ~Settled
    BY <1>9, <2>2
  <2>4. "accepted" \in Verdicts /\ "last" \in Verdicts /\ "refused" \in Verdicts
    BY DEF Verdicts
  <2>5. CASE SettingUp
    <3>1. wire[i].ordinal = 0 /\ Len(wire) = 1 /\ QuietPage /\ i = 1 /\ camera.phase = "starting"
      BY <1>16, <2>2, <2>5 DEF SettingUp
    \* Whatever is written on the start, the page has no other call and makes no claim.
    <3>2. ASSUME NEW e \in WireCall, e.ordinal = 0, e.verdict \in {"accepted", "refused"},
                 wire' = [wire EXCEPT ![i] = e], UNCHANGED <<camera, looking, hearing>>
          PROVE  Clean'
      <4>1. Len(wire') = 1 /\ wire'[1] = e /\ \A j \in DOMAIN wire' : j = 1
        BY <1>5, <1>22, <2>2, <3>1, <3>2
      <4>2. QED
        BY <3>1, <3>2, <4>1 DEF Clean, StartsAlone, SettingUp, LastIsEarned, CountsFit, Counts, QuietPage
    <3>3. CASE \E p \in Phrases : ServeStart(i, p)
      <4>1. PICK p \in Phrases : ServeStart(i, p)
        BY <3>3
      <4> DEFINE e == [wire[i] EXCEPT !.verdict = "accepted", !.phrase = p]
      <4>2. wire' = [wire EXCEPT ![i] = e] /\ UNCHANGED <<camera, looking, hearing>>
        BY <1>1, <4>1 DEF ServeStart
      <4>3. p \in 0..Challenges
        BY CameraAssumption
      <4>4. e \in WireCall /\ e.ordinal = 0 /\ e.verdict = "accepted"
        BY <2>2, <2>4, <3>1, <4>3 DEF WireCall
      <4> HIDE DEF e
      <4>5. QED
        BY <3>2, <4>2, <4>4
    <3>4. CASE ServeRefuses(i)
      <4> DEFINE e == [wire[i] EXCEPT !.verdict = "refused"]
      <4>1. wire' = [wire EXCEPT ![i] = e] /\ UNCHANGED <<camera, looking, hearing>>
        BY <3>4 DEF ServeRefuses, Judge
      <4>2. e \in WireCall /\ e.ordinal = 0 /\ e.verdict = "refused"
        BY <2>2, <2>4, <3>1 DEF WireCall
      <4> HIDE DEF e
      <4>3. QED
        BY <3>2, <4>1, <4>2
    <3>5. ~ServeEvidence(i)
      <4>1. run[Applicant] # NoRun => run[Applicant] + 1 # 0
        BY <1>1, CameraAssumption
      <4>2. QED
        BY <3>1, <4>1 DEF ServeEvidence
    <3>6. QED
      BY <2>1, <3>3, <3>4, <3>5 DEF CameraServes
  <2>6. CASE ~SettingUp
    <3>1. Counts /\ \A j \in DOMAIN wire : wire[j].ordinal # 0 /\ wire[j].verdict # "setup"
      BY <1>15, <2>3, <2>6
    <3>2. camera.phase \in {"running", "failed", "done"}
      BY <3>1 DEF Counts
    \* Whatever the verdict, when the run keeps ahead of it.
    <3>3. ASSUME NEW verdict \in {"accepted", "last", "refused"}, Judge(i, verdict),
                 earned => earned', verdict = "last" => earned',
                 D + (IF verdict = "accepted" THEN 1 ELSE 0) <= DoneBy(run'[Applicant]),
                 DoneBy(run'[Applicant]) \in Nat
          PROVE  Clean'
      <4> DEFINE e == [wire[i] EXCEPT !.verdict = verdict]
      <4>1. wire' = [wire EXCEPT ![i] = e] /\ UNCHANGED <<camera, looking, hearing>>
        BY <3>3 DEF Judge
      <4>2. e \in WireCall /\ e.ordinal = wire[i].ordinal /\ e.verdict = verdict
        BY <2>2, <2>4 DEF WireCall
      <4> HIDE DEF e
      <4>3. /\ DOMAIN wire' = DOMAIN wire /\ wire'[i] = e
            /\ (\A j \in DOMAIN wire : wire'[j].ordinal = wire[j].ordinal)
            /\ (\A j \in DOMAIN wire : j # i => wire'[j] = wire[j])
            /\ Cardinality(AcceptedIn(wire))' = (IF verdict = "accepted" THEN C + 1 ELSE C)
        BY <1>22, <2>2, <3>1, <4>1, <4>2
      <4>4. StartsAlone'
        BY <3>1, <3>2, <4>1, <4>2, <4>3 DEF StartsAlone, SettingUp
      <4>5. LastIsEarned'
        BY <1>13, <3>3, <4>1, <4>2, <4>3 DEF LastIsEarned
      <4>6. camera.index + Cardinality(AcceptedIn(wire))' <= DoneBy(run'[Applicant])
        <5>1. camera.index + C <= D /\ camera.index \in Nat
          BY <1>7, <1>14, <3>1, CameraAssumption
        <5> DEFINE X == Cardinality(AcceptedIn(wire))'
                   Y == DoneBy(run'[Applicant])
                   more == IF verdict = "accepted" THEN 1 ELSE 0
        <5>2. X = C + more
          BY <1>6, <4>3
        <5>3. D + more <= Y /\ Y \in Nat /\ more \in {0, 1}
          BY <3>3
        <5>4. D \in Nat
          BY <1>8, CameraAssumption
        <5> HIDE DEF C, D, X, Y, more
        <5>5. camera.index + X <= Y
          BY <1>6, <5>1, <5>2, <5>3, <5>4
        <5>6. QED
          BY <5>5 DEF X, Y
      <4>7. CountsFit'
        BY <4>1, <4>6 DEF CountsFit
      <4>8. QED
        BY <4>4, <4>5, <4>7 DEF Clean
    <3>4. CASE Server!Advance(Applicant) /\ Judge(i, "accepted") /\ UNCHANGED earned
      <4>1. /\ run[Applicant] # NoRun /\ run[Applicant] + 1 < Challenges
            /\ run' = [run EXCEPT ![Applicant] = run[Applicant] + 1]
        BY <3>4 DEF Server!Advance
      <4>2. run[Applicant] \in 0..(Challenges - 1) /\ run[Applicant] + 1 \in 0..(Challenges - 1)
        BY <1>1, <4>1, CameraAssumption
      <4>3. run'[Applicant] = run[Applicant] + 1
        BY <1>1, <4>1
      <4>4. D = run[Applicant]
        BY <4>1 DEF DoneBy
      <4>5. DoneBy(run'[Applicant]) \in Nat /\ D + 1 <= DoneBy(run'[Applicant])
        BY <4>2, <4>3, <4>4, CameraAssumption DEF DoneBy
      <4>6. QED
        BY <3>3, <3>4, <4>5
    <3>5. CASE Server!Finish(Applicant) /\ Judge(i, "last") /\ earned' = TRUE
      <4>1. run' = [run EXCEPT ![Applicant] = NoRun]
        BY <3>5 DEF Server!Finish
      <4>2. run'[Applicant] = NoRun
        BY <1>1, <4>1
      <4>3. DoneBy(run'[Applicant]) = Challenges - 1
        BY <4>2 DEF DoneBy
      <4> HIDE DEF D
      <4>4. DoneBy(run'[Applicant]) \in Nat /\ D + 0 <= DoneBy(run'[Applicant])
        BY <1>8, <4>3, CameraAssumption
      <4>5. QED
        BY <3>3, <3>5, <4>4 DEF D
    <3>6. CASE ServeRefuses(i)
      <4>1. Judge(i, "refused") /\ UNCHANGED <<run, earned>>
        BY <3>6 DEF ServeRefuses
      <4>2. DoneBy(run'[Applicant]) = D
        BY <4>1
      <4> HIDE DEF D
      <4>3. DoneBy(run'[Applicant]) \in Nat /\ D + 0 <= DoneBy(run'[Applicant])
        BY <1>8, <4>2, CameraAssumption
      <4>4. QED
        BY <3>3, <4>1, <4>3 DEF D
    <3>7. ~\E p \in Phrases : ServeStart(i, p)
      BY <3>1 DEF ServeStart
    <3>8. ServeEvidence(i) =>
            \/ Server!Advance(Applicant) /\ Judge(i, "accepted") /\ UNCHANGED earned
            \/ Server!Finish(Applicant) /\ Judge(i, "last") /\ earned' = TRUE
      BY DEF ServeEvidence
    <3>9. QED
      BY <2>1, <3>4, <3>5, <3>6, <3>7, <3>8 DEF CameraServes
  <2>7. QED
    BY <2>5, <2>6
<1>24. CASE CameraAnswered
  <2>1. PICK i \in DOMAIN wire : Arrives(i)
    BY <1>24 DEF CameraAnswered
  <2>2. /\ wire[i].verdict \notin {"sent", "setup"}
        /\ hearing' = Heard /\ UNCHANGED <<looking, run, spoken, earned>>
    BY <2>1 DEF Arrives
  <2>3. PICK verdict \in {wire[i].verdict, "refused"} :
          IF wire[i].ordinal = 0 THEN Started(i, verdict)
          ELSE /\ wire' = RemoveAt(wire, i)
               /\ camera' \in AfterAnswer(verdict, [camera EXCEPT !.submitting = FALSE])
    BY <2>1 DEF Arrives
  <2>4. ~Settled
    <3>1. wire # << >>
      OBVIOUS
    <3>2. QED
      BY <1>9, <3>1
  <2>5. QuietPage => QuietPage'
    BY <2>2 DEF QuietPage, Heard
  <2> DEFINE t == RemoveAt(wire, i)
  <2>6. /\ t \in Seq(WireCall) /\ Len(t) = Len(wire) - 1
        /\ (\A j \in DOMAIN t : \E k \in DOMAIN wire : t[j] = wire[k])
        /\ Cardinality(AcceptedIn(t)) \in Nat
        /\ Cardinality(AcceptedIn(t)) <= C
        /\ (wire[i].ordinal # 0 /\ wire[i].verdict = "accepted" => Cardinality(AcceptedIn(t)) + 1 <= C)
    BY <1>1, DeliveredAccepted
  <2>7. CASE SettingUp
    <3>1. wire[i].ordinal = 0 /\ Len(wire) = 1 /\ QuietPage /\ i = 1
      BY <1>16, <2>7
    <3>2. Started(i, verdict)
      BY <2>3, <3>1
    <3>3. CASE verdict = "refused"
      <4>1. wire' = t /\ camera'.phase = "failed"
        BY <1>1, <3>2, <3>3 DEF Started, CameraState
      <4>2. wire' = << >> /\ DOMAIN wire' = {}
        BY <2>6, <3>1, <4>1
      <4>3. Settled' /\ QuietPage'
        BY <2>5, <3>1, <4>2 DEF Settled, QuietPage
      <4>4. QED
        BY <4>1, <4>2, <4>3 DEF Clean, StartsAlone, SettingUp, LastIsEarned, CountsFit, Counts
    <3>4. CASE verdict # "refused"
      <4> DEFINE e == [wire[i] EXCEPT !.verdict = "setup"]
      <4>1. wire' = [wire EXCEPT ![i] = e] /\ camera'.phase = "setup"
        BY <1>1, <3>2, <3>4 DEF Started, CameraState
      <4>2. e \in WireCall /\ e.ordinal = 0 /\ e.verdict = "setup"
        BY <1>5, <3>1 DEF WireCall, Verdicts
      <4> HIDE DEF e
      <4>3. Len(wire') = 1 /\ wire'[1] = e /\ \A j \in DOMAIN wire' : j = 1
        BY <1>1, <1>5, <3>1, <4>1, <4>2, CallChanged
      <4>4. QED
        BY <2>5, <3>1, <4>1, <4>2, <4>3 DEF Clean, StartsAlone, SettingUp, LastIsEarned, CountsFit, Counts
    <3>5. QED
      BY <3>3, <3>4
  <2>8. CASE ~SettingUp
    <3>1. Counts /\ \A j \in DOMAIN wire : wire[j].ordinal # 0 /\ wire[j].verdict # "setup"
      BY <1>15, <2>4, <2>8
    <3> DEFINE c == [camera EXCEPT !.submitting = FALSE]
    <3>2. c \in CameraState /\ c.phase = camera.phase /\ c.index = camera.index
      BY <1>1 DEF CameraState
    <3>3. wire' = t /\ camera' \in AfterAnswer(verdict, c)
      BY <2>3, <3>1
    <3> HIDE DEF c
    <3>4. camera.index \in 0..(Challenges - 1) /\ camera.index + C <= D
      BY <1>14, <3>1
    <3>5. camera.phase \in {"running", "failed", "done"} /\ (camera.phase = "done" => earned)
      BY <1>13, <3>1 DEF Counts, LastIsEarned
    \* The page counts on only what is still under way of what the run has done.
    <3>6. /\ camera'.phase \in {"running", "failed", "done"}
          /\ (camera'.phase = "done" => earned)
          /\ camera'.index + Cardinality(AcceptedIn(wire')) <= D
      <4> DEFINE X == Cardinality(AcceptedIn(wire'))
      <4>0. /\ X \in Nat /\ X <= C /\ (wire[i].verdict = "accepted" => X + 1 <= C)
            /\ D \in 0..(Challenges - 1)
        BY <1>8, <2>6, <3>1, <3>3
      <4>1. camera.index + X <= D
        <5> HIDE DEF C, D, X
        <5>1. QED
          BY <1>6, <3>4, <4>0, CameraAssumption
      <4>2. CASE verdict = "last"
        <5>1. camera' = Finished(c)
          BY <3>3, <4>2 DEF AfterAnswer
        <5>2. wire[i].verdict = "last"
          BY <4>2
        <5>3. earned
          BY <1>13, <5>2 DEF LastIsEarned
        <5>4. camera'.phase \in {camera.phase, "done"} /\ camera'.index = camera.index
          BY <3>2, <5>1 DEF Finished, CameraState
        <5>5. QED
          BY <3>5, <4>1, <5>3, <5>4 DEF X
      <4>3. CASE verdict = "accepted"
        <5>1. camera' \in Advanced(c) /\ wire[i].verdict = "accepted"
          BY <3>3, <4>3 DEF AfterAnswer
        <5>2. /\ c.index + 1 \in 0..Challenges /\ ~(c.index + 1 >= Challenges)
              /\ camera.index + 1 + X <= D
          <6> HIDE DEF C, D, X
          <6>1. QED
            BY <1>6, <3>2, <3>4, <4>0, <5>1, CameraAssumption
        <5>3. PICK phase \in {"running", "failed"} :
                camera' = [c EXCEPT !.phase = phase, !.index = c.index + 1]
          BY <5>1, <5>2 DEF Advanced
        <5>4. camera'.phase \in {"running", "failed"} /\ camera'.index = camera.index + 1
          BY <3>2, <5>3 DEF CameraState
        <5>5. QED
          BY <5>2, <5>4 DEF X
      <4>4. CASE verdict \notin {"last", "accepted"}
        <5>1. camera' = c
          BY <3>3, <4>4 DEF AfterAnswer
        <5>2. QED
          BY <3>2, <3>5, <4>1, <5>1 DEF X
      <4>5. QED
        BY <4>2, <4>3, <4>4
    <3>7. \A j \in DOMAIN wire' : \E k \in DOMAIN wire : wire'[j] = wire[k]
      BY <2>6, <3>3
    <3>8. StartsAlone'
      BY <3>1, <3>6, <3>7 DEF StartsAlone, SettingUp
    <3>9. LastIsEarned'
      BY <1>13, <2>2, <3>6, <3>7 DEF LastIsEarned
    <3>10. CountsFit'
      BY <2>2, <3>6 DEF CountsFit
    <3>11. QED
      BY <3>8, <3>9, <3>10 DEF Clean
  <2>9. QED
    BY <2>7, <2>8
<1>25. CASE UNCHANGED cameraVars
  BY <1>13, <1>25 DEF cameraVars, Clean, StartsAlone, SettingUp, QuietPage, LastIsEarned, CountsFit,
     Counts, Settled
<1>26. QED
  BY <1>11, <1>18, <1>19, <1>20, <1>21, <1>23, <1>24, <1>25 DEF CameraNext

-------------------------------------------------------------------------------
(* The login page. What a call has seen the server still has, for a factor is *)
(* never taken back on a visit; an accepted password, and the face step asked  *)
(* for after it, have made the session: LoginCallsFit.                        *)

LoginCall == [kind : Kinds, factor : Factors, ok : BOOLEAN \cup {Unknown}, seen : Snapshot]

LoginCallFits(call, verified, accepted) ==
    /\ call.seen.verified \subseteq verified
    /\ call.kind = "login" /\ call.ok # Unknown /\ call.ok = TRUE => accepted
    /\ call.kind = "face" => accepted

LoginCallsFit == \A i \in DOMAIN calls : LoginCallFits(calls[i], held.verified, session)

LoginIInv == LoginTypeOK /\ LoginCallsFit /\ LoginShowsServer

(* Nothing is pending exactly when every factor is verified.                  *)
LEMMA ReadyIsAllFactors ==
    ASSUME NEW verified
    PROVE  LoginReady(verified) <=> Factors \subseteq verified
<1> DEFINE I == {i \in 1 .. Len(Channels) : Channels[i] \notin verified}
<1>1. NextPending(verified) = IF I # {} THEN Min(I) ELSE 0
  BY DEF NextPending, SelectInSeq
<1>2. Len(Channels) = 2 /\ DOMAIN Channels = 1 .. 2 /\ Factors = {Channels[i] : i \in 1 .. 2}
  BY DEF Channels, Factors
<1>3. ASSUME I # {} PROVE Min(I) # 0
  <2>1. I \subseteq {1, 2}
    BY <1>2
  <2>2. \E x \in I : \A y \in I : x <= y
    <3>1. CASE 1 \in I
      BY <2>1, <3>1
    <3>2. CASE 1 \notin I
      <4>1. 2 \in I
        BY <1>3, <2>1, <3>2
      <4>2. QED
        BY <2>1, <3>2, <4>1
    <3>3. QED
      BY <3>1, <3>2
  <2> HIDE DEF I
  <2>3. Min(I) \in I
    BY <2>2 DEF Min
  <2>4. QED
    BY <2>1, <2>3
<1>4. I = {} <=> Factors \subseteq verified
  BY <1>2
<1> HIDE DEF I
<1>5. QED
  BY <1>1, <1>3, <1>4 DEF LoginReady

(* The only call is the check.                                                *)
LEMMA LoginStarts == LoginInit => LoginIInv
<1> SUFFICES ASSUME LoginInit PROVE LoginIInv
  OBVIOUS
<1>1. "sms" \in Factors
  BY DEF Factors, Channels
<1>2. /\ Call("check", "sms") \in LoginCall /\ Call("check", "sms").seen.verified = {}
      /\ Call("check", "sms").kind = "check"
  BY <1>1 DEF Call, LoginCall, Kinds, Snapshot
<1>3. calls = <<Call("check", "sms")>> /\ calls \in Seq(LoginCall) /\ DOMAIN calls = {1}
      /\ calls[1] = Call("check", "sms")
  BY <1>2 DEF LoginInit
<1>4. LoginTypeOK
  BY <1>3 DEF LoginInit, LoginTypeOK, LoginCall
<1>5. LoginCallsFit
  BY <1>2, <1>3 DEF LoginCallsFit, LoginCallFits
<1>6. LoginShowsServer
  BY DEF LoginInit, LoginShowsServer
<1>7. QED
  BY <1>4, <1>5, <1>6 DEF LoginIInv

(* Every step of the page and the server keeps the invariant.                 *)
LEMMA LoginStepKeeps ==
    ASSUME LoginIInv, [LoginNext]_loginVars
    PROVE  LoginIInv'
<1> DEFINE LoginState == [phase : {"check", "factors", "complete", "face", "left"},
                          snapshot : Snapshot \cup {Unknown}, sent : SUBSET Factors, busy : BOOLEAN]
<1>1. /\ login \in LoginState /\ calls \in Seq(LoginCall) /\ held \in Snapshot /\ session \in BOOLEAN
  BY DEF LoginIInv, LoginTypeOK, LoginCall
<1>2. LoginCallsFit /\ LoginShowsServer
  BY DEF LoginIInv
<1>3. ASSUME login' \in LoginState, calls' \in Seq(LoginCall), held' \in Snapshot, session' \in BOOLEAN
      PROVE  LoginTypeOK'
  BY <1>3 DEF LoginTypeOK, LoginCall
<1>4. Len(calls) \in Nat /\ DOMAIN calls = 1 .. Len(calls) /\ \A i \in DOMAIN calls : calls[i] \in LoginCall
  BY <1>1, ElementOfSeq
<1>5. "sms" \in Factors
  BY DEF Factors, Channels
\* A call of the page: what its answer will be is open.
<1>6. ASSUME NEW kind \in Kinds, NEW f \in Factors
      PROVE  /\ Call(kind, f) \in LoginCall /\ Call(kind, f).kind = kind /\ Call(kind, f).ok = Unknown
             /\ Call(kind, f).seen.verified = {}
  BY <1>6 DEF Call, LoginCall, Snapshot
<1>7. ASSUME NEW kind \in Kinds \ {"face"}, NEW f \in Factors, Make(kind, f),
             UNCHANGED <<held, session>>, login' \in LoginState, login'.phase = login.phase,
             login'.snapshot = login.snapshot
      PROVE  LoginIInv'
  <2> DEFINE e == Call(kind, f)
  <2>1. e \in LoginCall /\ LoginCallFits(e, held.verified, session)
    BY <1>6 DEF LoginCallFits
  <2>2. calls' = Append(calls, e)
    BY <1>7 DEF Make
  <2> HIDE DEF e
  <2>3. /\ calls' \in Seq(LoginCall) /\ DOMAIN calls' = 1 .. (Len(calls) + 1)
        /\ \A i \in 1 .. Len(calls) : calls'[i] = calls[i]
        /\ calls'[Len(calls) + 1] = e
    BY <1>1, <2>1, <2>2, AppendProperties
  <2>4. LoginTypeOK'
    BY <1>1, <1>3, <1>7, <2>3
  <2>5. \A i \in DOMAIN calls' : calls'[i] = e \/ \E j \in DOMAIN calls : calls'[i] = calls[j]
    <3> SUFFICES ASSUME NEW i \in DOMAIN calls'
                 PROVE  calls'[i] = e \/ \E j \in DOMAIN calls : calls'[i] = calls[j]
      OBVIOUS
    <3>1. i \in 1 .. Len(calls) \/ i = Len(calls) + 1
      BY <1>4, <2>3
    <3>2. QED
      BY <1>4, <2>3, <3>1
  <2>6. LoginCallsFit'
    BY <1>2, <1>7, <2>1, <2>5 DEF LoginCallsFit, LoginCallFits
  <2>7. LoginShowsServer'
    BY <1>2, <1>7 DEF LoginShowsServer
  <2>8. QED
    BY <2>4, <2>6, <2>7 DEF LoginIInv
<1>8. CASE \E f \in Factors : SendCode(f)
  <2>1. PICK f \in Factors : SendCode(f)
    BY <1>8
  <2>2. /\ Make("send", f) /\ UNCHANGED <<held, session>> /\ login' = [login EXCEPT !.sent = @ \ {f}]
    BY <2>1 DEF SendCode
  <2>3. login' \in LoginState /\ login'.phase = login.phase /\ login'.snapshot = login.snapshot
    BY <1>1, <2>2
  <2>4. "send" \in Kinds \ {"face"}
    BY DEF Kinds
  <2> HIDE DEF LoginState
  <2>5. QED
    BY <1>7, <2>2, <2>3, <2>4
<1>9. CASE \E f \in Factors : VerifyCode(f)
  <2>1. PICK f \in Factors : VerifyCode(f)
    BY <1>9
  <2>2. /\ Make("verify", f) /\ UNCHANGED <<login, held, session>>
    BY <2>1 DEF VerifyCode
  <2>3. "verify" \in Kinds \ {"face"}
    BY DEF Kinds
  <2> HIDE DEF LoginState
  <2>4. QED
    BY <1>1, <1>7, <2>2, <2>3
<1>10. CASE CompleteLogin
  <2>1. /\ Make("login", "sms") /\ UNCHANGED <<held, session>> /\ login' = [login EXCEPT !.busy = TRUE]
    BY <1>10 DEF CompleteLogin
  <2>2. login' \in LoginState /\ login'.phase = login.phase /\ login'.snapshot = login.snapshot
    BY <1>1, <2>1
  <2>3. "login" \in Kinds \ {"face"}
    BY DEF Kinds
  <2> HIDE DEF LoginState
  <2>4. QED
    BY <1>5, <1>7, <2>1, <2>2, <2>3
<1>11. CASE \E i \in DOMAIN calls : Served(i)
  <2>1. PICK i \in DOMAIN calls : Served(i)
    BY <1>11
  <2>2. PICK ok \in BOOLEAN :
          /\ held' = IF ok /\ calls[i].kind = "verify"
                     THEN [held EXCEPT !.verified = @ \cup {calls[i].factor}] ELSE held
          /\ session' = (session \/ (ok /\ calls[i].kind = "login"))
          /\ calls' = [calls EXCEPT ![i].ok = ok, ![i].seen = held']
          /\ UNCHANGED login
    BY <2>1 DEF Served
  <2>3. held' \in Snapshot /\ held.verified \subseteq held'.verified
    <3>1. calls[i].factor \in Factors
      BY <1>4 DEF LoginCall
    <3>2. QED
      BY <1>1, <2>2, <3>1 DEF Snapshot
  <2>4. session' \in BOOLEAN /\ (session => session')
    BY <1>1, <2>2
  <2> DEFINE e == [calls[i] EXCEPT !.ok = ok, !.seen = held']
  <2>5. calls' = [calls EXCEPT ![i] = e]
    BY <1>4, <2>2 DEF LoginCall
  <2>6. e \in LoginCall /\ e.kind = calls[i].kind /\ e.ok = ok /\ e.seen = held'
    BY <1>4, <2>3 DEF LoginCall
  <2> HIDE DEF e
  <2>7. /\ calls' \in Seq(LoginCall) /\ DOMAIN calls' = DOMAIN calls
        /\ \A j \in DOMAIN calls : calls'[j] = IF j = i THEN e ELSE calls[j]
    BY <1>1, <1>4, <2>5, <2>6, ExceptSeq
  <2>8. LoginTypeOK'
    BY <1>1, <1>3, <2>2, <2>3, <2>4, <2>7
  <2>9. LoginCallsFit'
    <3> SUFFICES ASSUME NEW j \in DOMAIN calls
                 PROVE  LoginCallFits(calls'[j], held'.verified, session')
      BY <2>7 DEF LoginCallsFit
    <3>1. CASE j = i
      <4>1. LoginCallFits(calls[i], held.verified, session)
        BY <1>2 DEF LoginCallsFit
      <4>2. QED
        BY <2>2, <2>4, <2>6, <2>7, <3>1, <4>1 DEF LoginCallFits
    <3>2. CASE j # i
      BY <1>2, <2>3, <2>4, <2>7, <3>2 DEF LoginCallsFit, LoginCallFits
    <3>3. QED
      BY <3>1, <3>2
  <2>10. LoginShowsServer'
    <3>1. LoginReady(held.verified) => LoginReady(held'.verified)
      BY <2>3, ReadyIsAllFactors
    <3>2. QED
      BY <1>2, <2>2, <2>3, <2>4, <3>1 DEF LoginShowsServer
  <2>11. QED
    BY <2>8, <2>9, <2>10 DEF LoginIInv
<1>12. CASE \E i \in DOMAIN calls : Answered(i)
  <2>1. PICK i \in DOMAIN calls : Answered(i)
    BY <1>12
  <2> DEFINE call == calls[i]
  <2>2. PICK ok \in {call.ok, FALSE} :
          /\ login' = AfterAnswerTo(call, ok)
          /\ calls' = RemoveAt(calls, i) \o FollowUp(call, ok)
    BY <2>1 DEF Answered
  <2>3. call.ok # Unknown /\ UNCHANGED <<held, session>>
    BY <2>1 DEF Answered
  <2>4. call \in LoginCall /\ LoginCallFits(call, held.verified, session)
    BY <1>2, <1>4 DEF LoginCallsFit
  <2>5. /\ ok \in BOOLEAN /\ (ok => call.ok = TRUE) /\ call.kind \in Kinds /\ call.factor \in Factors
        /\ call.seen \in Snapshot
    BY <2>2, <2>3, <2>4 DEF LoginCall
  <2> HIDE DEF call
  <2>6. FollowUp(call, ok) \in Seq(LoginCall)
        /\ \A j \in DOMAIN FollowUp(call, ok) :
              LoginCallFits(FollowUp(call, ok)[j], held.verified, session)
    <3>1. CASE call.kind = "verify" /\ ok
      <4>1. "refresh" \in Kinds
        BY DEF Kinds
      <4>2. /\ Call("refresh", call.factor) \in LoginCall
            /\ LoginCallFits(Call("refresh", call.factor), held.verified, session)
        BY <1>6, <2>5, <4>1 DEF LoginCallFits
      <4>3. FollowUp(call, ok) = <<Call("refresh", call.factor)>>
        BY <3>1 DEF FollowUp
      <4>4. QED
        BY <4>2, <4>3
    <3>2. CASE call.kind = "login" /\ ok
      <4>1. "face" \in Kinds /\ session
        BY <2>3, <2>4, <2>5, <3>2 DEF Kinds, LoginCallFits
      <4>2. /\ Call("face", call.factor) \in LoginCall
            /\ LoginCallFits(Call("face", call.factor), held.verified, session)
        BY <1>6, <2>5, <4>1 DEF LoginCallFits
      <4>3. FollowUp(call, ok) = <<Call("face", call.factor)>>
        BY <3>2 DEF FollowUp
      <4>4. QED
        BY <4>2, <4>3
    <3>3. CASE ~(call.kind = "verify" /\ ok) /\ ~(call.kind = "login" /\ ok)
      <4>1. FollowUp(call, ok) = << >>
        BY <3>3 DEF FollowUp
      <4>2. QED
        BY <4>1
    <3>4. QED
      BY <3>1, <3>2, <3>3
  <2>7. calls' \in Seq(LoginCall) /\ LoginCallsFit'
    <3> DEFINE Fitting == {c \in LoginCall : LoginCallFits(c, held.verified, session)}
               more == FollowUp(call, ok)
    <3>1. \A j \in DOMAIN calls : calls[j] \in Fitting
      BY <1>2, <1>4 DEF LoginCallsFit
    <3>2. \A j \in DOMAIN more : more[j] \in Fitting
      BY <2>6, ElementOfSeq
    <3>3. calls' = RemoveAt(calls, i) \o more /\ more \in Seq(LoginCall)
      BY <2>2, <2>6
    <3> HIDE DEF Fitting, more
    <3>4. calls \in Seq(Fitting) /\ more \in Seq(Fitting)
      BY <1>1, <3>1, <3>2, <3>3, AllOf
    <3>5. calls' \in Seq(Fitting)
      BY <3>3, <3>4, Answering
    <3>6. \A k \in DOMAIN calls' : calls'[k] \in LoginCall /\ LoginCallFits(calls'[k], held.verified, session)
      BY <3>5, ElementOfSeq DEF Fitting
    <3>7. calls' \in Seq(LoginCall)
      BY <3>5, <3>6, AllOf
    <3>8. QED
      BY <2>3, <3>6, <3>7 DEF LoginCallsFit
  <2>9. call.seen.verified \subseteq held.verified /\ (call.kind = "face" => session)
    BY <2>4 DEF LoginCallFits
  <2>10. Shown(login, call.seen) \in LoginState
         /\ Shown(login, call.seen).snapshot = call.seen
         /\ Shown(login, call.seen).phase =
               IF LoginReady(call.seen.verified) THEN "complete" ELSE "factors"
    BY <1>1, <2>5 DEF Shown
  <2>11. LoginReady(call.seen.verified) => LoginReady(held.verified)
    BY <2>9, ReadyIsAllFactors
  <2>12. \/ login' \in LoginState /\ login'.snapshot = login.snapshot
            /\ login'.phase \in {login.phase, "factors", "left"}
         \/ login' = Shown(login, call.seen)
         \/ /\ login' \in LoginState /\ login'.snapshot = login.snapshot /\ login'.phase = "face"
            /\ call.kind = "face"
    <3>1. \/ login' = [login EXCEPT !.phase = "factors"]
          \/ login' = [login EXCEPT !.phase = "left"]
          \/ login' = Shown(login, call.seen)
          \/ login' = [login EXCEPT !.sent = @ \cup {call.factor}]
          \/ login' = [login EXCEPT !.sent = @ \ {call.factor}]
          \/ login' = [login EXCEPT !.busy = FALSE]
          \/ call.kind = "face" /\ login' = [login EXCEPT !.busy = FALSE, !.phase = "face"]
          \/ login' = login
      BY <2>2, <2>5 DEF AfterAnswerTo, Kinds
    <3>2. /\ [login EXCEPT !.phase = "factors"] \in LoginState
          /\ [login EXCEPT !.phase = "factors"].phase = "factors"
          /\ [login EXCEPT !.phase = "factors"].snapshot = login.snapshot
          /\ [login EXCEPT !.phase = "left"] \in LoginState
          /\ [login EXCEPT !.phase = "left"].phase = "left"
          /\ [login EXCEPT !.phase = "left"].snapshot = login.snapshot
      BY <1>1
    <3>3. \A sent \in SUBSET Factors :
            /\ [login EXCEPT !.sent = sent] \in LoginState
            /\ [login EXCEPT !.sent = sent].phase = login.phase
            /\ [login EXCEPT !.sent = sent].snapshot = login.snapshot
      BY <1>1
    <3>4. login.sent \cup {call.factor} \in SUBSET Factors /\ login.sent \ {call.factor} \in SUBSET Factors
      BY <1>1, <2>5
    <3>5. /\ [login EXCEPT !.busy = FALSE] \in LoginState
          /\ [login EXCEPT !.busy = FALSE].phase = login.phase
          /\ [login EXCEPT !.busy = FALSE].snapshot = login.snapshot
          /\ [login EXCEPT !.busy = FALSE, !.phase = "face"] \in LoginState
          /\ [login EXCEPT !.busy = FALSE, !.phase = "face"].phase = "face"
          /\ [login EXCEPT !.busy = FALSE, !.phase = "face"].snapshot = login.snapshot
      BY <1>1
    <3> HIDE DEF LoginState
    <3>6. QED
      BY <1>1, <3>1, <3>2, <3>3, <3>4, <3>5
  <2> HIDE DEF LoginState
  <2>13. login' \in LoginState
    BY <2>10, <2>12
  <2>14. LoginShowsServer'
    BY <1>2, <2>3, <2>9, <2>10, <2>11, <2>12 DEF LoginShowsServer
  <2>15. LoginTypeOK'
    BY <1>1, <1>3, <2>3, <2>7, <2>13
  <2>16. QED
    BY <2>7, <2>14, <2>15 DEF LoginIInv
<1>13. CASE UNCHANGED loginVars
  BY <1>13 DEF LoginIInv, loginVars, LoginTypeOK, LoginCallsFit, LoginShowsServer
<1>14. QED
  BY <1>8, <1>9, <1>10, <1>11, <1>12, <1>13 DEF LoginNext, CallProceeds

-------------------------------------------------------------------------------
(* The registration page. What shows an account as created is a status that   *)
(* says so, at the server, on its way, or on the page; each of them was made   *)
(* by a finalization the server has recorded: SeenFits.                       *)

FormOf == Forms \cup {Blank}

PageState == [view : {"loading", "failed", "open"}, status : Row \cup {NoRow},
              started : BOOLEAN, form : FormOf, saved : FormOf, sent : BOOLEAN, busy : BOOLEAN,
              location : {"idle", "requesting", "submitting", "error"}, associated : BOOLEAN]

AskedCall == [op : Ops, next : Ops, form : FormOf, verdict : {"sent", "ok", "refused"},
              seen : Row \cup {NoRow}]

SeenFits(status, done) == status # NoRow /\ "finalize" \in status.passed => "finalize" \in done

AskedFits(call, done) ==
    /\ SeenFits(call.seen, done)
    /\ call.verdict = "ok" /\ call.op \in {"finalize", "associate"} => call.op \in done

PageFits(p, done) == SeenFits(p.status, done) /\ (p.associated => "associate" \in done)

RegistrationFits ==
    /\ SeenFits(row, recorded)
    /\ PageFits(page, recorded)
    /\ \A i \in DOMAIN asked : AskedFits(asked[i], recorded)

RegistrationPageIInv == RegistrationPageTypeOK /\ RegistrationFits

(* The invariant says what the page shows.                                    *)
LEMMA RegistrationFitsIsShown == RegistrationPageIInv => RegistrationShowsServer
BY DEF RegistrationPageIInv, RegistrationFits, PageFits, SeenFits, RegistrationShowsServer, Finalized

(* A call that is asked for has shown nothing yet.                            *)
LEMMA AskFits ==
    ASSUME NEW op \in Ops, NEW next \in Ops, NEW form \in FormOf
    PROVE  /\ Ask(op, next, form) \in AskedCall
           /\ \A done : AskedFits(Ask(op, next, form), done)
BY DEF Ask, AskedCall, AskedFits, SeenFits

(* The session of an earlier visit, if there is one, was not finalized.       *)
LEMMA RegistrationStarts == RegistrationPageInit => RegistrationPageIInv
<1> SUFFICES ASSUME RegistrationPageInit PROVE RegistrationPageIInv
  OBVIOUS
<1>1. FreshPage \in PageState /\ \A done : PageFits(FreshPage, done)
  BY DEF FreshPage, PageState, FormOf, PageFits, SeenFits
<1>2. row \in Row \cup {NoRow} /\ SeenFits(row, recorded)
  <2>1. CASE row = NoRow
    BY <2>1 DEF SeenFits
  <2>2. CASE row \in Resumable
    <3>1. PICK f \in Forms, i \in DOMAIN Steps :
            row = [stored |-> f, passed |-> {Steps[j] : j \in 1..(i - 1)}, old |-> TRUE]
      BY <2>2 DEF Resumable
    <3>2. DOMAIN Steps = 1 .. 6
      BY DEF Steps
    <3>3. \A j \in 1 .. (i - 1) : Steps[j] \in Passable /\ Steps[j] # "finalize"
      <4> SUFFICES ASSUME NEW j \in 1 .. (i - 1) PROVE Steps[j] \in Passable /\ Steps[j] # "finalize"
        OBVIOUS
      <4>1. j \in 1 .. 5
        BY <3>2
      <4>2. Steps[j] # "finalize"
        BY <4>1 DEF Steps
      <4>3. QED
        BY <3>2, <4>1, <4>2 DEF Passable
    <3>4. {Steps[j] : j \in 1..(i - 1)} \subseteq Passable /\ "finalize" \notin {Steps[j] : j \in 1..(i - 1)}
      BY <3>3
    <3>5. QED
      BY <3>1, <3>4 DEF Row, SeenFits
  <2>3. QED
    BY <2>1, <2>2 DEF RegistrationPageInit
<1>3. "status" \in Ops /\ Blank \in FormOf
  BY DEF Ops, FormOf
<1>4. /\ asked \in Seq(AskedCall) /\ DOMAIN asked = {1} /\ AskedFits(asked[1], recorded)
  BY <1>3, AskFits DEF RegistrationPageInit
<1>5. RegistrationPageTypeOK
  BY <1>1, <1>2, <1>4 DEF RegistrationPageInit, RegistrationPageTypeOK, AskedCall, PageState, FormOf
<1>6. QED
  BY <1>1, <1>2, <1>4, <1>5 DEF RegistrationPageInit, RegistrationPageIInv, RegistrationFits

(* Every step of the page and the server keeps the invariant.                 *)
LEMMA RegistrationStepKeeps ==
    ASSUME RegistrationPageIInv, [RegistrationPageNext]_registrationPageVars
    PROVE  RegistrationPageIInv'
<1>1. /\ page \in PageState /\ asked \in Seq(AskedCall) /\ row \in Row \cup {NoRow}
      /\ recorded \subseteq {"finalize", "associate"}
  BY DEF RegistrationPageIInv, RegistrationPageTypeOK, PageState, AskedCall, FormOf
<1>2. /\ SeenFits(row, recorded) /\ PageFits(page, recorded)
      /\ \A i \in DOMAIN asked : AskedFits(asked[i], recorded)
  BY DEF RegistrationPageIInv, RegistrationFits
<1>3. ASSUME page' \in PageState, asked' \in Seq(AskedCall), row' \in Row \cup {NoRow},
             recorded' \subseteq {"finalize", "associate"},
             SeenFits(row', recorded'), PageFits(page', recorded'),
             \A i \in DOMAIN asked' : AskedFits(asked'[i], recorded')
      PROVE  RegistrationPageIInv'
  BY <1>3 DEF RegistrationPageIInv, RegistrationPageTypeOK, PageState, AskedCall, FormOf,
     RegistrationFits, SeenFits, PageFits, AskedFits
<1>4. Len(asked) \in Nat /\ DOMAIN asked = 1 .. Len(asked)
      /\ \A i \in DOMAIN asked : asked[i] \in AskedCall
  BY <1>1, ElementOfSeq
<1>5. Blank \in FormOf /\ page.form \in FormOf
  BY <1>1 DEF FormOf, PageState
\* What does not touch the status or the wallet of the page.
<1>6. ASSUME NEW p \in PageState, PageFits(p, recorded), NEW b \in BOOLEAN
      PROVE  /\ [p EXCEPT !.busy = b] \in PageState /\ PageFits([p EXCEPT !.busy = b], recorded)
             /\ [p EXCEPT !.sent = b] \in PageState /\ PageFits([p EXCEPT !.sent = b], recorded)
             /\ [p EXCEPT !.started = b] \in PageState /\ PageFits([p EXCEPT !.started = b], recorded)
  BY <1>6 DEF PageState, PageFits
<1>7. ASSUME NEW p \in PageState, PageFits(p, recorded), NEW f \in FormOf
      PROVE  /\ [p EXCEPT !.form = f] \in PageState /\ PageFits([p EXCEPT !.form = f], recorded)
             /\ [p EXCEPT !.saved = f] \in PageState /\ PageFits([p EXCEPT !.saved = f], recorded)
  BY <1>7 DEF PageState, PageFits
<1>8. ASSUME NEW p \in PageState, PageFits(p, recorded),
             NEW at \in {"idle", "requesting", "submitting", "error"}
      PROVE  [p EXCEPT !.location = at] \in PageState /\ PageFits([p EXCEPT !.location = at], recorded)
  BY <1>8 DEF PageState, PageFits
<1>9. ASSUME NEW p \in PageState, PageFits(p, recorded),
             NEW s \in Row \cup {NoRow}, SeenFits(s, recorded)
      PROVE  [p EXCEPT !.status = s] \in PageState /\ PageFits([p EXCEPT !.status = s], recorded)
  BY <1>9 DEF PageState, PageFits
\* A call of the page.
<1>10. ASSUME NEW op \in Ops, NEW next \in Ops, NEW form \in FormOf,
              asked' = Append(asked, Ask(op, next, form))
       PROVE  asked' \in Seq(AskedCall) /\ \A i \in DOMAIN asked' : AskedFits(asked'[i], recorded)
  <2> DEFINE e == Ask(op, next, form)
  <2>1. e \in AskedCall /\ AskedFits(e, recorded)
    BY <1>10, AskFits
  <2>2. asked' = Append(asked, e)
    BY <1>10
  <2> HIDE DEF e
  <2>3. /\ asked' \in Seq(AskedCall) /\ DOMAIN asked' = 1 .. (Len(asked) + 1)
        /\ \A i \in 1 .. Len(asked) : asked'[i] = asked[i]
        /\ asked'[Len(asked) + 1] = e
    BY <1>1, <2>1, <2>2, AppendProperties
  <2>4. ASSUME NEW i \in DOMAIN asked' PROVE AskedFits(asked'[i], recorded)
    <3>1. i \in 1 .. Len(asked) \/ i = Len(asked) + 1
      BY <1>4, <2>3
    <3>2. QED
      BY <1>2, <1>4, <2>1, <2>3, <3>1
  <2>5. QED
    BY <2>3, <2>4
<1>11. ASSUME NEW op \in Ops, NEW next \in Ops, NEW form \in FormOf, Request(op, next, form),
              page' \in PageState, PageFits(page', recorded)
       PROVE  RegistrationPageIInv'
  BY <1>1, <1>2, <1>3, <1>10, <1>11 DEF Request
<1>12. ASSUME NEW op \in Ops, NEW next \in Ops, NEW form \in FormOf, Press(op, next, form)
       PROVE  RegistrationPageIInv'
  <2>1. page' = [page EXCEPT !.busy = TRUE] /\ Request(op, next, form)
    BY <1>12 DEF Press
  <2>2. QED
    BY <1>1, <1>2, <1>6, <1>11, <2>1
<1>13. ASSUME page' \in PageState, PageFits(page', recorded), UNCHANGED <<asked, row, recorded>>
       PROVE  RegistrationPageIInv'
  BY <1>1, <1>2, <1>3, <1>13
<1>14. CASE (\E f \in Forms : TypesForm(f)) \/ CaptureLocation
  <2>1. CASE \E f \in Forms : TypesForm(f)
    BY <1>1, <1>2, <1>7, <1>13, <2>1 DEF TypesForm, FormOf
  <2>2. CASE CaptureLocation
    BY <1>1, <1>2, <1>8, <1>13, <2>2 DEF CaptureLocation
  <2>3. QED
    BY <1>14, <2>1, <2>2
<1>15. CASE \/ SavePressed \/ ContinuePressed \/ SendEmail \/ FinalizePressed \/ AssociateWallet
            \/ \E op \in StepCalls : StepPressed(op)
  <2>1. /\ "personal" \in Ops /\ "begin" \in Ops /\ "complete" \in Ops /\ "start" \in Ops
        /\ "finalize" \in Ops /\ "associate" \in Ops /\ StepCalls \subseteq Ops
    BY DEF Ops
  <2>2. \E op, next \in Ops, form \in FormOf : Press(op, next, form)
    BY <1>5, <1>15, <2>1 DEF SavePressed, PressInSession, ContinuePressed, SendEmail,
       FinalizePressed, AssociateWallet, StepPressed
  <2>3. QED
    BY <1>12, <2>2
<1>16. CASE LookupPressed
  <2>1. "begin" \in Ops /\ "lookup" \in Ops
    BY DEF Ops
  <2>2. UNCHANGED page /\ \E op, next \in Ops, form \in FormOf : Request(op, next, form)
    BY <1>5, <1>16, <2>1 DEF LookupPressed
  <2>3. QED
    BY <1>1, <1>2, <1>11, <2>2
<1>17. CASE LocationFixed
  <2>1. "location" \in Ops
    BY DEF Ops
  <2>2. CASE /\ page' = [page EXCEPT !.location = "submitting"] /\ Request("location", "location", Blank)
    BY <1>1, <1>2, <1>5, <1>8, <1>11, <2>1, <2>2
  <2>3. CASE page' = [page EXCEPT !.location = "error"] /\ UNCHANGED <<asked, row, recorded>>
    BY <1>1, <1>2, <1>8, <1>13, <2>3
  <2>4. QED
    BY <1>17, <2>2, <2>3 DEF LocationFixed
<1>18. CASE LiveCheckPasses
  <2>1. /\ row # NoRow /\ row' = [row EXCEPT !.passed = @ \cup {"liveness"}]
        /\ asked' = Append(asked, Ask("status", "status", Blank)) /\ UNCHANGED <<page, recorded>>
    BY <1>18 DEF LiveCheckPasses
  <2>2. "liveness" \in Passable /\ "status" \in Ops
    <3>1. 4 \in DOMAIN Steps /\ Steps[4] = "liveness"
      BY DEF Steps
    <3>2. QED
      BY <3>1 DEF Passable, Ops
  <2>3. row' \in Row /\ SeenFits(row', recorded)
    BY <1>1, <1>2, <2>1, <2>2 DEF Row, SeenFits
  <2>4. asked' \in Seq(AskedCall) /\ \A i \in DOMAIN asked' : AskedFits(asked'[i], recorded)
    BY <1>5, <1>10, <2>1, <2>2
  <2>5. QED
    BY <1>1, <1>2, <1>3, <2>1, <2>3, <2>4
<1>19. CASE RowExpires
  <2>1. row' = NoRow /\ UNCHANGED <<page, asked, recorded>>
    BY <1>19 DEF RowExpires
  <2>2. SeenFits(NoRow, recorded)
    BY DEF SeenFits
  <2>3. QED
    BY <1>1, <1>2, <1>3, <2>1, <2>2
<1>20. CASE Reload
  <2>1. /\ page' = FreshPage /\ asked' = <<Ask("status", "status", Blank)>>
        /\ UNCHANGED <<row, recorded>>
    BY <1>20 DEF Reload
  <2>2. FreshPage \in PageState /\ PageFits(FreshPage, recorded)
    BY DEF FreshPage, PageState, FormOf, PageFits, SeenFits
  <2>3. "status" \in Ops
    BY DEF Ops
  <2>4. asked' \in Seq(AskedCall) /\ DOMAIN asked' = {1} /\ AskedFits(asked'[1], recorded)
    BY <1>5, <2>1, <2>3, AskFits
  <2>5. QED
    BY <1>1, <1>2, <1>3, <2>1, <2>2, <2>4
<1>21. CASE \E i \in DOMAIN asked : RegistrationServed(i)
  <2>1. PICK i \in DOMAIN asked : RegistrationServed(i)
    BY <1>21
  <2> DEFINE call == asked[i]
  <2>2. call \in AskedCall /\ AskedFits(call, recorded)
    BY <1>2, <1>4
  \* The new session and the verdict.
  <2>3. \E verdict \in {"ok", "refused"}, heard \in Row \cup {NoRow} :
          /\ asked' = [asked EXCEPT ![i] = [call EXCEPT !.verdict = verdict, !.seen = heard]]
          /\ SeenFits(heard, IF verdict = "ok" THEN recorded \cup ({call.op} \cap {"finalize", "associate"})
                            ELSE recorded)
          /\ row' \in Row \cup {NoRow}
          /\ SeenFits(row', IF verdict = "ok" THEN recorded \cup ({call.op} \cap {"finalize", "associate"})
                            ELSE recorded)
    <3>1. CASE call.op = "status" /\ row' = row /\ asked' = [asked EXCEPT ![i].verdict = "ok", ![i].seen = row]
      <4>1. asked' = [asked EXCEPT ![i] = [call EXCEPT !.verdict = "ok", !.seen = row]]
        BY <1>4, <3>1 DEF AskedCall
      <4>2. QED
        BY <1>1, <1>2, <3>1, <4>1 DEF SeenFits
    <3>2. CASE call.op = "begin" /\ row' = EmptyRow /\ asked' = [asked EXCEPT ![i].verdict = "ok"]
      <4>1. asked' = [asked EXCEPT ![i] = [call EXCEPT !.verdict = "ok", !.seen = call.seen]]
        BY <1>4, <2>2, <3>2 DEF AskedCall
      <4>2. EmptyRow \in Row /\ \A done : SeenFits(EmptyRow, done)
        BY DEF EmptyRow, Row, SeenFits
      <4>3. call.seen \in Row \cup {NoRow} /\ SeenFits(call.seen, recorded)
        BY <2>2 DEF AskedCall, AskedFits
      <4>4. QED
        BY <3>2, <4>1, <4>2, <4>3 DEF SeenFits
    <3>3. CASE /\ call.op \notin {"status", "begin"} /\ MayServe(call)
               /\ row' \in IF call.op # "start" THEN {AfterServing(call)}
                           ELSE {row, [row EXCEPT !.passed = @ \ {"code"}],
                                      [row EXCEPT !.passed = @ \cup {"code"}]}
               /\ asked' = [asked EXCEPT ![i].verdict = "ok", ![i].seen = row']
      <4>1. asked' = [asked EXCEPT ![i] = [call EXCEPT !.verdict = "ok", !.seen = row']]
        BY <1>4, <3>3 DEF AskedCall
      <4>2. row # NoRow \/ call.op = "associate"
        BY <3>3 DEF MayServe
      <4>3. \A s \in {"personal", "code", "upload", "location", "finalize"} : s \in Passable
        <5>1. /\ DOMAIN Steps = 1 .. 6 /\ Steps[1] = "personal" /\ Steps[2] = "code"
              /\ Steps[3] = "upload" /\ Steps[5] = "location" /\ Steps[6] = "finalize"
          BY DEF Steps
        <5>2. QED
          BY <5>1 DEF Passable
      <4>4. \/ row' = row
            \/ row # NoRow /\ call.op = "personal"
               /\ row' = [row EXCEPT !.stored = call.form, !.passed = @ \ {"personal"}]
            \/ row # NoRow /\ row' = [row EXCEPT !.passed = @ \ {"code"}]
            \/ row # NoRow /\ call.op = "finalize" /\ row' = [row EXCEPT !.passed = @ \cup {"finalize"}]
            \/ row # NoRow /\ \E s \in {"personal", "code", "upload", "location"} :
                                row' = [row EXCEPT !.passed = @ \cup {s}]
        <5>1. CASE call.op = "start"
          BY <3>3, <4>2, <5>1
        <5>2. CASE call.op # "start"
          <6>1. row' = AfterServing(call)
            BY <3>3, <5>2
          <6>2. /\ DOMAIN CallOf = {"verify", "send", "location"}
                /\ \A op \in DOMAIN CallOf : CallOf[op] \in {"code", "upload", "location"}
            BY DEF CallOf
          <6>3. CASE call.op = "associate"
            BY <6>1, <6>2, <6>3 DEF AfterServing
          <6>4. CASE call.op # "associate"
            BY <4>2, <6>1, <6>2, <6>4 DEF AfterServing
          <6>5. QED
            BY <6>3, <6>4
        <5>3. QED
          BY <5>1, <5>2
      <4>5. /\ row' \in Row \cup {NoRow}
            /\ row' # row => /\ row # NoRow
                             /\ "finalize" \in row'.passed =>
                                    "finalize" \in row.passed \/ call.op = "finalize"
        <5>1. call.form \in FormOf
          BY <2>2 DEF AskedCall
        <5> HIDE DEF call
        <5>2. CASE row' = row
          BY <1>1, <5>2
        <5>3. CASE row # NoRow /\ row' = [row EXCEPT !.stored = call.form, !.passed = @ \ {"personal"}]
          BY <1>1, <5>1, <5>3 DEF Row, FormOf
        <5>4. CASE row # NoRow /\ row' = [row EXCEPT !.passed = @ \ {"code"}]
          BY <1>1, <5>4 DEF Row
        <5>5. CASE row # NoRow /\ call.op = "finalize" /\ row' = [row EXCEPT !.passed = @ \cup {"finalize"}]
          BY <1>1, <4>3, <5>5 DEF Row
        <5>6. CASE row # NoRow /\ \E s \in {"personal", "code", "upload", "location"} :
                                    row' = [row EXCEPT !.passed = @ \cup {s}]
          <6>1. PICK s \in {"personal", "code", "upload", "location"} :
                    row' = [row EXCEPT !.passed = @ \cup {s}]
            BY <5>6
          <6>2. row \in Row /\ s \in Passable /\ s # "finalize"
            BY <1>1, <4>3, <5>6
          <6>3. QED
            BY <5>6, <6>1, <6>2 DEF Row
        <5>7. QED
          BY <4>4, <5>2, <5>3, <5>4, <5>5, <5>6
      <4>6. SeenFits(row', recorded \cup ({call.op} \cap {"finalize", "associate"}))
        <5> HIDE DEF call
        <5>1. SUFFICES ASSUME row' # NoRow, "finalize" \in row'.passed
                       PROVE  "finalize" \in recorded \cup ({call.op} \cap {"finalize", "associate"})
          BY DEF SeenFits
        <5>2. CASE call.op = "finalize"
          BY <5>2
        <5>3. CASE call.op # "finalize"
          <6>1. row # NoRow /\ "finalize" \in row.passed
            BY <4>5, <5>1, <5>3
          <6>2. QED
            BY <1>2, <6>1 DEF SeenFits
        <5>4. QED
          BY <5>2, <5>3
      <4>7. QED
        BY <4>1, <4>5, <4>6
    <3>4. CASE row' = row /\ asked' = [asked EXCEPT ![i].verdict = "refused"]
      <4>1. asked' = [asked EXCEPT ![i] = [call EXCEPT !.verdict = "refused", !.seen = call.seen]]
        BY <1>4, <2>2, <3>4 DEF AskedCall
      <4>2. call.seen \in Row \cup {NoRow} /\ SeenFits(call.seen, recorded)
        BY <2>2 DEF AskedCall, AskedFits
      <4>3. QED
        BY <1>1, <1>2, <3>4, <4>1, <4>2 DEF SeenFits
    <3>5. QED
      BY <2>1, <3>1, <3>2, <3>3, <3>4 DEF RegistrationServed
  <2>4. PICK verdict \in {"ok", "refused"}, heard \in Row \cup {NoRow} :
          /\ asked' = [asked EXCEPT ![i] = [call EXCEPT !.verdict = verdict, !.seen = heard]]
          /\ SeenFits(heard, IF verdict = "ok" THEN recorded \cup ({call.op} \cap {"finalize", "associate"})
                            ELSE recorded)
          /\ row' \in Row \cup {NoRow}
          /\ SeenFits(row', IF verdict = "ok" THEN recorded \cup ({call.op} \cap {"finalize", "associate"})
                            ELSE recorded)
    BY <2>3
  <2> DEFINE e == [call EXCEPT !.verdict = verdict, !.seen = heard]
  <2>5. e \in AskedCall /\ e.op = call.op /\ e.verdict = verdict /\ e.seen = heard
    BY <2>2 DEF AskedCall
  <2>6. asked' = [asked EXCEPT ![i] = e]
    BY <2>4
  <2> HIDE DEF e, call
  <2>7. /\ asked' \in Seq(AskedCall) /\ DOMAIN asked' = DOMAIN asked
        /\ \A j \in DOMAIN asked : asked'[j] = IF j = i THEN e ELSE asked[j]
    BY <1>1, <1>4, <2>5, <2>6, ExceptSeq
  <2>8. /\ recorded' = IF verdict = "ok" THEN recorded \cup ({call.op} \cap {"finalize", "associate"})
                       ELSE recorded
        /\ UNCHANGED page
    BY <2>1, <2>5, <2>7 DEF RegistrationServed, call
  <2>9. recorded \subseteq recorded' /\ recorded' \subseteq {"finalize", "associate"}
    BY <1>1, <2>8
  <2>10. ASSUME NEW j \in DOMAIN asked' PROVE AskedFits(asked'[j], recorded')
    <3>1. CASE j = i
      <4>1. SeenFits(heard, recorded')
        BY <2>4, <2>8
      <4>2. verdict = "ok" /\ call.op \in {"finalize", "associate"} => call.op \in recorded'
        BY <2>8
      <4>3. asked'[j] = e
        BY <2>7, <3>1
      <4>4. QED
        BY <2>5, <4>1, <4>2, <4>3 DEF AskedFits
    <3>2. CASE j # i
      BY <1>2, <2>7, <2>9, <3>2 DEF AskedFits, SeenFits
    <3>3. QED
      BY <3>1, <3>2
  <2>11. PageFits(page', recorded') /\ page' \in PageState
    BY <1>1, <1>2, <2>8, <2>9 DEF PageFits, SeenFits
  <2>12. SeenFits(row', recorded')
    BY <2>4, <2>8
  <2>13. QED
    BY <1>3, <2>4, <2>7, <2>9, <2>10, <2>11, <2>12
<1>22. CASE \E i \in DOMAIN asked : RegistrationAnswered(i)
  <2>1. PICK i \in DOMAIN asked : RegistrationAnswered(i)
    BY <1>22
  <2> DEFINE call == asked[i]
  <2>2. call \in AskedCall /\ AskedFits(call, recorded)
    BY <1>2, <1>4
  <2>3. PICK ok \in {call.verdict = "ok", FALSE} :
          /\ \E p \in IF page.view = "loading" THEN {Booted(page, call, ok)}
                      ELSE IF ok THEN AnsweredOk(page, call) ELSE AnsweredNot(page, call) :
               page' = [p EXCEPT !.busy = @ /\ ~Releases(call, ok)]
          /\ asked' = RemoveAt(asked, i) \o Then(call, ok)
    BY <2>1 DEF RegistrationAnswered
  <2>4. UNCHANGED <<row, recorded>>
    BY <2>1 DEF RegistrationAnswered
  <2>5. /\ ok \in BOOLEAN /\ (ok => call.verdict = "ok") /\ call.op \in Ops /\ call.next \in Ops
        /\ call.form \in FormOf /\ call.seen \in Row \cup {NoRow} /\ SeenFits(call.seen, recorded)
        /\ (ok /\ call.op \in {"finalize", "associate"} => call.op \in recorded)
    BY <2>2, <2>3 DEF AskedCall, AskedFits
  <2> HIDE DEF call
  <2>6. \A j \in DOMAIN Then(call, ok) :
            Then(call, ok)[j] \in AskedCall /\ AskedFits(Then(call, ok)[j], recorded)
    <3>1. Then(call, ok) = << >> \/ \E op, next \in Ops, form \in FormOf :
                                      Then(call, ok) = <<Ask(op, next, form)>>
      <4>1. "status" \in Ops /\ "start" \in Ops
        BY DEF Ops
      <4>2. \/ Then(call, ok) = <<Ask(call.next, call.next, call.form)>>
            \/ Then(call, ok) = <<Ask("status", call.op, Blank)>>
            \/ Then(call, ok) = <<Ask("status", "start", Blank)>>
            \/ Then(call, ok) = << >>
        BY DEF Then
      <4>3. QED
        BY <1>5, <2>5, <4>1, <4>2
    <3>2. CASE Then(call, ok) = << >>
      BY <3>2
    <3>3. CASE \E op, next \in Ops, form \in FormOf : Then(call, ok) = <<Ask(op, next, form)>>
      <4>1. PICK op \in Ops, next \in Ops, form \in FormOf : Then(call, ok) = <<Ask(op, next, form)>>
        BY <3>3
      <4>2. DOMAIN Then(call, ok) = {1} /\ Then(call, ok)[1] = Ask(op, next, form)
        BY <4>1
      <4>3. QED
        BY <4>2, AskFits
    <3>4. QED
      BY <3>1, <3>2, <3>3
  <2>7. Then(call, ok) \in Seq(AskedCall)
    <3>1. Then(call, ok) = << >> \/ \E x : Then(call, ok) = <<x>>
      BY DEF Then
    <3>2. CASE Then(call, ok) = << >>
      BY <3>2
    <3>3. CASE \E x : Then(call, ok) = <<x>>
      <4>1. PICK x : Then(call, ok) = <<x>>
        BY <3>3
      <4>2. x \in AskedCall
        BY <2>6, <4>1
      <4>3. QED
        BY <4>1, <4>2
    <3>4. QED
      BY <3>1, <3>2, <3>3
  <2>8. asked' \in Seq(AskedCall) /\ \A k \in DOMAIN asked' : AskedFits(asked'[k], recorded)
    <3> DEFINE Fitting == {c \in AskedCall : AskedFits(c, recorded)}
               more == Then(call, ok)
    <3>1. \A j \in DOMAIN asked : asked[j] \in Fitting
      BY <1>2, <1>4
    <3>2. \A j \in DOMAIN more : more[j] \in Fitting
      BY <2>6
    <3>3. asked' = RemoveAt(asked, i) \o more /\ more \in Seq(AskedCall)
      BY <2>3, <2>7
    <3> HIDE DEF Fitting, more
    <3>4. asked \in Seq(Fitting) /\ more \in Seq(Fitting)
      BY <1>1, <3>1, <3>2, <3>3, AllOf
    <3>5. asked' \in Seq(Fitting)
      BY <3>3, <3>4, Answering
    <3>6. \A k \in DOMAIN asked' : asked'[k] \in AskedCall /\ AskedFits(asked'[k], recorded)
      BY <3>5, ElementOfSeq DEF Fitting
    <3>7. asked' \in Seq(AskedCall)
      BY <3>5, <3>6, AllOf
    <3>8. QED
      BY <3>6, <3>7
  <2>9. PICK p \in IF page.view = "loading" THEN {Booted(page, call, ok)}
                   ELSE IF ok THEN AnsweredOk(page, call) ELSE AnsweredNot(page, call) :
               page' = [p EXCEPT !.busy = @ /\ ~Releases(call, ok)]
    BY <2>3
  <2>10. p \in PageState /\ PageFits(p, recorded)
    <3>1. CASE p = Booted(page, call, ok)
      <4>1. CASE ~ok
        <5>1. p = [page EXCEPT !.view = "failed"]
          BY <3>1, <4>1 DEF Booted
        <5>2. QED
          BY <1>1, <1>2, <5>1 DEF PageState, PageFits
      <4>2. CASE ok
        <5>1. p = [page EXCEPT !.view = "open", !.status = call.seen, !.started = call.seen # NoRow]
          BY <3>1, <4>2 DEF Booted
        <5>2. QED
          BY <1>1, <1>2, <2>5, <5>1 DEF PageState, PageFits
      <4>3. QED
        BY <2>5, <4>1, <4>2
    <3>2. CASE p \in AnsweredNot(page, call)
      <4>1. p = page \/ p = [page EXCEPT !.location = "error"]
        BY <3>2 DEF AnsweredNot
      <4>2. QED
        BY <1>1, <1>2, <1>8, <4>1
    <3>3. CASE ok /\ p \in AnsweredOk(page, call)
      <4>1. \/ p = page
            \/ call.op = "status" /\ p = Refreshed(page, call.seen)
            \/ p = [page EXCEPT !.started = TRUE]
            \/ p = [page EXCEPT !.status = call.seen, !.saved = call.form]
            \/ p = [page EXCEPT !.status = call.seen]
            \/ \E f \in FormOf : p = [page EXCEPT !.form = f]
            \/ p = [page EXCEPT !.sent = TRUE]
            \/ p = [page EXCEPT !.sent = FALSE]
            \/ p = [page EXCEPT !.location = "idle"]
            \/ /\ call.op = "finalize" /\ page.status # NoRow
               /\ p = [page EXCEPT !.status.passed = @ \cup {"finalize"}]
            \/ call.op = "associate" /\ p = [page EXCEPT !.associated = TRUE]
        BY <3>3 DEF AnsweredOk, FormOf
      <4>2. CASE p = Refreshed(page, call.seen)
        <5>1. \/ p = [page EXCEPT !.status = NoRow, !.started = FALSE]
              \/ p = [page EXCEPT !.status = call.seen]
          BY <4>2 DEF Refreshed
        <5>2. CASE p = [page EXCEPT !.status = NoRow, !.started = FALSE]
          BY <1>1, <1>2, <5>2 DEF PageState, PageFits, SeenFits
        <5>3. QED
          BY <1>1, <1>2, <1>9, <2>5, <5>1, <5>2
      <4>3. CASE p = [page EXCEPT !.status = call.seen, !.saved = call.form]
        BY <1>1, <1>2, <2>5, <4>3 DEF PageState, PageFits
      <4>4. CASE p = [page EXCEPT !.status = call.seen]
        BY <1>1, <1>2, <1>9, <2>5, <4>4
      <4>5. CASE /\ call.op = "finalize" /\ page.status # NoRow
                 /\ p = [page EXCEPT !.status.passed = @ \cup {"finalize"}]
        <5>1. page.status \in Row /\ "finalize" \in recorded
          BY <1>1, <2>5, <3>3, <4>5 DEF PageState
        <5>2. "finalize" \in Passable
          <6>1. DOMAIN Steps = 1 .. 6 /\ Steps[6] = "finalize"
            BY DEF Steps
          <6>2. QED
            BY <6>1 DEF Passable
        <5> DEFINE s == [page.status EXCEPT !.passed = @ \cup {"finalize"}]
        <5>3. s \in Row /\ SeenFits(s, recorded)
          BY <5>1, <5>2 DEF Row, SeenFits
        <5>4. p = [page EXCEPT !.status = s]
          BY <4>5
        <5> HIDE DEF s
        <5>5. QED
          BY <1>1, <1>2, <1>9, <5>3, <5>4
      <4>6. CASE call.op = "associate" /\ p = [page EXCEPT !.associated = TRUE]
        BY <1>1, <1>2, <2>5, <3>3, <4>6 DEF PageState, PageFits
      <4>7. CASE p = [page EXCEPT !.started = TRUE]
        BY <1>1, <1>2, <1>6, <4>7
      <4>8. CASE p = [page EXCEPT !.sent = TRUE] \/ p = [page EXCEPT !.sent = FALSE]
        BY <1>1, <1>2, <1>6, <4>8
      <4>9. CASE \E f \in FormOf : p = [page EXCEPT !.form = f]
        BY <1>1, <1>2, <1>7, <4>9
      <4>10. CASE p = [page EXCEPT !.location = "idle"]
        BY <1>1, <1>2, <1>8, <4>10
      <4>11. QED
        BY <1>1, <1>2, <4>1, <4>2, <4>3, <4>4, <4>5, <4>6, <4>7, <4>8, <4>9, <4>10
    <3>4. QED
      BY <2>5, <2>9, <3>1, <3>2, <3>3
  <2>11. page' \in PageState /\ PageFits(page', recorded)
    <3>1. PICK b \in BOOLEAN : b = (p.busy /\ ~Releases(call, ok))
      BY <2>10
    <3>2. page' = [p EXCEPT !.busy = b]
      BY <2>9, <3>1
    <3>3. QED
      BY <1>6, <2>10, <3>2
  <2>12. QED
    BY <1>1, <1>2, <1>3, <2>4, <2>8, <2>11
<1>23. CASE UNCHANGED registrationPageVars
  BY <1>1, <1>2, <1>3, <1>23 DEF registrationPageVars
<1>24. QED
  BY <1>14, <1>15, <1>16, <1>17, <1>18, <1>19, <1>20, <1>21, <1>22, <1>23
     DEF RegistrationPageNext, RegistrationCallProceeds

-------------------------------------------------------------------------------
(* The contact page. A contact is stored only from a call, so that the calls  *)
(* carry what the server has confirmed; one that the open page still shows    *)
(* was made for the wallet that is connected: ContactCallsFit.                *)

ContactCall == [op : {"send", "verify"}, card : Cards, value : Contacts, by : Owners,
                live : BOOLEAN, verdict : {"sent", "ok", "linked", "unlinked", "refused"}]

\* The server has granted it, or found the number linked.
Granted(call, verdict) == verdict = "linked" \/ (verdict = "ok" /\ call.op = "verify")

ContactCallsFit ==
    \A i \in DOMAIN contactCalls :
        /\ Granted(contactCalls[i], contactCalls[i].verdict) =>
               <<contactCalls[i].by, contactCalls[i].value>> \in confirmed
        /\ contactCalls[i].live => contactCalls[i].by = owner /\ owner # Unset

ContactIInv == ContactTypeOK /\ ContactCallsFit /\ ContactsAreConfirmed

(* No call, and no contact.                                                   *)
LEMMA ContactStarts == ContactInit => ContactIInv
<1> SUFFICES ASSUME ContactInit PROVE ContactIInv
  OBVIOUS
<1>1. NoProfile \in Profile /\ \A c \in Cards : NoProfile[c] = Unset
  BY DEF NoProfile, Profile
<1>2. FreshCard \in [step : {"input", "code"}, pending : Contacts \cup {Unset},
                     waits : SUBSET {"send", "verify"}]
  BY DEF FreshCard
<1>3. ContactTypeOK
  BY <1>1, <1>2 DEF ContactInit, ContactTypeOK
<1>4. DOMAIN contactCalls = {}
  BY DEF ContactInit
<1>5. QED
  BY <1>1, <1>3, <1>4 DEF ContactInit, ContactIInv, ContactCallsFit, ContactsAreConfirmed

(* Every step of the page and the server keeps the invariant.                 *)
LEMMA ContactStepKeeps ==
    ASSUME ContactIInv, [ContactNext(Cards, Owners)]_contactVars
    PROVE  ContactIInv'
<1> DEFINE Card == [step : {"input", "code"}, pending : Contacts \cup {Unset},
                    waits : SUBSET {"send", "verify"}]
<1>1. /\ owner \in Owners \cup {Unset} /\ cards \in [Cards -> Card] /\ shown \in Profile
      /\ stored \in [Owners -> Profile] /\ contactCalls \in Seq(ContactCall)
      /\ challenged \subseteq Contacts /\ confirmed \subseteq Owners \X Contacts
  BY DEF ContactIInv, ContactTypeOK, ContactCall
<1>2. ContactCallsFit /\ ContactsAreConfirmed
  BY DEF ContactIInv
<1>3. ASSUME owner' \in Owners \cup {Unset}, cards' \in [Cards -> Card], shown' \in Profile,
             stored' \in [Owners -> Profile], contactCalls' \in Seq(ContactCall),
             challenged' \subseteq Contacts, confirmed' \subseteq Owners \X Contacts
      PROVE  ContactTypeOK'
  BY <1>3 DEF ContactTypeOK, ContactCall
<1>4. Len(contactCalls) \in Nat /\ DOMAIN contactCalls = 1 .. Len(contactCalls)
      /\ \A i \in DOMAIN contactCalls : contactCalls[i] \in ContactCall
  BY <1>1, ElementOfSeq
<1>5. NoProfile \in Profile /\ FreshCard \in Card /\ \A c \in Cards : NoProfile[c] = Unset
  BY DEF NoProfile, Profile, FreshCard
<1> HIDE DEF Card
<1>6. [c \in Cards |-> FreshCard] \in [Cards -> Card]
  BY <1>5
<1>7. CASE \E w \in Owners : WalletConnects(w)
  <2>1. PICK w \in Owners : WalletConnects(w)
    BY <1>7
  <2>2. /\ owner = Unset /\ owner' = w /\ shown' = stored[w] /\ cards' = [c \in Cards |-> FreshCard]
        /\ UNCHANGED <<stored, contactCalls, challenged, confirmed>>
    BY <2>1 DEF WalletConnects
  <2>3. ContactTypeOK'
    BY <1>1, <1>3, <1>6, <2>2
  <2>4. QED
    BY <1>2, <2>2, <2>3 DEF ContactIInv, ContactCallsFit, ContactsAreConfirmed
<1>8. CASE WalletLeaves
  <2> DEFINE s == [i \in DOMAIN contactCalls |-> [contactCalls[i] EXCEPT !.live = FALSE]]
  <2>1. /\ owner' = Unset /\ shown' = NoProfile /\ cards' = [c \in Cards |-> FreshCard]
        /\ contactCalls' = s /\ UNCHANGED <<stored, challenged, confirmed>>
    BY <1>8 DEF WalletLeaves
  <2>2. ASSUME NEW i \in 1 .. Len(contactCalls)
        PROVE  /\ s[i] \in ContactCall /\ ~s[i].live /\ s[i].op = contactCalls[i].op
               /\ s[i].verdict = contactCalls[i].verdict
               /\ s[i].by = contactCalls[i].by /\ s[i].value = contactCalls[i].value
    BY <1>4 DEF ContactCall
  <2>3. s \in Seq(ContactCall) /\ DOMAIN s = DOMAIN contactCalls
    <3>1. s \in [1 .. Len(contactCalls) -> ContactCall]
      BY <1>4, <2>2
    <3> HIDE DEF s
    <3>2. QED
      BY <1>4, <3>1, SeqDef
  <2> HIDE DEF s
  <2>4. ContactTypeOK'
    BY <1>1, <1>3, <1>5, <1>6, <2>1, <2>3
  <2>5. ContactCallsFit'
    BY <1>2, <1>4, <2>1, <2>2, <2>3 DEF ContactCallsFit, Granted
  <2>6. ContactsAreConfirmed'
    BY <1>2, <1>5, <2>1 DEF ContactsAreConfirmed
  <2>7. QED
    BY <2>4, <2>5, <2>6 DEF ContactIInv
<1>9. CASE ResetsVerification
  <2>1. /\ owner # Unset /\ stored' = [stored EXCEPT ![owner] = NoProfile] /\ shown' = NoProfile
        /\ UNCHANGED <<owner, cards, contactCalls, challenged, confirmed>>
    BY <1>9 DEF ResetsVerification
  <2>2. stored' \in [Owners -> Profile]
        /\ \A w \in Owners : stored'[w] = stored[w] \/ stored'[w] = NoProfile
    BY <1>1, <1>5, <2>1
  <2>3. ContactTypeOK'
    BY <1>1, <1>3, <1>5, <2>1, <2>2
  <2>4. QED
    BY <1>2, <1>5, <2>1, <2>2, <2>3 DEF ContactIInv, ContactCallsFit, ContactsAreConfirmed
\* A call of the page.
<1>10. ASSUME NEW c \in Cards, NEW v \in Contacts, NEW op \in {"send", "verify"}, Asks(op, c, v)
       PROVE  ContactIInv'
  <2> DEFINE e == [op |-> op, card |-> c, value |-> v, by |-> owner, live |-> TRUE, verdict |-> "sent"]
  <2>1. /\ owner # Unset /\ contactCalls' = Append(contactCalls, e)
        /\ cards' = [cards EXCEPT ![c].waits = @ \cup {op}]
        /\ UNCHANGED <<owner, shown, stored, challenged, confirmed>>
    BY <1>10 DEF Asks
  <2>2. /\ e \in ContactCall /\ e.op = op /\ e.by = owner /\ e.verdict = "sent" /\ e.live = TRUE
    BY <1>1, <2>1 DEF ContactCall
  <2> HIDE DEF e
  <2>3. /\ contactCalls' \in Seq(ContactCall) /\ DOMAIN contactCalls' = 1 .. (Len(contactCalls) + 1)
        /\ \A i \in 1 .. Len(contactCalls) : contactCalls'[i] = contactCalls[i]
        /\ contactCalls'[Len(contactCalls) + 1] = e
    BY <1>1, <2>1, <2>2, AppendProperties
  <2>4. cards' \in [Cards -> Card]
    <3>1. [cards[c] EXCEPT !.waits = @ \cup {op}] \in Card
      BY <1>1 DEF Card
    <3>2. QED
      BY <1>1, <2>1, <3>1
  <2>5. ContactTypeOK'
    BY <1>1, <1>3, <2>1, <2>3, <2>4
  <2>6. ContactCallsFit'
    <3> SUFFICES ASSUME NEW i \in DOMAIN contactCalls'
                 PROVE  /\ Granted(contactCalls'[i], contactCalls'[i].verdict) =>
                               <<contactCalls'[i].by, contactCalls'[i].value>> \in confirmed
                        /\ contactCalls'[i].live => contactCalls'[i].by = owner /\ owner # Unset
      BY <2>1 DEF ContactCallsFit, Granted
    <3>1. CASE i \in DOMAIN contactCalls
      BY <1>2, <1>4, <2>3, <3>1 DEF ContactCallsFit
    <3>2. CASE i \notin DOMAIN contactCalls
      <4>1. contactCalls'[i] = e
        BY <1>4, <2>3, <3>2
      <4>2. QED
        BY <2>1, <2>2, <4>1 DEF Granted
    <3>3. QED
      BY <3>1, <3>2
  <2>7. ContactsAreConfirmed'
    BY <1>2, <2>1 DEF ContactsAreConfirmed
  <2>8. QED
    BY <2>5, <2>6, <2>7 DEF ContactIInv
<1>11. CASE \E c \in Cards : VerifiesCode(c)
  <2>1. PICK c \in Cards : VerifiesCode(c)
    BY <1>11
  <2>2. cards[c].pending \in Contacts /\ Asks("verify", c, cards[c].pending)
    BY <1>1, <2>1 DEF VerifiesCode, Card
  <2>3. QED
    BY <1>10, <2>2
<1>12. CASE \E c \in Cards : \E v \in ContactsOf(c) : SendsCode(c, v)
  <2>0. PICK c \in Cards : \E v \in ContactsOf(c) : SendsCode(c, v)
    BY <1>12
  <2>1. PICK v \in ContactsOf(c) : SendsCode(c, v)
    BY <2>0
  <2>2. v \in Contacts /\ Asks("send", c, v)
    BY <2>1 DEF SendsCode, ContactsOf, Contacts
  <2>3. QED
    BY <1>10, <2>2
<1>13. CASE \E c \in Cards : StartsOver(c)
  <2>1. PICK c \in Cards : StartsOver(c)
    BY <1>13
  <2>2. /\ cards' = [cards EXCEPT ![c].step = "input"]
        /\ UNCHANGED <<owner, shown, stored, contactCalls, challenged, confirmed>>
    BY <2>1 DEF StartsOver
  <2>3. [cards[c] EXCEPT !.step = "input"] \in Card
    BY <1>1 DEF Card
  <2>4. ContactTypeOK'
    BY <1>1, <1>3, <2>2, <2>3
  <2>5. QED
    BY <1>2, <2>2, <2>4 DEF ContactIInv, ContactCallsFit, ContactsAreConfirmed
<1>14. CASE \E i \in DOMAIN contactCalls : ContactServed(i)
  <2>1. PICK i \in DOMAIN contactCalls : ContactServed(i)
    BY <1>14
  <2>2. PICK verdict \in {"ok", "linked", "unlinked", "refused"} :
          /\ challenged' = IF verdict \notin {"ok", "unlinked"} THEN challenged
                           ELSE IF contactCalls[i].op = "send" THEN challenged \cup {contactCalls[i].value}
                           ELSE challenged \ {contactCalls[i].value}
          /\ confirmed' = IF Granted(contactCalls[i], verdict)
                          THEN confirmed \cup {<<contactCalls[i].by, contactCalls[i].value>>}
                          ELSE confirmed
          /\ contactCalls' = [contactCalls EXCEPT ![i].verdict = verdict]
          /\ UNCHANGED <<owner, cards, shown, stored>>
    BY <2>1 DEF ContactServed, Granted
  <2>3. contactCalls[i].value \in Contacts /\ contactCalls[i].by \in Owners
    BY <1>4 DEF ContactCall
  <2>4. /\ challenged' \subseteq Contacts /\ confirmed' \subseteq Owners \X Contacts
        /\ confirmed \subseteq confirmed'
    BY <1>1, <2>2, <2>3
  <2> DEFINE e == [contactCalls[i] EXCEPT !.verdict = verdict]
  <2>5. /\ e \in ContactCall /\ e.op = contactCalls[i].op /\ e.by = contactCalls[i].by
        /\ e.value = contactCalls[i].value /\ e.live = contactCalls[i].live /\ e.verdict = verdict
    BY <1>4 DEF ContactCall
  <2>6. contactCalls' = [contactCalls EXCEPT ![i] = e]
    BY <2>2
  <2> HIDE DEF e
  <2>7. /\ contactCalls' \in Seq(ContactCall) /\ DOMAIN contactCalls' = DOMAIN contactCalls
        /\ \A j \in DOMAIN contactCalls : contactCalls'[j] = IF j = i THEN e ELSE contactCalls[j]
    BY <1>1, <1>4, <2>5, <2>6, ExceptSeq
  <2>8. ContactTypeOK'
    BY <1>1, <1>3, <2>2, <2>4, <2>7
  <2>9. ContactCallsFit'
    <3> SUFFICES ASSUME NEW j \in DOMAIN contactCalls
                 PROVE  /\ Granted(contactCalls'[j], contactCalls'[j].verdict) =>
                               <<contactCalls'[j].by, contactCalls'[j].value>> \in confirmed'
                        /\ contactCalls'[j].live => contactCalls'[j].by = owner /\ owner # Unset
      BY <2>2, <2>7 DEF ContactCallsFit, Granted
    <3>1. CASE j = i
      <4>1. contactCalls'[j] = e
        BY <2>7, <3>1
      <4>2. Granted(e, verdict) => <<e.by, e.value>> \in confirmed'
        BY <2>2, <2>5 DEF Granted
      <4>3. e.live => e.by = owner /\ owner # Unset
        BY <1>2, <2>5 DEF ContactCallsFit
      <4>4. QED
        BY <2>5, <4>1, <4>2, <4>3
    <3>2. CASE j # i
      BY <1>2, <2>4, <2>7, <3>2 DEF ContactCallsFit
    <3>3. QED
      BY <3>1, <3>2
  <2>10. ContactsAreConfirmed'
    BY <1>2, <2>2, <2>4 DEF ContactsAreConfirmed
  <2>11. QED
    BY <2>8, <2>9, <2>10 DEF ContactIInv
<1>15. CASE \E i \in DOMAIN contactCalls : ContactAnswered(i)
  <2>1. PICK i \in DOMAIN contactCalls : ContactAnswered(i)
    BY <1>15
  <2> DEFINE call == contactCalls[i]
  <2>2. PICK verdict \in {call.verdict, "refused"} :
          /\ IF Granted(call, verdict) THEN Verified(call) ELSE UNCHANGED <<stored, shown>>
          /\ cards' = IF call.live THEN [cards EXCEPT ![call.card] = CardAfter(call, verdict)] ELSE cards
    BY <2>1 DEF ContactAnswered, Granted
  <2>3. contactCalls' = RemoveAt(contactCalls, i) /\ UNCHANGED <<owner, challenged, confirmed>>
    BY <2>1 DEF ContactAnswered
  <2>4. call \in ContactCall
    BY <1>4
  <2>5. Granted(call, verdict) => <<call.by, call.value>> \in confirmed
    BY <1>2, <2>2 DEF ContactCallsFit, Granted
  <2>6. call.live => call.by = owner
    BY <1>2 DEF ContactCallsFit
  <2>7. CardAfter(call, verdict) \in Card
    <3>1. cards[call.card] \in Card /\ call.value \in Contacts
      BY <1>1, <2>4 DEF ContactCall
    <3>2. [cards[call.card] EXCEPT !.waits = @ \ {call.op}] \in Card
      BY <3>1 DEF Card
    <3> DEFINE card == [cards[call.card] EXCEPT !.waits = @ \ {call.op}]
    <3>3. /\ [card EXCEPT !.step = "code", !.pending = call.value] \in Card
          /\ [card EXCEPT !.step = "input", !.pending = Unset] \in Card
          /\ [card EXCEPT !.step = "input"] \in Card
      <4> HIDE DEF card
      <4>1. card \in Card
        BY <3>2 DEF card
      <4>2. QED
        BY <3>1, <4>1 DEF Card
    <3>4. CardAfter(call, verdict) \in
            {card, [card EXCEPT !.step = "code", !.pending = call.value],
             [card EXCEPT !.step = "input", !.pending = Unset], [card EXCEPT !.step = "input"]}
      BY DEF CardAfter
    <3>5. QED
      BY <3>2, <3>3, <3>4
  <2>8. cards' \in [Cards -> Card]
    BY <1>1, <2>2, <2>4, <2>7 DEF ContactCall
  <2>9. /\ contactCalls' \in Seq(ContactCall) /\ Len(contactCalls') = Len(contactCalls) - 1
        /\ \A j \in 1 .. (Len(contactCalls) - 1) :
              contactCalls'[j] = IF j < i THEN contactCalls[j] ELSE contactCalls[j + 1]
    BY <1>1, <2>3, RemovedAt
  <2>10. ASSUME NEW j \in DOMAIN contactCalls'
         PROVE  \E k \in DOMAIN contactCalls : contactCalls'[j] = contactCalls[k]
    <3>1. j \in 1 .. (Len(contactCalls) - 1) /\ j \in DOMAIN contactCalls /\ j + 1 \in DOMAIN contactCalls
      BY <1>4, <2>9
    <3>2. QED
      BY <2>9, <3>1
  <2>11. ContactCallsFit'
    BY <1>2, <2>3, <2>10 DEF ContactCallsFit, Granted
  <2>12. /\ shown' \in Profile /\ stored' \in [Owners -> Profile] /\ ContactsAreConfirmed'
    <3>1. CASE Granted(call, verdict)
      <4>1. call.card \in Cards /\ call.value \in Contacts /\ call.by \in Owners
        BY <2>4 DEF ContactCall
      <4>2. stored' = [stored EXCEPT ![call.by] = [stored[call.by] EXCEPT ![call.card] = call.value]]
        BY <2>2, <3>1 DEF Verified
      <4>3. shown' = IF call.live THEN [shown EXCEPT ![call.card] = call.value] ELSE shown
        BY <2>2, <3>1 DEF Verified
      <4> HIDE DEF call
      <4>4. [stored[call.by] EXCEPT ![call.card] = call.value] \in Profile
        BY <1>1, <4>1 DEF Profile
      <4>5. stored' \in [Owners -> Profile]
        BY <1>1, <4>2, <4>4
      <4>6. shown' \in Profile
        BY <1>1, <4>1, <4>3 DEF Profile
      <4>7. ASSUME NEW w \in Owners, NEW c \in Cards, stored'[w][c] # Unset
            PROVE  <<w, stored'[w][c]>> \in confirmed
        <5>1. stored'[w][c] = IF w = call.by /\ c = call.card THEN call.value ELSE stored[w][c]
          BY <1>1, <4>1, <4>2 DEF Profile
        <5>2. QED
          BY <1>2, <2>5, <3>1, <4>7, <5>1 DEF ContactsAreConfirmed
      <4>8. ASSUME NEW c \in Cards, shown'[c] # Unset
            PROVE  <<owner, shown'[c]>> \in confirmed
        <5>1. shown'[c] = IF call.live /\ c = call.card THEN call.value ELSE shown[c]
          BY <1>1, <4>1, <4>3 DEF Profile
        <5>2. QED
          BY <1>2, <2>5, <2>6, <3>1, <4>8, <5>1 DEF ContactsAreConfirmed
      <4>9. QED
        BY <2>3, <4>5, <4>6, <4>7, <4>8 DEF ContactsAreConfirmed
    <3>2. CASE ~Granted(call, verdict)
      <4>1. UNCHANGED <<stored, shown>>
        BY <2>2, <3>2
      <4>2. QED
        BY <1>1, <1>2, <2>3, <4>1 DEF ContactsAreConfirmed
    <3>3. QED
      BY <3>1, <3>2
  <2>13. ContactTypeOK'
    BY <1>1, <1>3, <2>3, <2>8, <2>9, <2>12
  <2>14. QED
    BY <2>11, <2>12, <2>13 DEF ContactIInv
<1>16. CASE UNCHANGED contactVars
  BY <1>16 DEF ContactIInv, contactVars, ContactTypeOK, ContactCallsFit, ContactsAreConfirmed, Granted
<1>17. QED
  BY <1>7, <1>8, <1>9, <1>11, <1>12, <1>13, <1>14, <1>15, <1>16 DEF ContactNext, ContactCallProceeds

-------------------------------------------------------------------------------
(* The registry pages. What the manager tracks was begun by the connection of *)
(* now, and an open page follows only what it tracks: TracksOwnJoins,          *)
(* PagesFollowTracked. Without a connected wallet nothing is tracked and no    *)
(* page is open.                                                              *)

LinkState == [state : {"detecting", "no-wallet", "ready", "connecting", "answered", "connected"},
              account : Maybe(Accounts), polls : 0..(MaxPolls - 1)]

ManagerState == [connection : Maybe(Accounts), providers : Maybe(Accounts), tracked : Seq(1..MaxJoins)]

LedgerState == [open : BOOLEAN, due : BOOLEAN, follows : 0..MaxJoins, api : Maybe(Accounts)]

ReviewState == [open : BOOLEAN, step : {"review", "submitting", "submitted"},
                follows : 0..MaxJoins, by : Maybe(Accounts), onChain : BOOLEAN]

RegistryTyped ==
    /\ link \in LinkState /\ manager \in ManagerState
    /\ joins \in Seq(Join) /\ Len(joins) <= MaxJoins
    /\ ledger \in LedgerState /\ review \in ReviewState

Tracked(i) == \E n \in DOMAIN manager.tracked : manager.tracked[n] = i

TracksOwnJoins ==
    /\ manager.providers \in {Nobody, manager.connection}
    /\ \A i : Tracked(i) => i \in DOMAIN joins /\ joins[i].by = manager.connection

PagesFollowTracked ==
    /\ link.state = "connected" => link.account = manager.connection
    /\ link.state # "connected" =>
           manager.tracked = << >> /\ ledger = ClosedLedger /\ ~review.open
    /\ ledger.follows # 0 => Tracked(ledger.follows)
    /\ review.open /\ review.follows # 0 => Tracked(review.follows)

RegistryIInv == RegistryTyped /\ TracksOwnJoins /\ PagesFollowTracked /\ PagesActForTheConnected

(* The invariant gives the types.                                             *)
LEMMA RegistryIInvTypes == RegistryIInv => RegistryTypeOK
<1> SUFFICES ASSUME RegistryIInv PROVE RegistryTypeOK
  OBVIOUS
<1>1. /\ manager \in ManagerState /\ joins \in Seq(Join) /\ Len(joins) <= MaxJoins
      /\ link \in LinkState /\ ledger \in LedgerState /\ review \in ReviewState
  BY DEF RegistryIInv, RegistryTyped
<1>2. manager.tracked \in Seq(1..MaxJoins)
      /\ manager.connection \in Maybe(Accounts) /\ manager.providers \in Maybe(Accounts)
  BY <1>1 DEF ManagerState
<1>3. \A i \in DOMAIN manager.tracked : manager.tracked[i] \in 1..MaxJoins
  <2> DEFINE S == 1..MaxJoins
             s == manager.tracked
  <2>1. s \in Seq(S)
    BY <1>2
  <2> HIDE DEF S, s
  <2>2. \A i \in DOMAIN s : s[i] \in S
    BY <2>1, ElementOfSeq
  <2>3. QED
    BY <2>2 DEF S, s
<1>4. \A i \in DOMAIN joins : joins[i] \in Join
  BY <1>1, ElementOfSeq
<1>5. QED
  BY <1>1, <1>2, <1>3, <1>4 DEF RegistryTypeOK, LinkState, LedgerState, ReviewState

(* Nothing is connected, begun or open.                                       *)
LEMMA RegistryStarts == RegistryInit => RegistryIInv
<1> SUFFICES ASSUME RegistryInit PROVE RegistryIInv
  OBVIOUS
<1>1. Nobody \in Maybe(Accounts) /\ 0 \in 0..(MaxPolls - 1) /\ 0 \in 0..MaxJoins
  BY RegistryPagesAssumption DEF Maybe
<1>2. link \in LinkState /\ link.state = "detecting"
  BY <1>1 DEF RegistryInit, LinkState
<1>3. /\ manager \in ManagerState /\ manager.tracked = << >>
      /\ manager.providers = Nobody /\ manager.connection = Nobody
  <2>1. << >> \in Seq(1..MaxJoins)
    OBVIOUS
  <2>2. QED
    BY <1>1, <2>1 DEF RegistryInit, ManagerState
<1>4. ledger \in LedgerState /\ ledger = ClosedLedger /\ ledger.follows = 0 /\ ledger.api = Nobody
  BY <1>1 DEF RegistryInit, ClosedLedger, LedgerState
<1>5. /\ review \in ReviewState /\ ~review.open /\ review.follows = 0 /\ review.by = Nobody
      /\ review.step = "review"
  BY <1>1 DEF RegistryInit, ClosedReview, ReviewState
<1>6. joins \in Seq(Join) /\ Len(joins) <= MaxJoins
  BY RegistryPagesAssumption DEF RegistryInit
<1>7. \A i : ~Tracked(i)
  BY <1>3 DEF Tracked
<1>8. QED
  BY <1>2, <1>3, <1>4, <1>5, <1>6, <1>7 DEF RegistryIInv, RegistryTyped, TracksOwnJoins,
     PagesFollowTracked, PagesActForTheConnected

(* What resolve() hands out is tracked afterwards, and was begun by the        *)
(* connection of now; what was tracked still is.                              *)
LEMMA ResolvesTracked ==
    ASSUME RegistryIInv, NEW i, Resolves(i)
    PROVE  /\ manager' \in ManagerState /\ joins' \in Seq(Join) /\ Len(joins') <= MaxJoins
           /\ manager'.connection = manager.connection
           /\ TracksOwnJoins'
           /\ Tracked(i)' /\ i \in 1 .. MaxJoins
           /\ \A j : Tracked(j) => Tracked(j)'
           /\ joins'[i].status = "deployed" =>
                  joins[i].by \in Maybe(Accounts) /\ joins[i].by = manager.connection
<1>1. /\ manager \in ManagerState /\ joins \in Seq(Join) /\ Len(joins) <= MaxJoins
      /\ TracksOwnJoins /\ Len(joins) \in Nat /\ DOMAIN joins = 1 .. Len(joins)
  BY DEF RegistryIInv, RegistryTyped
<1>2. /\ manager.tracked \in Seq(1..MaxJoins) /\ Len(manager.tracked) \in Nat
      /\ DOMAIN manager.tracked = 1 .. Len(manager.tracked)
      /\ manager.connection \in Maybe(Accounts)
  BY <1>1 DEF ManagerState
<1>3. CASE Deployed # {}
  <2>1. i = manager.tracked[Min(Deployed)] /\ UNCHANGED <<manager, joins>>
    BY <1>3 DEF Resolves
  <2>2. Deployed \in SUBSET Nat
    BY <1>2 DEF Deployed
  <2>3. Min(Deployed) \in Deployed
    BY <1>3, <2>2, LeastOf
  <2>4. Min(Deployed) \in DOMAIN manager.tracked
    BY <2>3 DEF Deployed
  <2>5. Tracked(i) /\ i \in 1 .. MaxJoins
    BY <1>2, <2>1, <2>4, ElementOfSeq DEF Tracked
  <2>6. i \in DOMAIN joins /\ joins[i].by = manager.connection
    BY <1>1, <2>5 DEF TracksOwnJoins
  <2>7. Tracked(i)' /\ (\A j : Tracked(j) => Tracked(j)') /\ TracksOwnJoins'
    BY <1>1, <2>1, <2>5 DEF Tracked, TracksOwnJoins
  <2>8. QED
    BY <1>1, <1>2, <2>1, <2>5, <2>6, <2>7
<1>4. CASE Deployed = {}
  <2> DEFINE e == [by |-> Provided, status |-> "in-progress"]
             s == Append(manager.tracked, i)
  <2>1. /\ Len(joins) < MaxJoins /\ i = Len(joins) + 1
        /\ joins' = Append(joins, e)
        /\ manager' = [manager EXCEPT !.providers = Provided, !.tracked = s]
    BY <1>4 DEF Resolves
  <2>2. Provided = manager.connection
    BY <1>1 DEF Provided, TracksOwnJoins
  <2>3. e \in Join /\ e.by = manager.connection /\ e.status = "in-progress"
    BY <1>2, <2>2 DEF Join
  <2> HIDE DEF e
  <2>4. i \in 1 .. MaxJoins
    BY <1>1, <2>1, RegistryPagesAssumption
  <2>5. /\ s \in Seq(1..MaxJoins) /\ DOMAIN s = 1 .. (Len(manager.tracked) + 1)
        /\ (\A n \in 1 .. Len(manager.tracked) : s[n] = manager.tracked[n])
        /\ s[Len(manager.tracked) + 1] = i
    BY <1>2, <2>4, AppendProperties
  <2> HIDE DEF s
  <2>6. /\ joins' \in Seq(Join) /\ Len(joins') = Len(joins) + 1
        /\ DOMAIN joins' = 1 .. (Len(joins) + 1)
        /\ (\A n \in 1 .. Len(joins) : joins'[n] = joins[n])
        /\ joins'[Len(joins) + 1] = e
    BY <1>1, <2>1, <2>3, AppendProperties
  <2>7. /\ manager' \in ManagerState /\ manager'.connection = manager.connection
        /\ manager'.providers = manager.connection /\ manager'.tracked = s
    BY <1>1, <1>2, <2>1, <2>2, <2>5 DEF ManagerState
  <2>8. Tracked(i)' /\ \A j : Tracked(j) => Tracked(j)'
    <3>1. Len(manager.tracked) + 1 \in DOMAIN s
      BY <1>2, <2>5
    <3>2. \A n \in DOMAIN manager.tracked : n \in DOMAIN s
      BY <1>2, <2>5
    <3>3. QED
      BY <1>2, <2>5, <2>7, <3>1, <3>2 DEF Tracked
  <2>9. \A j : Tracked(j)' => j = i \/ Tracked(j)
    <3> SUFFICES ASSUME NEW j, Tracked(j)' PROVE j = i \/ Tracked(j)
      OBVIOUS
    <3>1. PICK n \in DOMAIN s : s[n] = j
      BY <2>7 DEF Tracked
    <3>2. n \in 1 .. Len(manager.tracked) \/ n = Len(manager.tracked) + 1
      BY <1>2, <2>5
    <3>3. QED
      BY <1>2, <2>5, <3>1, <3>2 DEF Tracked
  <2>10. TracksOwnJoins'
    <3> SUFFICES ASSUME NEW j, Tracked(j)' PROVE j \in DOMAIN joins' /\ joins'[j].by = manager.connection
      BY <2>7 DEF TracksOwnJoins
    <3>1. CASE j = i
      BY <1>1, <2>1, <2>3, <2>6, <3>1
    <3>2. CASE Tracked(j)
      <4>1. j \in 1 .. Len(joins) /\ joins[j].by = manager.connection
        BY <1>1, <3>2 DEF TracksOwnJoins
      <4>2. QED
        BY <1>1, <2>6, <4>1
    <3>3. QED
      BY <2>9, <3>1, <3>2
  <2>11. Len(joins') <= MaxJoins /\ joins'[i].status = "in-progress"
    BY <1>1, <2>1, <2>3, <2>6, RegistryPagesAssumption
  <2>12. QED
    BY <2>4, <2>6, <2>7, <2>8, <2>10, <2>11
<1>5. QED
  BY <1>3, <1>4

(* Every step of the wallet, the manager and the pages keeps the invariant.   *)
LEMMA RegistryStepKeeps ==
    ASSUME RegistryIInv, [RegistryNext]_registryVars
    PROVE  RegistryIInv'
<1>1. /\ link \in LinkState /\ manager \in ManagerState
      /\ joins \in Seq(Join) /\ Len(joins) <= MaxJoins /\ ledger \in LedgerState /\ review \in ReviewState
      /\ TracksOwnJoins /\ PagesFollowTracked /\ PagesActForTheConnected
  BY DEF RegistryIInv, RegistryTyped
<1>2. Len(joins) \in Nat /\ DOMAIN joins = 1 .. Len(joins) /\ \A i \in DOMAIN joins : joins[i] \in Join
  BY <1>1, ElementOfSeq
<1>3. ClosedLedger \in LedgerState /\ ClosedReview \in ReviewState /\ Nobody \in Maybe(Accounts)
      /\ ClosedLedger.follows = 0 /\ ClosedLedger.api = Nobody /\ ~ClosedLedger.open /\ ~ClosedLedger.due
      /\ ~ClosedReview.open /\ ClosedReview.follows = 0 /\ ClosedReview.by = Nobody
      /\ ClosedReview.step = "review"
  BY RegistryPagesAssumption DEF ClosedLedger, ClosedReview, LedgerState, ReviewState, Maybe
<1>4. 0 \in 0..(MaxPolls - 1) /\ 0 \in 0..MaxJoins
  BY RegistryPagesAssumption
\* The wallet alone, before it is connected.
<1>5. ASSUME link' \in LinkState, link.state # "connected", link'.state # "connected",
             UNCHANGED <<manager, joins, ledger, review>>
      PROVE  RegistryIInv'
  BY <1>1, <1>3, <1>5 DEF RegistryIInv, RegistryTyped, TracksOwnJoins, Tracked, PagesFollowTracked,
     PagesActForTheConnected
<1>6. CASE \/ WalletFound \/ NoWalletFound \/ Redetect \/ ConnectPressed \/ ConnectFails
  <2>1. UNCHANGED <<manager, joins, ledger, review>> /\ link.state # "connected"
    BY <1>6 DEF WalletFound, NoWalletFound, Redetect, ConnectPressed, ConnectFails
  <2>2. link' \in LinkState /\ link'.state # "connected"
    <3>1. CASE WalletFound \/ Redetect \/ ConnectPressed \/ ConnectFails
      BY <1>1, <1>4, <3>1 DEF WalletFound, Redetect, ConnectPressed, ConnectFails, LinkState
    <3>2. CASE NoWalletFound
      <4>1. CASE LooksAgain(link.polls + 1)
        <5>1. link.polls + 1 \in 0..(MaxPolls - 1)
          BY <1>1, <4>1, RegistryPagesAssumption DEF LooksAgain, LinkState
        <5>2. link' = [link EXCEPT !.polls = @ + 1] /\ link.state = "detecting"
          BY <3>2, <4>1 DEF NoWalletFound
        <5>3. QED
          BY <1>1, <5>1, <5>2 DEF LinkState
      <4>2. CASE ~LooksAgain(link.polls + 1)
        BY <1>1, <3>2, <4>2 DEF NoWalletFound, LinkState
      <4>3. QED
        BY <4>1, <4>2
    <3>3. QED
      BY <1>6, <3>1, <3>2
  <2>3. QED
    BY <1>5, <2>1, <2>2
<1>7. CASE \E a \in Accounts : WalletAnswers(a)
  <2>1. PICK a \in Accounts : WalletAnswers(a)
    BY <1>7
  <2>2. /\ link.state = "connecting" /\ link' = [link EXCEPT !.state = "answered"]
        /\ manager' = [manager EXCEPT !.connection = a, !.providers = Nobody]
        /\ UNCHANGED <<joins, ledger, review>>
    BY <2>1 DEF WalletAnswers
  <2>3. link' \in LinkState /\ link'.state = "answered"
    BY <1>1, <2>2 DEF LinkState
  <2>4. /\ manager' \in ManagerState /\ manager'.connection = a /\ manager'.providers = Nobody
        /\ manager'.tracked = manager.tracked
    BY <1>1, <2>2 DEF ManagerState, Maybe
  <2>5. manager.tracked = << >> /\ ledger = ClosedLedger /\ ~review.open
    BY <1>1, <2>2 DEF PagesFollowTracked
  <2>6. \A i : ~Tracked(i)'
    BY <2>4, <2>5 DEF Tracked
  <2>7. QED
    BY <1>1, <1>3, <2>2, <2>3, <2>4, <2>5, <2>6 DEF RegistryIInv, RegistryTyped, TracksOwnJoins,
       PagesFollowTracked, PagesActForTheConnected
<1>8. CASE AddressKnown
  <2>1. /\ link.state = "answered"
        /\ link' = [link EXCEPT !.state = "connected", !.account = manager.connection]
        /\ UNCHANGED <<manager, joins, ledger, review>>
    BY <1>8 DEF AddressKnown
  <2>2. link' \in LinkState /\ link'.state = "connected" /\ link'.account = manager.connection
    BY <1>1, <2>1 DEF LinkState, ManagerState
  <2>3. manager.tracked = << >> /\ ledger = ClosedLedger /\ ~review.open
    BY <1>1, <2>1 DEF PagesFollowTracked
  <2>4. QED
    BY <1>1, <1>3, <2>1, <2>2, <2>3 DEF RegistryIInv, RegistryTyped, TracksOwnJoins, Tracked,
       PagesFollowTracked, PagesActForTheConnected
<1>9. CASE Disconnect
  <2>1. /\ link' = [link EXCEPT !.state = "ready", !.account = Nobody]
        /\ manager' = [connection |-> Nobody, providers |-> Nobody, tracked |-> << >>]
        /\ ledger' = ClosedLedger /\ review' = [review EXCEPT !.open = FALSE] /\ UNCHANGED joins
    BY <1>9 DEF Disconnect
  <2>2. link' \in LinkState /\ link'.state = "ready"
    BY <1>1, <1>3, <2>1 DEF LinkState
  <2>3. manager' \in ManagerState /\ manager'.tracked = << >>
        /\ manager'.providers = manager'.connection
    <3>1. << >> \in Seq(1..MaxJoins)
      OBVIOUS
    <3>2. QED
      BY <1>3, <2>1, <3>1 DEF ManagerState
  <2>4. /\ review' \in ReviewState /\ ~review'.open /\ review'.step = review.step
        /\ review'.onChain = review.onChain
    BY <1>1, <2>1 DEF ReviewState
  <2>5. \A i : ~Tracked(i)'
    BY <2>3 DEF Tracked
  <2>6. QED
    BY <1>1, <1>3, <2>1, <2>2, <2>3, <2>4, <2>5 DEF RegistryIInv, RegistryTyped, TracksOwnJoins,
       PagesFollowTracked, PagesActForTheConnected
\* A page alone.
<1>10. ASSUME ledger' \in LedgerState, review' \in ReviewState, UNCHANGED <<link, manager, joins>>,
              link.state # "connected" => ledger' = ClosedLedger /\ ~review'.open,
              ledger'.follows # 0 => Tracked(ledger'.follows),
              review'.open /\ review'.follows # 0 => Tracked(review'.follows),
              ledger'.api # Nobody => link.state = "connected" /\ ledger'.api = link.account,
              review'.open /\ review'.by # Nobody => review'.by = link.account,
              review'.step = "submitted" => review'.onChain
       PROVE  RegistryIInv'
  <2>1. \A i : Tracked(i)' <=> Tracked(i)
    BY <1>10 DEF Tracked
  <2>2. TracksOwnJoins' /\ PagesFollowTracked'
    BY <1>1, <1>10, <2>1 DEF TracksOwnJoins, PagesFollowTracked
  <2>3. QED
    BY <1>1, <1>10, <2>2 DEF RegistryIInv, RegistryTyped, PagesActForTheConnected
<1>11. /\ link.state # "connected" => ledger = ClosedLedger /\ ~review.open
       /\ ledger.follows # 0 => Tracked(ledger.follows)
       /\ review.open /\ review.follows # 0 => Tracked(review.follows)
       /\ ledger.api # Nobody => link.state = "connected" /\ ledger.api = link.account
       /\ review.open /\ review.by # Nobody => review.by = link.account
       /\ review.step = "submitted" => review.onChain
  BY <1>1 DEF PagesFollowTracked, PagesActForTheConnected
<1>12. CASE LedgerOpens \/ LedgerCloses
  <2>1. UNCHANGED <<link, manager, joins, review>>
    BY <1>12 DEF LedgerOpens, LedgerCloses
  <2>2. CASE LedgerOpens
    <3>1. link.state = "connected" /\ ledger' = [ClosedLedger EXCEPT !.open = TRUE, !.due = TRUE]
      BY <2>2 DEF LedgerOpens
    <3>2. ledger' \in LedgerState /\ ledger'.follows = 0 /\ ledger'.api = Nobody
      BY <1>3, <3>1 DEF LedgerState
    <3>3. QED
      BY <1>1, <1>10, <1>11, <2>1, <3>1, <3>2
  <2>3. CASE LedgerCloses
    BY <1>1, <1>3, <1>10, <1>11, <2>1, <2>3 DEF LedgerCloses
  <2>4. QED
    BY <1>12, <2>2, <2>3
<1>13. CASE LedgerEffect
  <2>1. PICK i \in 1..MaxJoins :
          /\ Resolves(i)
          /\ ledger' = [ledger EXCEPT !.follows = i, !.due = joins' # joins,
                            !.api = IF joins'[i].status = "deployed" THEN joins[i].by ELSE @]
    BY <1>13 DEF LedgerEffect
  <2>2. UNCHANGED <<link, review>> /\ ledger.due
    BY <1>13 DEF LedgerEffect
  <2>3. link.state = "connected"
    BY <1>3, <1>11, <2>2
  <2>4. /\ manager' \in ManagerState /\ joins' \in Seq(Join) /\ Len(joins') <= MaxJoins
        /\ manager'.connection = manager.connection
        /\ TracksOwnJoins'
        /\ Tracked(i)' /\ (\A j : Tracked(j) => Tracked(j)')
        /\ joins'[i].status = "deployed" =>
               joins[i].by \in Maybe(Accounts) /\ joins[i].by = manager.connection
    BY <2>1, ResolvesTracked
  <2>5. PICK api : api = IF joins'[i].status = "deployed" THEN joins[i].by ELSE ledger.api
    OBVIOUS
  <2>6. api \in Maybe(Accounts) /\ (api # Nobody => api = link.account)
    BY <1>1, <1>11, <2>3, <2>4, <2>5 DEF LedgerState, PagesFollowTracked
  <2>7. PICK due \in BOOLEAN : due = (joins' # joins)
    OBVIOUS
  <2>8. ledger' = [ledger EXCEPT !.follows = i, !.due = due, !.api = api]
    BY <1>1, <2>1, <2>5, <2>7 DEF LedgerState
  <2>9. ledger' \in LedgerState /\ ledger'.follows = i /\ ledger'.api = api
    <3>1. i \in 0..MaxJoins
      BY RegistryPagesAssumption
    <3>2. QED
      BY <1>1, <2>6, <2>8, <3>1 DEF LedgerState
  <2>10. RegistryTyped'
    BY <1>1, <2>2, <2>4, <2>9 DEF RegistryTyped
  <2>11. PagesFollowTracked'
    BY <1>1, <2>2, <2>3, <2>4, <2>9 DEF PagesFollowTracked
  <2>12. PagesActForTheConnected'
    BY <1>11, <2>2, <2>3, <2>6, <2>9 DEF PagesActForTheConnected
  <2>13. QED
    BY <2>4, <2>10, <2>11, <2>12 DEF RegistryIInv
<1>14. CASE ReviewOpens \/ ReviewLeft
  <2>1. UNCHANGED <<link, manager, joins, ledger>>
    BY <1>14 DEF ReviewOpens, ReviewLeft
  <2>2. CASE ReviewOpens
    <3>1. link.state = "connected" /\ review' = [ClosedReview EXCEPT !.open = TRUE]
      BY <2>2 DEF ReviewOpens
    <3>2. /\ review' \in ReviewState /\ review'.follows = 0 /\ review'.by = Nobody
          /\ review'.step = "review"
      BY <1>3, <3>1 DEF ReviewState
    <3>3. QED
      BY <1>1, <1>10, <1>11, <2>1, <3>1, <3>2
  <2>3. CASE ReviewLeft
    <3>1. /\ review' \in ReviewState /\ ~review'.open /\ review'.step = review.step
          /\ review'.onChain = review.onChain
      BY <1>1, <2>3 DEF ReviewLeft, ReviewState
    <3>2. QED
      BY <1>1, <1>10, <1>11, <2>1, <3>1
  <2>4. QED
    BY <1>14, <2>2, <2>3
<1>15. CASE SubmitPressed
  <2>1. PICK i \in 1..MaxJoins :
          /\ Resolves(i)
          /\ review' = [review EXCEPT !.step = "submitting", !.follows = i]
          /\ ledger' = IF joins' = joins THEN ledger ELSE Rendered(ledger, i)
    BY <1>15 DEF SubmitPressed
  <2>2. UNCHANGED link /\ review.open
    BY <1>15 DEF SubmitPressed
  <2>3. link.state = "connected"
    BY <1>11, <2>2
  <2>4. /\ manager' \in ManagerState /\ joins' \in Seq(Join) /\ Len(joins') <= MaxJoins
        /\ manager'.connection = manager.connection
        /\ TracksOwnJoins'
        /\ Tracked(i)' /\ (\A j : Tracked(j) => Tracked(j)')
    BY <2>1, ResolvesTracked
  <2>5. /\ review' \in ReviewState /\ review'.open = review.open /\ review'.by = review.by
        /\ review'.follows = i /\ review'.step = "submitting"
    <3>1. i \in 0..MaxJoins
      BY RegistryPagesAssumption
    <3>2. QED
      BY <1>1, <2>1, <3>1 DEF ReviewState
  <2>6. /\ ledger' \in LedgerState /\ ledger'.follows = ledger.follows /\ ledger'.api = ledger.api
    <3>1. ledger' = ledger \/ ledger' = [ledger EXCEPT !.due = TRUE]
      BY <2>1 DEF Rendered
    <3>2. QED
      BY <1>1, <3>1 DEF LedgerState
  <2>7. RegistryTyped'
    BY <1>1, <2>2, <2>4, <2>5, <2>6 DEF RegistryTyped
  <2>8. PagesFollowTracked'
    BY <1>1, <1>11, <2>2, <2>3, <2>4, <2>5, <2>6 DEF PagesFollowTracked
  <2>9. PagesActForTheConnected'
    BY <1>11, <2>2, <2>5, <2>6 DEF PagesActForTheConnected
  <2>10. QED
    BY <2>4, <2>7, <2>8, <2>9 DEF RegistryIInv
<1>16. CASE Recorded \/ SubmissionReturns \/ SubmissionFails
  <2>1. UNCHANGED <<link, manager, joins, ledger>>
    BY <1>16 DEF Recorded, SubmissionReturns, SubmissionFails
  <2>2. /\ review' \in ReviewState /\ review'.open = review.open
        /\ review'.follows \in {0, review.follows} /\ review'.by \in {Nobody, review.by}
        /\ (review'.step = "submitted" => review'.onChain)
    BY <1>1, <1>3, <1>4, <1>11, <1>16 DEF Recorded, SubmissionReturns, SubmissionFails, ReviewState
  <2>3. QED
    BY <1>1, <1>10, <1>11, <2>1, <2>2
<1>17. CASE \E i \in 1..Len(joins), status \in {"deployed", "failed"} : JoinSettles(i, status)
  <2>1. PICK i \in 1..Len(joins), status \in {"deployed", "failed"} : JoinSettles(i, status)
    BY <1>17
  <2> DEFINE e == [joins[i] EXCEPT !.status = status]
  <2>2. joins' = [joins EXCEPT ![i] = e] /\ UNCHANGED <<link, manager>>
    BY <2>1 DEF JoinSettles
  <2>3. e \in Join /\ e.by = joins[i].by
    BY <1>2, <2>1 DEF Join
  <2> HIDE DEF e
  <2>4. /\ joins' \in Seq(Join) /\ Len(joins') = Len(joins)
        /\ \A j \in 1 .. Len(joins) : joins'[j] = IF j = i THEN e ELSE joins[j]
    BY <1>1, <2>1, <2>2, <2>3, ExceptSeq
  <2>5. \A j : Tracked(j)' <=> Tracked(j)
    BY <2>2 DEF Tracked
  <2>6. TracksOwnJoins'
    BY <1>1, <1>2, <2>2, <2>3, <2>4, <2>5 DEF TracksOwnJoins
  <2>7. Tracked(i) => joins[i].by = manager.connection
    BY <1>1 DEF TracksOwnJoins
  <2>8. joins[i].by \in Maybe(Accounts) /\ i # 0
    BY <1>2, <2>1 DEF Join
  <2>9. /\ ledger' \in LedgerState /\ ledger'.follows = ledger.follows /\ ledger'.open = ledger.open
        /\ (~ledger.open => ledger'.due = ledger.due)
        /\ \/ ledger'.api = ledger.api
           \/ ledger.follows = i /\ ledger'.api = joins[i].by
    <3>1. PICK l : /\ l = IF ledger.follows = i /\ status = "deployed"
                          THEN [ledger EXCEPT !.api = joins[i].by] ELSE ledger
                   /\ ledger' = Rendered(l, i)
      BY <2>1 DEF JoinSettles
    <3>2. /\ l \in LedgerState /\ l.follows = ledger.follows /\ l.open = ledger.open /\ l.due = ledger.due
          /\ \/ l.api = ledger.api
             \/ ledger.follows = i /\ l.api = joins[i].by
      BY <1>1, <2>8, <3>1 DEF LedgerState
    <3>3. ledger' = l \/ (l.open /\ ledger' = [l EXCEPT !.due = TRUE])
      BY <3>1 DEF Rendered
    <3>4. QED
      BY <3>2, <3>3 DEF LedgerState
  <2>10. /\ review' \in ReviewState /\ review'.open = review.open
         /\ review'.follows \in {0, review.follows}
         /\ \/ review'.by = review.by
            \/ review.follows = i /\ review'.by = joins[i].by
         /\ (review'.step = "submitted" => review'.onChain)
    <3>1. \/ review' = review
          \/ /\ review.step = "submitting" /\ review.follows = i
             /\ review' = [review EXCEPT !.by = joins[i].by]
          \/ review' = [review EXCEPT !.step = "review", !.follows = 0]
      BY <2>1 DEF JoinSettles
    <3>2. QED
      BY <1>1, <1>4, <1>11, <2>8, <3>1 DEF ReviewState
  <2>11. RegistryTyped'
    BY <1>1, <2>2, <2>4, <2>9, <2>10 DEF RegistryTyped
  <2>12. link.state = "connected" => link.account = manager.connection
    BY <1>1 DEF PagesFollowTracked
  <2>13. ledger.follows = i => link.state = "connected" /\ joins[i].by = link.account
    BY <1>3, <1>11, <2>7, <2>8, <2>12
  <2>14. review.open /\ review.follows = i => joins[i].by = link.account
    BY <1>11, <2>7, <2>8, <2>12
  <2>15. link.state # "connected" => ledger' = ClosedLedger
    <3> SUFFICES ASSUME link.state # "connected" PROVE ledger' = ledger
      BY <1>11
    <3>1. ledger = ClosedLedger /\ ledger.follows # i /\ ~ledger.open
      BY <1>3, <1>11, <2>8
    <3>2. ledger' = Rendered(ledger, i)
      BY <2>1, <3>1 DEF JoinSettles
    <3>3. QED
      BY <3>1, <3>2 DEF Rendered
  <2>16. PagesFollowTracked'
    BY <1>1, <1>11, <2>2, <2>5, <2>9, <2>10, <2>15 DEF PagesFollowTracked
  <2>17. PagesActForTheConnected'
    BY <1>11, <2>2, <2>9, <2>10, <2>13, <2>14 DEF PagesActForTheConnected
  <2>18. QED
    BY <2>6, <2>11, <2>16, <2>17 DEF RegistryIInv
<1>18. CASE UNCHANGED registryVars
  BY <1>18 DEF registryVars, RegistryIInv, RegistryTyped, TracksOwnJoins, Tracked, PagesFollowTracked,
     PagesActForTheConnected
<1>19. QED
  BY <1>6, <1>7, <1>8, <1>9, <1>12, <1>13, <1>14, <1>15, <1>16, <1>17, <1>18 DEF RegistryNext

-------------------------------------------------------------------------------
(* The deployer's scripts. FilesSurviveRuns compares the files with what was   *)
(* made and deployed. A rewrite keeps a seed because the file that is not      *)
(* there is one of no wallets, and because no wallet in it is newer than made; *)
(* a record is of a contract because the address a run holds is one of its     *)
(* own deployment. A run deploys once, which bounds the addresses.             *)

DeployStages == {"off", "sync", "save", "faucet", "dustState", "register", "dust", "proof",
                 "providers", "deploy", "saveLast", "resync"}

DeployScript ==
    [at : DeployStages, net : Networks, wallet : Wallets \cup {0}, view : Wallets \cup {0},
     tries : 0 .. RegisterTries + DeployTries, landed : Nat, goal : {"deploy", "check"}]

StateFile ==
    [active : Networks, wallets : [Networks -> {0} \cup Made],
     deployments : [Networks -> (0 .. MaxScripts) \X (Wallets \cup {0})], there : BOOLEAN]

\* No file is a file of nothing, and no wallet in it is one still to be made.
FileIsOfThePast ==
    /\ ~stateFile.there => stateFile = NoState
    /\ made <= scripts
    /\ \A n \in Networks : stateFile.wallets[n] <= made

\* The address a run holds is that of the contract it deployed.
LandedIsDeployed ==
    /\ script.at = "off" => script = Off
    /\ script.landed # 0 => /\ script.landed \in DOMAIN contracts[script.net]
                            /\ contracts[script.net][script.landed] = script.wallet

\* A run deploys at most one contract.
OneContractPerRun ==
    /\ contracts \in [Networks -> Seq(Wallets)]
    /\ \A n \in Networks :
         /\ Len(contracts[n]) <= scripts
         /\ script.at # "off" /\ script.landed = 0 => Len(contracts[n]) < scripts

DeployIInv ==
    /\ DeployTypeOK
    /\ script \in DeployScript
    /\ FileIsOfThePast
    /\ LandedIsDeployed
    /\ OneContractPerRun
    /\ SeedsAreKept
    /\ RecordedIsDeployed

(* No try is a number of tries.                                               *)
LEMMA NoTriesIsTries == 0 \in 0 .. RegisterTries + DeployTries
BY DeployAssumption

(* No run is a run.                                                           *)
LEMMA OffIsScript == Off \in DeployScript
BY NoTriesIsTries, DeployAssumption DEF Off, DeployScript, DeployStages

(* A step that only takes the run on, or ends it.                             *)
LEMMA RunGoesOn ==
    ASSUME DeployIInv,
           syncCache' \in [Networks -> Wallets \cup {0}],
           UNCHANGED <<stateFile, contracts, made, scripts>>,
           \/ script' = Off
           \/ /\ script' \in DeployScript
              /\ script.at # "off" /\ script'.at # "off"
              /\ script'.net = script.net /\ script'.wallet = script.wallet
              /\ script'.landed = script.landed
    PROVE  DeployIInv'
<1> USE DEF DeployIInv
<1>1. script' \in DeployScript
  BY OffIsScript
<1>2. Off.at = "off" /\ Off.wallet = 0 /\ Off.landed = 0
  BY DEF Off
<1>3. script'.tries \in 0 .. RegisterTries + DeployTries
  BY <1>1 DEF DeployScript
<1>4. DeployTypeOK'
  BY <1>2, <1>3 DEF DeployTypeOK
<1>5. FileIsOfThePast'
  BY DEF FileIsOfThePast
<1>6. LandedIsDeployed'
  BY <1>2 DEF LandedIsDeployed
<1>7. OneContractPerRun'
  BY <1>2 DEF OneContractPerRun
<1>8. SeedsAreKept' /\ RecordedIsDeployed'
  BY DEF SeedsAreKept, RecordedIsDeployed
<1>9. QED
  BY <1>1, <1>4, <1>5, <1>6, <1>7, <1>8

(* Such a step of the run, as the actions have it.                            *)
LEMMA GoesOrEnds ==
    ASSUME DeployIInv, script.at # "off",
           syncCache' \in [Networks -> Wallets \cup {0}],
           UNCHANGED <<stateFile, contracts, made, scripts>>,
           \/ \E at \in DeployStages \ {"off"} : Goes(at)
           \/ \E at \in DeployStages \ {"off"} : script' = [script EXCEPT !.at = at]
           \/ /\ script.tries + 1 \in 0 .. RegisterTries + DeployTries
              /\ \E at \in DeployStages \ {"off"} :
                   script' = [script EXCEPT !.at = at, !.tries = @ + 1]
           \/ Ends
    PROVE  DeployIInv'
<1>1. script \in DeployScript
  BY DEF DeployIInv
<1>6. 0 \in 0 .. RegisterTries + DeployTries
  BY NoTriesIsTries
<1>2. ASSUME NEW at \in DeployStages \ {"off"}, NEW t \in 0 .. RegisterTries + DeployTries,
             script' = [script EXCEPT !.at = at, !.tries = t]
      PROVE  DeployIInv'
  <2>1. /\ script' \in DeployScript
        /\ script'.at # "off"
        /\ script'.net = script.net /\ script'.wallet = script.wallet
        /\ script'.landed = script.landed
    BY <1>1, <1>2 DEF DeployScript
  <2>2. QED
    BY <2>1, RunGoesOn
<1>3. ASSUME NEW at \in DeployStages \ {"off"}, script' = [script EXCEPT !.at = at]
      PROVE  DeployIInv'
  <2>1. /\ script' \in DeployScript
        /\ script'.at # "off"
        /\ script'.net = script.net /\ script'.wallet = script.wallet
        /\ script'.landed = script.landed
    BY <1>1, <1>3 DEF DeployScript
  <2>2. QED
    BY <2>1, RunGoesOn
<1>4. CASE Ends
  BY <1>4, RunGoesOn DEF Ends
<1>5. QED
  BY <1>2, <1>3, <1>4, <1>6 DEF Goes

(* Whatever persistWalletState comes to.                                      *)
LEMMA PersistedIsTyped ==
    ASSUME DeployIInv, NEW ok \in BOOLEAN, Persisted(ok)
    PROVE  syncCache' \in [Networks -> Wallets \cup {0}]
<1>1. script.view \in Wallets \cup {0} /\ syncCache \in [Networks -> Wallets \cup {0}]
  BY DEF DeployIInv, DeployTypeOK, DeployScript
<1>2. QED
  BY <1>1 DEF Persisted

(* The file after saveState, on top of what there is.                         *)
LEMMA ExistingIsFile ==
    ASSUME DeployIInv, NEW net \in Networks
    PROVE  /\ Existing(net) \in StateFile
           /\ Existing(net).wallets = stateFile.wallets
           /\ Existing(net).deployments = stateFile.deployments
<1>1. stateFile \in StateFile
  BY DEF DeployIInv, DeployTypeOK, StateFile
<1>2. ASSUME ~stateFile.there
      PROVE  /\ Existing(net) = [NoState EXCEPT !.active = net]
             /\ stateFile = NoState
  BY <1>2 DEF Existing, DeployIInv, FileIsOfThePast
<1>3. /\ [NoState EXCEPT !.active = net].wallets = NoState.wallets
      /\ [NoState EXCEPT !.active = net].deployments = NoState.deployments
  BY DEF NoState
<1>4. ASSUME NoState \in StateFile PROVE [NoState EXCEPT !.active = net] \in StateFile
  BY <1>4 DEF StateFile
<1>5. QED
  BY <1>1, <1>2, <1>3, <1>4 DEF Existing

(* A wallet that is looked up, given or made is one, and a made one is new only *)
(* where there was none.                                                      *)
LEMMA WalletIsFound ==
    ASSUME DeployIInv, NEW net \in Networks, NEW env \in BOOLEAN, scripts < MaxScripts
    PROVE  LET w == WalletOf(net, env) IN
           /\ w \in Wallets
           /\ w \in Made /\ w > made => w = made + 1 /\ stateFile.wallets[net] = 0
<1>1. /\ made \in Nat /\ made + 1 \in Made
      /\ stateFile.wallets[net] \in {0} \cup Made
      /\ stateFile.wallets[net] <= made
  BY DeployAssumption DEF DeployIInv, DeployTypeOK, FileIsOfThePast, Made
<1>2. Genesis \notin Made /\ Given \notin Made /\ Genesis \in Wallets /\ Given \in Wallets
      /\ Made \subseteq Wallets /\ \A m \in Made : m \in Int
  BY DeployAssumption DEF Genesis, Given, Made, Wallets
<1>3. QED
  BY <1>1, <1>2 DEF WalletOf

(* Every step of a script or of the chain keeps the invariant.                *)
LEMMA DeployStepKeeps ==
    ASSUME DeployIInv, [DeployNext]_deployVars
    PROVE  DeployIInv'
<1>1. syncCache \in [Networks -> Wallets \cup {0}] /\ script \in DeployScript
  BY DEF DeployIInv, DeployTypeOK
<1>2. ASSUME NEW net \in Networks, SetActiveNetwork(net)
      PROVE  DeployIInv'
  <2> DEFINE old == Existing(net)
  <2>1. old \in StateFile /\ old.wallets = stateFile.wallets
        /\ old.deployments = stateFile.deployments
    BY ExistingIsFile
  <2>2. stateFile' = [[old EXCEPT !.active = net] EXCEPT !.there = TRUE]
        /\ UNCHANGED <<syncCache, stage, contracts, made, script, scripts>>
    BY <1>2 DEF SetActiveNetwork, Saved
  <2> HIDE DEF old
  <2>3. stateFile' \in StateFile /\ stateFile'.there
        /\ stateFile'.wallets = stateFile.wallets
        /\ stateFile'.deployments = stateFile.deployments
    BY <2>1, <2>2 DEF StateFile
  <2>4. DeployTypeOK'
    BY <2>2, <2>3 DEF DeployIInv, DeployTypeOK, StateFile
  <2>5. FileIsOfThePast' /\ LandedIsDeployed' /\ OneContractPerRun'
    BY <2>2, <2>3 DEF DeployIInv, FileIsOfThePast, LandedIsDeployed, OneContractPerRun
  <2>6. SeedsAreKept' /\ RecordedIsDeployed'
    BY <2>2, <2>3 DEF DeployIInv, SeedsAreKept, RecordedIsDeployed
  <2>7. QED
    BY <1>1, <2>2, <2>4, <2>5, <2>6 DEF DeployIInv
<1>3. ASSUME NEW goal \in {"deploy", "check"}, NEW flag \in Networks \cup {"none"},
             NEW env \in BOOLEAN, NEW restores \in BOOLEAN,
             StartScript(goal, flag, env, restores)
      PROVE  DeployIInv'
  <2> DEFINE net == Resolved(flag)
             w == WalletOf(net, env)
             v == Restored(CacheOf(net, restores), w)
             old == Existing(net)
  <2>1. net \in Networks
    BY DeployAssumption DEF Resolved, DeployIInv, DeployTypeOK
  <2>2. /\ script.at = "off" /\ scripts < MaxScripts /\ scripts' = scripts + 1
        /\ KeepWallet(net, w)
        /\ script' = [Off EXCEPT !.at = "sync", !.net = net, !.wallet = w, !.goal = goal, !.view = v]
        /\ UNCHANGED <<syncCache, stage, contracts>>
    BY <1>3 DEF StartScript
  <2>3. w \in Wallets /\ (w \in Made /\ w > made => w = made + 1 /\ stateFile.wallets[net] = 0)
    BY <2>1, <2>2, WalletIsFound
  <2>4. old \in StateFile /\ old.wallets = stateFile.wallets
        /\ old.deployments = stateFile.deployments
    BY <2>1, ExistingIsFile
  <2>5. v \in Wallets \cup {0}
    BY <1>1, <2>1, <2>3 DEF Restored, CacheOf
  <2>6. \/ UNCHANGED <<stateFile, made>>
        \/ /\ stateFile' = [[old EXCEPT !.active = net, !.wallets[net] = w] EXCEPT !.there = TRUE]
           /\ made' = w /\ w \in Made /\ w = made + 1 /\ stateFile.wallets[net] = 0
    BY <2>2, <2>3 DEF KeepWallet, Saved
  <2>7. /\ made \in Nat /\ made <= scripts /\ scripts \in Nat /\ scripts < MaxScripts
        /\ 0 \notin Wallets
    BY <2>2, DeployAssumption DEF DeployIInv, DeployTypeOK, FileIsOfThePast, Wallets, Genesis,
       Given, Made
  <2> HIDE DEF net, w, v, old
  <2>8. /\ script' \in DeployScript /\ script'.at = "sync" /\ script'.wallet = w
        /\ script'.landed = 0 /\ script'.tries = 0
    BY <2>1, <2>2, <2>3, <2>5, OffIsScript DEF DeployScript, DeployStages, Off
  <2>9. /\ scripts' \in 0 .. MaxScripts
        /\ made' \in 0 .. MaxScripts /\ made' <= scripts' /\ made <= made'
    BY <2>2, <2>6, <2>7, DeployAssumption
  <2>10. /\ stateFile' \in StateFile
         /\ stateFile'.deployments = stateFile.deployments
         /\ stateFile'.there \/ UNCHANGED <<stateFile, made>>
         /\ \A n \in Networks :
              \/ stateFile'.wallets[n] = stateFile.wallets[n]
              \/ n = net /\ stateFile'.wallets[n] = made' /\ stateFile.wallets[n] = 0
         /\ made' = made \/ (made' = made + 1 /\ stateFile'.wallets[net] = made')
    <3>1. CASE UNCHANGED <<stateFile, made>>
      BY <3>1 DEF DeployIInv, DeployTypeOK, StateFile
    <3>2. CASE ~UNCHANGED <<stateFile, made>>
      <4> DEFINE f == [old EXCEPT !.active = net, !.wallets[net] = w]
      <4>1. /\ stateFile' = [f EXCEPT !.there = TRUE]
            /\ made' = w /\ w \in Made /\ w = made + 1 /\ stateFile.wallets[net] = 0
        BY <2>6, <3>2
      <4>2. f \in StateFile /\ f.deployments = old.deployments
            /\ f.wallets = [old.wallets EXCEPT ![net] = w]
        BY <2>1, <2>4, <4>1 DEF StateFile
      <4> HIDE DEF f
      <4>3. stateFile' \in StateFile /\ stateFile'.deployments = f.deployments
            /\ stateFile'.wallets = f.wallets /\ stateFile'.there
        BY <4>1, <4>2 DEF StateFile
      <4>4. old.wallets \in [Networks -> {0} \cup Made]
        BY <2>4 DEF StateFile
      <4>5. QED
        BY <2>1, <2>4, <4>1, <4>2, <4>3, <4>4
    <3>3. QED
      BY <3>1, <3>2
  <2>11. DeployTypeOK'
    <3>1. script'.tries \in 0 .. RegisterTries + DeployTries /\ script'.wallet # 0
      BY <2>3, <2>7, <2>8 DEF DeployScript
    <3>2. QED
      BY <1>1, <2>2, <2>8, <2>9, <2>10, <3>1 DEF DeployTypeOK, StateFile
  <2>12. FileIsOfThePast'
    <3>1. stateFile.wallets \in [Networks -> {0} \cup Made] /\ \A n \in Networks : stateFile.wallets[n] <= made
      BY DEF DeployIInv, DeployTypeOK, FileIsOfThePast
    <3>2. \A n \in Networks : stateFile.wallets[n] \in Int
      BY <3>1, DeployAssumption DEF Made
    <3>3. \A n \in Networks : stateFile'.wallets[n] <= made'
      BY <2>7, <2>9, <2>10, <3>1, <3>2
    <3>4. QED
      BY <2>9, <2>10, <3>3 DEF FileIsOfThePast, DeployIInv
  <2>13. LandedIsDeployed'
    BY <2>8 DEF LandedIsDeployed
  <2>14. OneContractPerRun'
    <3>1. /\ contracts \in [Networks -> Seq(Wallets)]
          /\ \A n \in Networks : Len(contracts[n]) <= scripts /\ Len(contracts[n]) \in Nat
      BY DEF DeployIInv, OneContractPerRun
    <3>2. \A n \in Networks : Len(contracts[n]) < scripts' /\ Len(contracts[n]) <= scripts'
      BY <2>2, <2>7, <3>1
    <3>3. QED
      BY <2>2, <3>1, <3>2 DEF OneContractPerRun
  <2>15. SeedsAreKept'
    <3>1. \A m \in 1 .. made : \E n \in Networks : stateFile.wallets[n] = m
      BY DEF DeployIInv, SeedsAreKept
    <3>2. ASSUME NEW m \in 1 .. made PROVE \E n \in Networks : stateFile'.wallets[n] = m
      BY <2>7, <2>10, <3>1
    <3>3. \A m \in 1 .. made' : m \in 1 .. made \/ (m = made' /\ made' = made + 1)
      BY <2>7, <2>9, <2>10
    <3>4. QED
      BY <2>1, <2>10, <3>2, <3>3 DEF SeedsAreKept
  <2>16. RecordedIsDeployed'
    BY <2>2, <2>10 DEF DeployIInv, RecordedIsDeployed
  <2>17. QED
    BY <2>8, <2>11, <2>12, <2>13, <2>14, <2>15, <2>16 DEF DeployIInv
<1>4. CASE Synced \/ SyncGivesUp \/ FaucetPolls \/ FaucetGivesUp \/ DustAppears \/ DustGivesUp
  <2>1. /\ script.at # "off" /\ UNCHANGED <<syncCache, stateFile, contracts, made, scripts>>
        /\ \/ Goes("save") \/ Goes("dustState") \/ Goes("proof")
           \/ Ends
    BY <1>4 DEF Synced, SyncGivesUp, FaucetPolls, FaucetGivesUp, DustAppears, DustGivesUp, OnlyScript
  <2>2. {"save", "dustState", "proof"} \subseteq DeployStages \ {"off"}
    BY DEF DeployStages
  <2>3. QED
    BY <1>1, <2>1, <2>2, GoesOrEnds
<1>5. ASSUME NEW ok \in BOOLEAN, PersistSync(ok) \/ PersistCheck(ok) \/ PersistLast(ok)
      PROVE  DeployIInv'
  <2>1. /\ script.at # "off" /\ UNCHANGED <<stateFile, contracts, made, scripts>>
        /\ Persisted(ok)
        /\ \/ Goes("dustState") \/ Goes("faucet")
           \/ Ends
    BY <1>5 DEF PersistSync, PersistCheck, PersistLast
  <2>2. {"dustState", "faucet"} \subseteq DeployStages \ {"off"}
    BY DEF DeployStages
  <2>3. QED
    BY <2>1, <2>2, PersistedIsTyped, GoesOrEnds
<1>6. ASSUME NEW ok \in BOOLEAN, ReadDustState(ok) \/ ProofServer(ok) \/ Providers(ok)
      PROVE  DeployIInv'
  <2>1. /\ script.at # "off" /\ UNCHANGED <<syncCache, stateFile, contracts, made, scripts>>
        /\ \/ Goes("register") \/ Goes("dust") \/ Goes("proof")
           \/ Goes("providers") \/ Goes("deploy")
           \/ Ends
    BY <1>6 DEF ReadDustState, ProofServer, Providers, OnlyScript
  <2>2. {"register", "dust", "proof", "providers", "deploy"} \subseteq DeployStages \ {"off"}
    BY DEF DeployStages
  <2>3. QED
    BY <1>1, <2>1, <2>2, GoesOrEnds
<1>7. CASE RegisterAttempts
  <2>1. PICK result \in Results : \E fresh, submits \in BOOLEAN : Attempt(fresh, submits, result)
    BY <1>7 DEF RegisterAttempts
  <2>2. /\ script.at = "register" /\ UNCHANGED <<syncCache, stateFile, contracts, made, scripts>>
        /\ \/ Goes("dust")
           \/ TriedAgain(result) /\ script' = [script EXCEPT !.tries = @ + 1]
           \/ Ends
    BY <2>1 DEF Attempt
  <2>3. TriedAgain(result) => script.tries + 1 \in 0 .. RegisterTries + DeployTries
    BY <1>1, DeployAssumption DEF TriedAgain, DeployScript
  <2>4. {"dust", "register"} \subseteq DeployStages \ {"off"}
    BY DEF DeployStages
  <2>5. script' = [script EXCEPT !.tries = @ + 1] =>
          script' = [script EXCEPT !.at = "register", !.tries = @ + 1]
    BY <1>1, <2>2 DEF DeployScript
  <2>6. QED
    BY <1>1, <2>2, <2>3, <2>4, <2>5, GoesOrEnds
<1>8. CASE DeployLands
  <2>1. /\ script.at = "deploy" /\ script.landed = 0
        /\ contracts' = [contracts EXCEPT ![script.net] = Append(@, script.wallet)]
        /\ script' = [script EXCEPT !.landed = Len(contracts'[script.net])]
        /\ UNCHANGED <<stateFile, syncCache, stage, made, scripts>>
    BY <1>8 DEF DeployLands
  <2>2. script.net \in Networks /\ script.wallet \in Wallets
    BY <1>1, <2>1 DEF DeployScript, DeployIInv, DeployTypeOK
  <2>3. /\ contracts \in [Networks -> Seq(Wallets)]
        /\ \A n \in Networks : Len(contracts[n]) < scripts /\ Len(contracts[n]) \in Nat
        /\ scripts \in Nat
    BY <2>1 DEF DeployIInv, OneContractPerRun, DeployTypeOK
  <2> DEFINE s == contracts[script.net]
             t == Append(s, script.wallet)
  <2>4. /\ t \in Seq(Wallets) /\ Len(t) = Len(s) + 1 /\ t[Len(t)] = script.wallet
        /\ DOMAIN t = 1 .. Len(t)
        /\ \A i \in 1 .. Len(s) : i \in 1 .. Len(t) /\ t[i] = s[i]
    <3>1. s \in Seq(Wallets) /\ Len(s) \in Nat
      BY <2>2, <2>3
    <3> HIDE DEF s
    <3>2. QED
      BY <2>2, <3>1, AppendProperties
  <2>5. /\ contracts' \in [Networks -> Seq(Wallets)] /\ contracts'[script.net] = t
        /\ \A n \in Networks : n # script.net => contracts'[n] = contracts[n]
    <3> HIDE DEF t
    <3>1. contracts' = [contracts EXCEPT ![script.net] = t]
      BY <2>1 DEF t
    <3>2. QED
      BY <2>2, <2>3, <2>4, <3>1
  <2>6. /\ script' \in DeployScript /\ script'.at = script.at /\ script'.net = script.net
        /\ script'.wallet = script.wallet /\ script'.landed = Len(t)
        /\ script'.tries = script.tries /\ Len(t) \in Nat \ {0}
    <3>1. Len(t) \in Nat \ {0}
      BY <2>2, <2>3, <2>4
    <3> HIDE DEF t
    <3>2. QED
      BY <1>1, <2>1, <2>5, <3>1 DEF DeployScript
  <2>7. ASSUME NEW n \in Networks PROVE Len(contracts'[n]) <= scripts
    <3>1. CASE n = script.net
      <4>1. Len(s) < scripts /\ Len(s) \in Nat /\ Len(t) = Len(s) + 1 /\ contracts'[n] = t
        BY <2>2, <2>3, <2>4, <2>5, <3>1
      <4> HIDE DEF s, t
      <4>2. QED
        BY <2>3, <4>1
    <3>2. CASE n # script.net
      BY <2>3, <2>5, <3>2
    <3>3. QED
      BY <3>1, <3>2
  <2>8. ASSUME NEW n \in Networks, NEW i \in DOMAIN contracts[n]
        PROVE  i \in DOMAIN contracts'[n] /\ contracts'[n][i] = contracts[n][i]
    <3>1. CASE n = script.net
      <4>1. i \in 1 .. Len(s)
        BY <2>2, <2>3, <2>8, <3>1
      <4>2. QED
        BY <2>4, <2>5, <3>1, <4>1
    <3>2. CASE n # script.net
      BY <2>5, <2>8, <3>2
    <3>3. QED
      BY <3>1, <3>2
  <2> HIDE DEF s, t
  <2>9. DeployTypeOK' /\ FileIsOfThePast'
    BY <2>1, <2>6 DEF DeployIInv, DeployTypeOK, FileIsOfThePast
  <2>10. LandedIsDeployed'
    BY <2>1, <2>4, <2>5, <2>6 DEF LandedIsDeployed
  <2>11. OneContractPerRun'
    BY <2>1, <2>5, <2>6, <2>7 DEF OneContractPerRun
  <2>12. SeedsAreKept' /\ RecordedIsDeployed'
    BY <2>1, <2>8 DEF DeployIInv, SeedsAreKept, RecordedIsDeployed
  <2>13. QED
    BY <2>6, <2>9, <2>10, <2>11, <2>12 DEF DeployIInv
<1>9. CASE ContractDeployed
  <2> DEFINE net == script.net
             old == Existing(net)
             f == [old EXCEPT !.deployments[net] = <<script.landed, script.wallet>>]
  <2>1. /\ script.at = "deploy" /\ script.landed # 0
        /\ stateFile' = [f EXCEPT !.there = TRUE]
        /\ script' = [script EXCEPT !.at = "saveLast", !.tries = 0]
        /\ UNCHANGED <<syncCache, stage, contracts, made, scripts>>
    BY <1>9 DEF ContractDeployed, DeploymentRecorded, Saved, Goes
  <2>2. net \in Networks /\ script.wallet \in Wallets
    BY <1>1, <2>1 DEF DeployScript, DeployIInv, DeployTypeOK
  <2>3. old \in StateFile /\ old.wallets = stateFile.wallets
        /\ old.deployments = stateFile.deployments
    BY <2>2, ExistingIsFile
  <2>4. /\ script.landed \in DOMAIN contracts[net]
        /\ contracts[net][script.landed] = script.wallet
        /\ contracts[net] \in Seq(Wallets) /\ Len(contracts[net]) <= scripts
        /\ scripts \in 0 .. MaxScripts
    BY <2>1, <2>2 DEF DeployIInv, LandedIsDeployed, OneContractPerRun, DeployTypeOK
  <2>5. script.landed \in 0 .. MaxScripts
    BY <2>4, DeployAssumption
  <2> HIDE DEF old, net
  <2>6. f \in StateFile /\ f.wallets = old.wallets
        /\ f.deployments = [old.deployments EXCEPT ![net] = <<script.landed, script.wallet>>]
    BY <2>2, <2>3, <2>5 DEF StateFile
  <2> HIDE DEF f
  <2>7. stateFile' \in StateFile /\ stateFile'.there /\ stateFile'.wallets = stateFile.wallets
        /\ stateFile'.deployments = f.deployments
    BY <2>1, <2>3, <2>6 DEF StateFile
  <2>8. /\ script' \in DeployScript /\ script'.at = "saveLast" /\ script'.net = net
        /\ script'.wallet = script.wallet /\ script'.landed = script.landed
    <3>1. 0 \in 0 .. RegisterTries + DeployTries
      BY DeployAssumption
    <3>2. QED
      BY <1>1, <2>1, <3>1 DEF DeployScript, DeployStages, net
  <2>9. DeployTypeOK'
    <3>1. script'.tries \in 0 .. RegisterTries + DeployTries
      BY <2>8 DEF DeployScript
    <3>2. QED
      BY <2>1, <2>7, <2>8, <3>1 DEF DeployIInv, DeployTypeOK, StateFile
  <2>10. FileIsOfThePast' /\ SeedsAreKept'
    BY <2>1, <2>7 DEF DeployIInv, FileIsOfThePast, SeedsAreKept
  <2>11. LandedIsDeployed' /\ OneContractPerRun'
    BY <2>1, <2>8 DEF DeployIInv, LandedIsDeployed, OneContractPerRun, net
  <2>12. RecordedIsDeployed'
    <3>1. ASSUME NEW n \in Networks
          PROVE  \/ n = net /\ stateFile'.deployments[n] = <<script.landed, script.wallet>>
                 \/ stateFile'.deployments[n] = stateFile.deployments[n]
      <4>1. old.deployments \in [Networks -> (0 .. MaxScripts) \X (Wallets \cup {0})]
        BY <2>3 DEF StateFile
      <4>2. QED
        BY <2>2, <2>3, <2>6, <2>7, <4>1
    <3>2. QED
      BY <2>1, <2>4, <3>1 DEF DeployIInv, RecordedIsDeployed
  <2>13. QED
    BY <2>8, <2>9, <2>10, <2>11, <2>12 DEF DeployIInv
<1>10. CASE DustShort \/ Resynced \/ Dies
  <2>1. /\ script.at # "off" /\ UNCHANGED <<syncCache, stateFile, contracts, made, scripts>>
        /\ \/ script' = [script EXCEPT !.at = "resync"]
           \/ /\ script.tries + 1 < DeployTries
              /\ script' = [script EXCEPT !.at = "deploy", !.tries = @ + 1]
           \/ Ends
    BY <1>10 DEF DustShort, Resynced, Dies, OnlyScript
  <2>2. script.tries + 1 < DeployTries => script.tries + 1 \in 0 .. RegisterTries + DeployTries
    BY <1>1, DeployAssumption DEF DeployScript
  <2>3. {"resync", "deploy"} \subseteq DeployStages \ {"off"}
    BY DEF DeployStages
  <2>4. QED
    BY <1>1, <2>1, <2>2, <2>3, GoesOrEnds
<1>11. CASE (\E net \in Networks, wallet \in Wallets : ChainMoves(net, wallet)) \/ UNCHANGED deployVars
  <2>1. UNCHANGED <<stateFile, syncCache, contracts, made, script, scripts>>
    BY <1>11 DEF ChainMoves, deployVars
  <2>2. QED
    BY <2>1 DEF DeployIInv, DeployTypeOK, FileIsOfThePast, LandedIsDeployed, OneContractPerRun,
       SeedsAreKept, RecordedIsDeployed
<1>12. QED
  BY <1>2, <1>3, <1>4, <1>5, <1>6, <1>7, <1>8, <1>9, <1>10, <1>11 DEF DeployNext

(* The files are empty or written by hand, and no script runs.                *)
LEMMA DeployStarts == DeployInit => DeployIInv
<1> SUFFICES ASSUME DeployInit PROVE DeployIInv
  OBVIOUS
<1>1. /\ stateFile = NoState /\ syncCache = [n \in Networks |-> 0]
      /\ contracts = [n \in Networks |-> <<>>]
      /\ made = 0 /\ script = Off /\ scripts = 0
  BY DEF DeployInit
<1>2. Off.at = "off" /\ Off.wallet = 0 /\ Off.landed = 0 /\ Off.tries = 0
  BY DEF Off
<1>3. NoState \in StateFile
  BY DeployAssumption DEF NoState, StateFile
<1>4. 0 \in 0 .. MaxScripts /\ 0 \in 0 .. RegisterTries + DeployTries
  BY DeployAssumption
<1>5. DeployTypeOK
  BY <1>1, <1>2, <1>3, <1>4 DEF DeployTypeOK, StateFile
<1>6. FileIsOfThePast /\ LandedIsDeployed /\ SeedsAreKept /\ RecordedIsDeployed
  BY <1>1, <1>2 DEF FileIsOfThePast, LandedIsDeployed, SeedsAreKept, RecordedIsDeployed, NoState
<1>7. OneContractPerRun
  BY <1>1, <1>2 DEF OneContractPerRun
<1>8. QED
  BY <1>1, <1>5, <1>6, <1>7, OffIsScript DEF DeployIInv

-------------------------------------------------------------------------------
(* The officer's sign-in. The portal is shown by what was rendered last, while *)
(* answers and the demo grant come without a render: AuthorizedIsTold says     *)
(* that an authorization rests on an answer, and a rendered role on the grant. *)
(* No call brings a cookie of a session there never was.                       *)

SignInCall ==
    [by : {"mount", "refresh", "signIn"}, sent : 0..MaxSessions,
     answer : {"none", "ok", "refused"}, sets : 0..MaxSessions]

AuthorizedIsTold ==
    /\ auth.authorized => told
    /\ auth.role = "OFFICER" => auth.grant

SessionsWere ==
    /\ officerCookie # 0 => officerRows[officerCookie] # "absent"
    /\ \A c \in officerCalls :
         /\ c.sets # 0 => officerRows[c.sets] # "absent"
         /\ c.answer = "none" => c.sets = 0

OneSignIn == \A c, d \in officerCalls : c.by # "mount" /\ d.by # "mount" => c = d

SignInIInv ==
    /\ SignInTypeOK
    /\ AuthorizedIsTold
    /\ SessionsWere
    /\ OneSignIn

(* Nobody is signed in at first.                                              *)
LEMMA SignInStarts == SignInInit => SignInIInv
<1> SUFFICES ASSUME SignInInit PROVE SignInIInv
  OBVIOUS
<1>1. 0 \in 0..MaxSessions
  BY SignInAssumption
<1>2. /\ OfficerCall("mount", 0) \in SignInCall
      /\ OfficerCall("mount", 0).by = "mount" /\ OfficerCall("mount", 0).sets = 0
  BY <1>1 DEF OfficerCall, SignInCall
<1>3. SignInTypeOK
  BY <1>1, <1>2 DEF SignInInit, SignInTypeOK, SignInCall
<1>4. QED
  BY <1>2, <1>3 DEF SignInInit, SignInIInv, AuthorizedIsTold, SessionsWere, OneSignIn

(* A call made now is one, and has set nothing.                               *)
LEMMA OfficerCallIsCall ==
    ASSUME NEW by \in {"mount", "refresh", "signIn"}, NEW s \in 0..MaxSessions
    PROVE  /\ OfficerCall(by, s) \in SignInCall /\ OfficerCall(by, s).by = by
           /\ OfficerCall(by, s).sets = 0 /\ OfficerCall(by, s).answer = "none"
<1>1. 0 \in 0..MaxSessions
  BY SignInAssumption
<1>2. QED
  BY <1>1 DEF OfficerCall, SignInCall

(* A render keeps everything but the role, which it takes from the grant.     *)
LEMMA RenderedIsAuth ==
    ASSUME NEW a \in [wallet : BOOLEAN, authorized : BOOLEAN, role : {"USER", "OFFICER"}, grant : BOOLEAN]
    PROVE  /\ RenderedAuth(a) \in
                [wallet : BOOLEAN, authorized : BOOLEAN, role : {"USER", "OFFICER"}, grant : BOOLEAN]
           /\ RenderedAuth(a).authorized = a.authorized /\ RenderedAuth(a).grant = a.grant
           /\ RenderedAuth(a).role = "OFFICER" => RenderedAuth(a).grant
BY DEF RenderedAuth, RoleOf

(* Every step of the sign-in keeps its invariant.                             *)
LEMMA SignInStepKeeps ==
    ASSUME SignInIInv, [SignInNext]_signInVars
    PROVE  SignInIInv'
<1> DEFINE Auth == [wallet : BOOLEAN, authorized : BOOLEAN, role : {"USER", "OFFICER"}, grant : BOOLEAN]
<1> USE DEF SignInIInv
<1>1. /\ officerRows \in [1..MaxSessions -> {"absent", "live", "dead"}]
      /\ officerCookie \in 0..MaxSessions
      /\ auth \in Auth /\ told \in BOOLEAN /\ signIn \in {"idle", "sent", "refreshing"}
      /\ officerCalls \subseteq SignInCall
      /\ (signIn = "idle") = (\A c \in officerCalls : c.by = "mount")
  BY DEF SignInTypeOK, SignInCall
<1>2. ASSUME officerRows' \in [1..MaxSessions -> {"absent", "live", "dead"}],
             officerCookie' \in 0..MaxSessions,
             auth' \in Auth, told' \in BOOLEAN, signIn' \in {"idle", "sent", "refreshing"},
             officerCalls' \subseteq SignInCall,
             (signIn' = "idle") = (\A c \in officerCalls' : c.by = "mount")
      PROVE  SignInTypeOK'
  BY <1>2 DEF SignInTypeOK, SignInCall
<1>3. CASE WalletComesOrGoes
  <2> DEFINE a == [auth EXCEPT !.wallet = ~@]
  <2>1. a \in Auth /\ a.authorized = auth.authorized
    BY <1>1
  <2>2. auth' = RenderedAuth(a) /\ UNCHANGED <<officerRows, officerCookie, told, signIn, officerCalls>>
    BY <1>3 DEF WalletComesOrGoes
  <2> HIDE DEF a
  <2>3. SignInTypeOK'
    BY <1>1, <1>2, <2>1, <2>2, RenderedIsAuth
  <2>4. AuthorizedIsTold'
    BY <2>1, <2>2, RenderedIsAuth DEF AuthorizedIsTold
  <2>5. QED
    BY <2>2, <2>3, <2>4 DEF SessionsWere, OneSignIn
<1>4. CASE GrantOrRevoke
  <2>1. /\ auth' = [auth EXCEPT !.grant = ~@] /\ auth.role # "OFFICER"
        /\ UNCHANGED <<officerRows, officerCookie, told, signIn, officerCalls>>
    BY <1>4 DEF GrantOrRevoke, PortalShown
  <2>2. auth' \in Auth /\ auth'.role = auth.role /\ auth'.authorized = auth.authorized
    BY <1>1, <2>1
  <2>3. SignInTypeOK'
    BY <1>1, <1>2, <2>1, <2>2
  <2>4. QED
    BY <2>1, <2>2, <2>3 DEF AuthorizedIsTold, SessionsWere, OneSignIn
<1>5. CASE SignInPressed
  <2> DEFINE d == OfficerCall("signIn", officerCookie)
  <2>1. /\ signIn = "idle" /\ officerCalls' = officerCalls \cup {d} /\ signIn' = "sent"
        /\ UNCHANGED <<officerRows, officerCookie, auth, told>>
    BY <1>5 DEF SignInPressed
  <2>2. d \in SignInCall /\ d.by = "signIn" /\ d.sets = 0
    BY <1>1, OfficerCallIsCall
  <2> HIDE DEF d
  <2>3. SignInTypeOK'
    BY <1>1, <1>2, <2>1, <2>2
  <2>4. AuthorizedIsTold'
    BY <2>1 DEF AuthorizedIsTold
  <2>5. SessionsWere'
    BY <2>1, <2>2 DEF SessionsWere
  <2>6. OneSignIn'
    BY <1>1, <2>1, <2>2 DEF OneSignIn
  <2>7. QED
    BY <2>3, <2>4, <2>5, <2>6
<1>6. CASE TabReloaded
  <2> DEFINE d == OfficerCall("mount", officerCookie)
             a == [auth EXCEPT !.wallet = FALSE, !.authorized = FALSE]
  <2>1. /\ officerCalls' = {d} /\ signIn' = "idle" /\ told' = FALSE /\ auth' = RenderedAuth(a)
        /\ UNCHANGED <<officerRows, officerCookie>>
    BY <1>6 DEF TabReloaded
  <2>2. d \in SignInCall /\ d.by = "mount" /\ d.sets = 0
    BY <1>1, OfficerCallIsCall
  <2>3. a \in Auth /\ ~a.authorized
    BY <1>1
  <2> HIDE DEF d, a
  <2>4. SignInTypeOK'
    BY <1>1, <1>2, <2>1, <2>2, <2>3, RenderedIsAuth
  <2>5. AuthorizedIsTold'
    BY <2>1, <2>3, RenderedIsAuth DEF AuthorizedIsTold
  <2>6. SessionsWere' /\ OneSignIn'
    BY <2>1, <2>2 DEF SessionsWere, OneSignIn
  <2>7. QED
    BY <2>4, <2>5, <2>6
\* An answer of the server, told in place of the call it answers.
<1>7. ASSUME NEW c \in officerCalls, NEW d \in SignInCall, d.by = c.by,
             d.sets # 0 => officerRows'[d.sets] # "absent", d.answer # "none",
             \A t \in 1..MaxSessions : officerRows[t] # "absent" => officerRows'[t] # "absent",
             officerRows' \in [1..MaxSessions -> {"absent", "live", "dead"}],
             Replaced(c, d), UNCHANGED <<officerCookie, auth, told, signIn>>
      PROVE  SignInIInv'
  <2>1. officerCalls' = (officerCalls \ {c}) \cup {d}
    BY <1>7 DEF Replaced
  <2>2. SignInTypeOK'
    BY <1>1, <1>2, <1>7, <2>1
  <2>3. AuthorizedIsTold' /\ OneSignIn'
    BY <1>7, <2>1 DEF AuthorizedIsTold, OneSignIn
  <2>4. ASSUME NEW s \in 0..MaxSessions, s # 0 PROVE s \in 1..MaxSessions
    BY <2>4, SignInAssumption
  <2>5. SessionsWere'
    BY <1>1, <1>7, <2>1, <2>4 DEF SessionsWere, SignInCall
  <2>6. QED
    BY <2>2, <2>3, <2>5
<1>8. ASSUME NEW c \in officerCalls, NEW s \in 1..MaxSessions, SignInAccepted(c, s)
      PROVE  SignInIInv'
  <2> DEFINE d == [c EXCEPT !.answer = "ok", !.sets = s]
  <2>1. /\ officerRows' = [officerRows EXCEPT ![s] = "live"] /\ Replaced(c, d)
        /\ UNCHANGED <<officerCookie, auth, told, signIn>>
    BY <1>8 DEF SignInAccepted
  <2>2. c \in SignInCall /\ s \in 0..MaxSessions
    BY <1>1, SignInAssumption
  <2>3. d \in SignInCall /\ d.by = c.by /\ d.sets = s /\ d.answer # "none"
    BY <2>2 DEF SignInCall
  <2> HIDE DEF d
  <2>4. QED
    BY <1>1, <1>7, <2>1, <2>3
<1>9. ASSUME NEW c \in officerCalls, MeServed(c)
      PROVE  SignInIInv'
  <2> DEFINE live == c.sent # 0 /\ officerRows[c.sent] = "live"
             d == [c EXCEPT !.answer = IF live THEN "ok" ELSE "refused",
                            !.sets = IF live THEN c.sent ELSE 0]
  <2>1. Replaced(c, d) /\ UNCHANGED <<officerRows, officerCookie, auth, told, signIn>>
    BY <1>9 DEF MeServed
  <2>2. c \in SignInCall /\ 0 \in 0..MaxSessions
    BY <1>1, SignInAssumption
  <2>3. d \in SignInCall /\ d.by = c.by /\ (d.sets # 0 => officerRows[d.sets] = "live")
        /\ d.answer # "none"
    BY <2>2 DEF SignInCall
  <2> HIDE DEF d
  <2>4. QED
    BY <1>1, <1>7, <2>1, <2>3
<1>10. ASSUME NEW c \in officerCalls, NEW heard \in BOOLEAN, SignInAnswered(c, heard)
       PROVE  SignInIInv'
  <2> DEFINE ok == heard /\ c.answer = "ok"
             d == OfficerCall("refresh", c.sets)
  <2>1. c.by = "signIn" /\ c \in SignInCall
    BY <1>1, <1>10 DEF SignInAnswered
  <2>2. /\ officerCookie' \in {c.sets, 0, officerCookie}
        /\ UNCHANGED <<officerRows, auth, told>>
        /\ \/ officerCalls' = (officerCalls \ {c}) \cup {d} /\ signIn' = "refreshing"
           \/ officerCalls' = officerCalls \ {c} /\ signIn' = "idle"
    BY <1>10 DEF SignInAnswered, CookieAfter, Replaced
  <2>3. d \in SignInCall /\ d.by = "refresh" /\ d.sets = 0
    BY <2>1, OfficerCallIsCall DEF SignInCall
  <2>4. \A e \in officerCalls \ {c} : e.by = "mount"
    BY <1>1, <2>1 DEF OneSignIn, SignInCall
  <2>5. c.sets \in 0..MaxSessions /\ 0 \in 0..MaxSessions
    BY <2>1, SignInAssumption DEF SignInCall
  <2> HIDE DEF d
  <2>6. SignInTypeOK'
    BY <1>1, <1>2, <2>2, <2>3, <2>4, <2>5
  <2>7. AuthorizedIsTold'
    BY <2>2 DEF AuthorizedIsTold
  <2>8. SessionsWere'
    BY <2>2, <2>3 DEF SessionsWere
  <2>9. OneSignIn'
    BY <2>2, <2>3, <2>4 DEF OneSignIn
  <2>10. QED
    BY <2>6, <2>7, <2>8, <2>9
<1>11. ASSUME NEW c \in officerCalls, NEW heard \in BOOLEAN, MeAnswered(c, heard)
       PROVE  SignInIInv'
  <2> DEFINE ok == heard /\ c.answer = "ok"
             a == [auth EXCEPT !.authorized = ok]
  <2>1. c.by # "signIn" /\ c \in SignInCall
    BY <1>1, <1>11 DEF MeAnswered
  <2>2. /\ officerCookie' \in {c.sets, 0, officerCookie}
        /\ UNCHANGED officerRows /\ officerCalls' = officerCalls \ {c}
        /\ signIn' = IF c.by = "refresh" THEN "idle" ELSE signIn
        /\ told' = (told \/ ok)
        /\ auth' = IF ok \/ auth.authorized THEN RenderedAuth(a) ELSE auth
    BY <1>11 DEF MeAnswered, CookieAfter
  <2>3. a \in Auth /\ (a.authorized => ok)
    BY <1>1
  <2>4. auth' \in Auth /\ (auth'.authorized => ok) /\ (auth'.role = "OFFICER" => auth'.grant)
    <3> HIDE DEF a, ok
    <3>1. QED
      BY <1>1, <2>2, <2>3, RenderedIsAuth DEF AuthorizedIsTold
  <2>5. told' \in BOOLEAN /\ (ok => told')
    BY <2>2
  <2>6. c.sets \in 0..MaxSessions /\ 0 \in 0..MaxSessions
    BY <2>1, SignInAssumption DEF SignInCall
  <2>7. (signIn' = "idle") = (\A e \in officerCalls' : e.by = "mount")
    <3>1. CASE c.by = "refresh"
      <4>1. \A e \in officerCalls \ {c} : e.by = "mount"
        BY <1>1, <3>1 DEF OneSignIn, SignInCall
      <4>2. QED
        BY <2>2, <3>1, <4>1
    <3>2. CASE c.by = "mount"
      BY <1>1, <2>2, <3>2
    <3>3. QED
      BY <2>1, <3>1, <3>2 DEF SignInCall
  <2> HIDE DEF a, ok
  <2>8. SignInTypeOK'
    BY <1>1, <1>2, <2>2, <2>4, <2>5, <2>6, <2>7
  <2>9. AuthorizedIsTold'
    BY <2>4, <2>5 DEF AuthorizedIsTold
  <2>10. SessionsWere' /\ OneSignIn'
    BY <2>2 DEF SessionsWere, OneSignIn
  <2>11. QED
    BY <2>8, <2>9, <2>10
<1>12. ASSUME NEW s \in 1..MaxSessions, SessionEnds(s)
       PROVE  SignInIInv'
  <2>1. /\ officerRows' = [officerRows EXCEPT ![s] = "dead"]
        /\ UNCHANGED <<officerCookie, auth, told, signIn, officerCalls>>
    BY <1>12 DEF SessionEnds
  <2>2. officerRows' \in [1..MaxSessions -> {"absent", "live", "dead"}]
        /\ \A t \in 1..MaxSessions : officerRows[t] # "absent" => officerRows'[t] # "absent"
    BY <1>1, <2>1
  <2>3. \A t \in 0..MaxSessions : t # 0 => t \in 1..MaxSessions
    BY SignInAssumption
  <2>4. SignInTypeOK' /\ AuthorizedIsTold' /\ OneSignIn'
    BY <1>1, <1>2, <2>1, <2>2 DEF AuthorizedIsTold, OneSignIn
  <2>5. SessionsWere'
    BY <1>1, <2>1, <2>2, <2>3 DEF SessionsWere, SignInCall
  <2>6. QED
    BY <2>4, <2>5
<1>13. CASE UNCHANGED signInVars
  BY <1>13 DEF signInVars, SignInTypeOK, AuthorizedIsTold, SessionsWere, OneSignIn
<1>14. QED
  BY <1>3, <1>4, <1>5, <1>6, <1>8, <1>9, <1>10, <1>11, <1>12, <1>13 DEF SignInNext

(* The portal is guarded in every state of the invariant.                     *)
LEMMA GuardedWhenTold == SignInIInv => PortalIsGuarded
BY DEF SignInIInv, SignInTypeOK, AuthorizedIsTold, SessionsWere, PortalIsGuarded, PortalShown

-------------------------------------------------------------------------------
(* The officer's portal. What is reported stays true because a registration    *)
(* that was decided is not decided again, and nobody decides on "pending".     *)
(* One verdict of the page is under way at a time, also among those of         *)
(* earlier visits.                                                            *)

Verdict == [of : Registrations, status : Statuses, onLedger : BOOLEAN, shown : BOOLEAN]

VerdictsDecide ==
    \A v \in verdicts : /\ v.status # "PENDING"
                        /\ v.onLedger => register[v.of] = v.status

OneVerdictShown == \A v, w \in verdicts : v.shown /\ w.shown => v = w

Reported ==
    /\ portal \in [open : BOOLEAN, known : [Registrations -> Statuses],
                   selected : Registrations \cup {NoRegistration}, busy : BOOLEAN,
                   result : {<<>>} \cup (Registrations \X Statuses)]
    /\ portal.result # <<>> => portal.result[2] # "PENDING"
    /\ portal.busy => portal.open

OfficerPortalIInv ==
    /\ OfficerPortalTypeOK
    /\ VerdictsDecide
    /\ OneVerdictShown
    /\ Reported
    /\ PortalShowsLedger

(* Nothing is decided and nothing reported at first.                          *)
LEMMA OfficerPortalStarts == OfficerPortalInit => OfficerPortalIInv
BY DEF OfficerPortalInit, OfficerPortalIInv, OfficerPortalTypeOK, VerdictsDecide, OneVerdictShown,
       Reported, PortalShowsLedger, ClosedPortal, Statuses

(* Every step of the portal keeps its invariant.                              *)
LEMMA OfficerPortalStepKeeps ==
    ASSUME OfficerPortalIInv, [OfficerPortalNext]_officerPortalVars
    PROVE  OfficerPortalIInv'
<1> USE DEF OfficerPortalIInv, OfficerPortalTypeOK, VerdictsDecide, OneVerdictShown, Reported,
            PortalShowsLedger
<1>1. CASE PortalOpens \/ LedgerTold
  <2>1. /\ UNCHANGED <<register, verdicts>> /\ portal'.known = register
        /\ \/ ~portal.open /\ portal' = [ClosedPortal EXCEPT !.open = TRUE, !.known = register]
           \/ portal' = [portal EXCEPT !.known = register]
    BY <1>1 DEF PortalOpens, LedgerTold, ClosedPortal
  <2>2. CASE portal' = [portal EXCEPT !.known = register]
    BY <2>1, <2>2
  <2>3. CASE ~portal.open /\ portal' = [ClosedPortal EXCEPT !.open = TRUE, !.known = register]
    <3>1. /\ portal'.known = register /\ portal'.selected = NoRegistration
          /\ portal'.busy = FALSE /\ portal'.result = <<>>
          /\ portal' \in [open : BOOLEAN, known : [Registrations -> Statuses],
                          selected : Registrations \cup {NoRegistration}, busy : BOOLEAN,
                          result : {<<>>} \cup (Registrations \X Statuses)]
      BY <2>3 DEF ClosedPortal
    <3>2. \A v \in verdicts : ~v.shown
      BY <2>3
    <3>3. QED
      BY <2>1, <3>1, <3>2
  <2>4. QED
    BY <2>1, <2>2, <2>3
<1>2. CASE PortalLeft
  <2>1. verdicts' = {[v EXCEPT !.shown = FALSE] : v \in verdicts} /\ portal' = ClosedPortal
        /\ UNCHANGED register
    BY <1>2 DEF PortalLeft
  <2>2. ASSUME NEW v \in verdicts'
        PROVE  /\ v \in Verdict /\ ~v.shown /\ v.status # "PENDING"
               /\ v.onLedger => register[v.of] = v.status
    <3>1. PICK u \in verdicts : v = [u EXCEPT !.shown = FALSE]
      BY <2>1, <2>2
    <3>2. u \in Verdict
      BY DEF Verdict
    <3>3. v \in Verdict /\ ~v.shown /\ v.status = u.status /\ v.of = u.of /\ v.onLedger = u.onLedger
      BY <3>1, <3>2 DEF Verdict
    <3>4. QED
      BY <3>3
  <2>3. OfficerPortalTypeOK' /\ Reported'
    BY <2>1, <2>2 DEF ClosedPortal, Statuses, Verdict
  <2>4. VerdictsDecide' /\ OneVerdictShown'
    BY <2>1, <2>2
  <2>5. PortalShowsLedger'
    BY <2>1, <2>2 DEF ClosedPortal
  <2>6. QED
    BY <2>3, <2>4, <2>5
<1>3. ASSUME NEW r \in Registrations \cup {NoRegistration}, Select(r)
      PROVE  OfficerPortalIInv'
  BY <1>3 DEF Select
<1>4. ASSUME NEW status \in Statuses \ {"PENDING"}, VerdictPressed(status)
      PROVE  OfficerPortalIInv'
  <2> DEFINE d == [of |-> portal.selected, status |-> status, onLedger |-> FALSE, shown |-> TRUE]
  <2>1. /\ portal.open /\ ~portal.busy /\ portal.selected \in Registrations
        /\ portal' = [portal EXCEPT !.busy = TRUE, !.result = <<>>]
        /\ verdicts' = verdicts \cup {d} /\ UNCHANGED register
    BY <1>4 DEF VerdictPressed
  <2>2. d \in Verdict /\ d.shown /\ d.status # "PENDING" /\ ~d.onLedger
    BY <2>1 DEF Verdict
  <2>3. \A v \in verdicts : ~v.shown
    BY <2>1
  <2> HIDE DEF d
  <2>4. OfficerPortalTypeOK' /\ Reported'
    BY <2>1, <2>2 DEF Verdict
  <2>5. VerdictsDecide' /\ OneVerdictShown'
    BY <2>1, <2>2, <2>3
  <2>6. PortalShowsLedger'
    BY <2>1, <2>2
  <2>7. QED
    BY <2>4, <2>5, <2>6
<1>5. ASSUME NEW v \in verdicts, VerdictLands(v)
      PROVE  OfficerPortalIInv'
  <2> DEFINE d == [v EXCEPT !.onLedger = TRUE]
  <2>1. /\ register[v.of] = "PENDING" /\ register' = [register EXCEPT ![v.of] = v.status]
        /\ verdicts' = (verdicts \ {v}) \cup {d} /\ UNCHANGED portal
    BY <1>5 DEF VerdictLands
  <2>2. v \in Verdict
    BY DEF Verdict
  <2>3. d \in Verdict /\ d.shown = v.shown /\ d.of = v.of /\ d.status = v.status
    BY <2>2 DEF Verdict
  <2> HIDE DEF d
  <2>4. v.of \in Registrations /\ v.status \in Statuses /\ v.status # "PENDING"
    BY <2>2 DEF Verdict
  <2>5. /\ register' \in [Registrations -> Statuses] /\ register'[v.of] = v.status
        /\ \A r \in Registrations : register[r] # "PENDING" => register'[r] = register[r]
    BY <2>1, <2>4
  <2>6. OfficerPortalTypeOK' /\ Reported'
    BY <2>1, <2>3, <2>5 DEF Verdict
  <2>7. VerdictsDecide'
    <3>1. ASSUME NEW u \in verdicts, u.onLedger PROVE register'[u.of] = u.status
      <4>1. u.of \in Registrations /\ register[u.of] = u.status /\ u.status # "PENDING"
        BY <3>1
      <4>2. QED
        BY <2>5, <4>1
    <3>2. QED
      BY <2>1, <2>3, <2>4, <2>5, <3>1
  <2>8. OneVerdictShown'
    BY <2>1, <2>3
  <2>9. PortalShowsLedger'
    <3>1. portal.result # <<>> => portal.result[1] \in Registrations
      OBVIOUS
    <3>2. portal.result # <<>> => register'[portal.result[1]] = portal.result[2]
      BY <2>5, <3>1
    <3>3. \A r \in Registrations : portal.known[r] # "PENDING" => portal.known[r] = register'[r]
      BY <2>5
    <3>4. portal.busy <=> \E u \in verdicts' : u.shown
      BY <2>1, <2>3
    <3>5. QED
      BY <2>1, <3>2, <3>3, <3>4
  <2>10. QED
    BY <2>6, <2>7, <2>8, <2>9
<1>6. ASSUME NEW v \in verdicts, VerdictReturns(v) \/ VerdictFails(v)
      PROVE  OfficerPortalIInv'
  <2>1. v \in Verdict
    BY DEF Verdict
  <2>2. /\ verdicts' = verdicts \ {v} /\ UNCHANGED register
        /\ \/ v.shown /\ v.onLedger
              /\ portal' = [portal EXCEPT !.busy = FALSE, !.result = <<v.of, v.status>>,
                                          !.selected = NoRegistration]
           \/ v.shown /\ portal' = [portal EXCEPT !.busy = FALSE]
           \/ ~v.shown /\ UNCHANGED portal
    BY <1>6 DEF VerdictReturns, VerdictFails
  <2>3. v.of \in Registrations /\ v.status \in Statuses /\ v.status # "PENDING"
        /\ (v.onLedger => register[v.of] = v.status)
    BY <2>1 DEF Verdict
  <2>4. /\ portal'.known = portal.known /\ portal'.open = portal.open
        /\ portal'.result = portal.result
             \/ (v.onLedger /\ portal'.result = <<v.of, v.status>>)
        /\ portal'.busy = IF v.shown THEN FALSE ELSE portal.busy
        /\ portal' \in [open : BOOLEAN, known : [Registrations -> Statuses],
                        selected : Registrations \cup {NoRegistration}, busy : BOOLEAN,
                        result : {<<>>} \cup (Registrations \X Statuses)]
    <3>1. CASE v.shown /\ v.onLedger
                /\ portal' = [portal EXCEPT !.busy = FALSE, !.result = <<v.of, v.status>>,
                                            !.selected = NoRegistration]
      <4>1. <<v.of, v.status>> \in {<<>>} \cup (Registrations \X Statuses)
        BY <2>3
      <4>2. QED
        BY <3>1, <4>1
    <3>2. CASE v.shown /\ portal' = [portal EXCEPT !.busy = FALSE]
      BY <3>2
    <3>3. CASE ~v.shown /\ UNCHANGED portal
      BY <3>3
    <3>4. QED
      BY <2>2, <3>1, <3>2, <3>3
  <2>5. OfficerPortalTypeOK' /\ Reported'
    BY <2>2, <2>3, <2>4
  <2>6. VerdictsDecide' /\ OneVerdictShown'
    BY <2>2
  <2>7. PortalShowsLedger'
    <3>1. portal'.result # <<>> => register[portal'.result[1]] = portal'.result[2]
      BY <2>3, <2>4
    <3>2. portal'.busy <=> \E u \in verdicts' : u.shown
      <4>1. CASE v.shown
        BY <2>2, <2>4, <4>1
      <4>2. CASE ~v.shown
        BY <2>2, <2>4, <4>2
      <4>3. QED
        BY <4>1, <4>2
    <3>3. QED
      BY <2>2, <2>4, <3>1, <3>2
  <2>8. QED
    BY <2>5, <2>6, <2>7
<1>7. CASE UNCHANGED officerPortalVars
  BY <1>7 DEF officerPortalVars
<1>8. QED
  BY <1>1, <1>2, <1>3, <1>4, <1>5, <1>6, <1>7 DEF OfficerPortalNext

-------------------------------------------------------------------------------
(* The metadata of the registry. A record follows the ledger because a filing  *)
(* and an intake do, all the way: FilingsFit, IntakesFit. What is on the sheet *)
(* is of one filing at a time, although filings and intakes of earlier sheets  *)
(* go on: OneFilingShown. The ledger has no more registrations than filings.  *)

Filing == [n : 1 .. MaxFiled, of : Details, id : Nat, awaited : BOOLEAN, shown : BOOLEAN]

Intake == [ref : 1 .. MaxFiled, of : Details, at : {"sent", "kept", "pending", "unavailable"},
           shown : BOOLEAN]

Sheet == [open : BOOLEAN, of : Details, step : {"review", "submitting", "submitted"},
          id : 0 .. MaxFiled, record : {"none", "sent", "kept", "pending", "unavailable"}]

MetadataRecord == [ref : Nat, of : Details]

MetadataTyped ==
    /\ MetadataTypeOK
    /\ filings \subseteq Filing /\ intakes \subseteq Intake /\ sheet \in Sheet
    /\ catalogue \in [configured : BOOLEAN, records : Seq(MetadataRecord)]

\* Filed at that id or before.
OnLedgerBy(ref, details) == \E id \in 1 .. ref : id \in DOMAIN chain /\ chain[id] = details

FilingsFit ==
    /\ \A f \in filings : f.id # 0 => f.id \in DOMAIN chain /\ chain[f.id] = f.of
    /\ \A f, g \in filings : f.n = g.n => f = g
    /\ \A id \in DOMAIN chain : \E f \in filings : f.id = id

OneFilingShown ==
    /\ \A f \in filings : f.shown /\ f.awaited =>
           sheet.open /\ sheet.step = "submitting" /\ sheet.of = f.of
    /\ \A f, g \in filings : f.shown /\ f.awaited /\ g.shown /\ g.awaited => f = g

IntakesFit ==
    \A i \in intakes :
        /\ OnLedgerBy(i.ref, i.of)
        /\ i.at = "kept" => MetadataOf(i.ref, i.of) \in ever
        /\ i.at = "unavailable" => ~catalogue.configured
        /\ i.shown => /\ sheet.open /\ sheet.step = "submitted"
                      /\ sheet.id = i.ref /\ sheet.of = i.of

MetadataIInv ==
    /\ MetadataTyped
    /\ FilingsFit
    /\ OneFilingShown
    /\ IntakesFit
    /\ RecordsFollowLedger

(* Nothing is on the ledger and nothing kept.                                 *)
LEMMA MetadataStarts == MetadataInit => MetadataIInv
<1> SUFFICES ASSUME MetadataInit PROVE MetadataIInv
  OBVIOUS
<1>1. Len(chain) = 0 /\ chain \in Seq(Details) /\ DOMAIN chain = {}
  BY DEF MetadataInit
<1>2. ClosedSheet \in Sheet /\ ClosedSheet.step = "review" /\ ClosedSheet.record = "none"
      /\ ClosedSheet.of = Demo /\ ClosedSheet.id = 0
  BY MetadataAssumption DEF ClosedSheet, Sheet, Details
<1>3. catalogue \in [configured : BOOLEAN, records : Seq(MetadataRecord)]
  <2>1. PICK c \in BOOLEAN, r \in {<<>>} : catalogue = [configured |-> c, records |-> r]
    BY DEF MetadataInit
  <2>2. r \in Seq(MetadataRecord)
    BY <2>1
  <2>3. QED
    BY <2>1, <2>2
<1>4. MetadataTypeOK
  BY <1>1, <1>2, MetadataAssumption DEF MetadataInit, MetadataTypeOK, Details
<1>5. QED
  BY <1>1, <1>2, <1>3, <1>4 DEF MetadataInit, MetadataIInv, MetadataTyped, FilingsFit,
     OneFilingShown, IntakesFit, RecordsFollowLedger

(* A filing that has not landed leaves room on the ledger: the filings that    *)
(* have landed, and it, have numbers of their own.                            *)
LEMMA RoomForFiling ==
    ASSUME MetadataIInv, NEW f \in filings, f.id = 0
    PROVE  Len(chain) < MaxFiled
<1> DEFINE FiledAs(id) == CHOOSE g \in filings : g.id = id
           number == [id \in 0 .. Len(chain) |-> FiledAs(id).n]
<1>1. Len(chain) \in Nat /\ DOMAIN chain = 1 .. Len(chain) /\ filings \subseteq Filing
  BY DEF MetadataIInv, MetadataTyped, MetadataTypeOK
<1>2. ASSUME NEW id \in 0 .. Len(chain)
      PROVE  FiledAs(id) \in filings /\ FiledAs(id).id = id
  <2>1. \E g \in filings : g.id = id
    <3>1. CASE id = 0
      BY <3>1
    <3>2. CASE id # 0
      BY <1>1, <1>2, <3>2 DEF MetadataIInv, FilingsFit
    <3>3. QED
      BY <3>1, <3>2
  <2>2. QED
    BY <2>1
<1> HIDE DEF FiledAs
<1>3. ASSUME NEW id \in 0 .. Len(chain) PROVE number[id] \in 1 .. MaxFiled
  BY <1>1, <1>2 DEF Filing
<1>4. ASSUME NEW a \in 0 .. Len(chain), NEW b \in 0 .. Len(chain), number[a] = number[b]
      PROVE  a = b
  <2>1. FiledAs(a).n = FiledAs(b).n
    BY <1>4
  <2>2. FiledAs(a) = FiledAs(b)
    BY <1>2, <2>1 DEF MetadataIInv, FilingsFit
  <2>3. QED
    BY <1>2, <2>2
<1>5. number \in Injection(0 .. Len(chain), 1 .. MaxFiled)
  <2>1. number \in [0 .. Len(chain) -> 1 .. MaxFiled]
    BY <1>3
  <2> HIDE DEF number
  <2>2. QED
    BY <1>4, <2>1 DEF Injection, IsInjective
<1> HIDE DEF number
<1>6. /\ IsFiniteSet(1 .. MaxFiled)
      /\ Cardinality(1 .. MaxFiled) = IF 1 > MaxFiled THEN 0 ELSE MaxFiled - 1 + 1
  BY FS_Interval, MetadataAssumption
<1>7. /\ IsFiniteSet(0 .. Len(chain))
      /\ Cardinality(0 .. Len(chain)) = IF 0 > Len(chain) THEN 0 ELSE Len(chain) - 0 + 1
  <2>1. 0 \in Int /\ Len(chain) \in Int
    BY <1>1
  <2>2. QED
    BY <2>1, FS_Interval
<1>8. Cardinality(0 .. Len(chain)) <= Cardinality(1 .. MaxFiled)
  BY <1>5, <1>6, <1>7, FS_Injection
<1>9. QED
  BY <1>1, <1>6, <1>7, <1>8, MetadataAssumption

(* A registration that lands comes after those there are.                     *)
LEMMA ChainGrows ==
    ASSUME MetadataIInv, NEW f \in filings, f.id = 0, chain' = Append(chain, f.of)
    PROVE  /\ chain' \in Seq(Details) /\ Len(chain') = Len(chain) + 1 /\ Len(chain') <= MaxFiled
           /\ Len(chain) \in Nat
           /\ DOMAIN chain = 1 .. Len(chain) /\ DOMAIN chain' = 1 .. Len(chain')
           /\ chain'[Len(chain')] = f.of
           /\ \A id \in DOMAIN chain : id \in DOMAIN chain' /\ chain'[id] = chain[id]
<1>1. chain \in Seq(Details) /\ Len(chain) \in Nat /\ f.of \in Details
  BY DEF MetadataIInv, MetadataTyped, MetadataTypeOK, Filing
<1>2. /\ Append(chain, f.of) \in Seq(Details) /\ Len(Append(chain, f.of)) = Len(chain) + 1
      /\ \A i \in 1 .. Len(chain) : Append(chain, f.of)[i] = chain[i]
      /\ Append(chain, f.of)[Len(chain) + 1] = f.of
  BY <1>1, AppendProperties
<1>3. Len(chain) < MaxFiled
  BY RoomForFiling
<1>4. DOMAIN chain = 1 .. Len(chain) /\ DOMAIN chain' = 1 .. Len(chain')
  BY <1>1, <1>2
<1>5. QED
  BY <1>1, <1>2, <1>3, <1>4, MetadataAssumption

(* Every step of the pages and the server keeps the invariant.                *)
LEMMA MetadataStepKeeps ==
    ASSUME MetadataIInv, [MetadataNext]_metadataVars
    PROVE  MetadataIInv'
<1> USE DEF MetadataIInv
<1>1. /\ chain \in Seq(Details) /\ Len(chain) \in Nat /\ DOMAIN chain = 1 .. Len(chain)
      /\ Len(chain) <= MaxFiled /\ draft \in Details
      /\ filings \subseteq Filing /\ intakes \subseteq Intake /\ sheet \in Sheet
      /\ catalogue \in [configured : BOOLEAN, records : Seq(MetadataRecord)]
      /\ (\A f \in filings : f.id \in 0 .. Len(chain)) /\ (\A r \in ever : r.ref \in 1 .. MaxFiled)
  BY DEF MetadataTyped, MetadataTypeOK
\* With the ledger as it is.
<1>2. ASSUME UNCHANGED chain, draft' \in Details, filings' \subseteq Filing,
             intakes' \subseteq Intake, sheet' \in Sheet,
             catalogue' \in [configured : BOOLEAN, records : Seq(MetadataRecord)],
             \A f \in filings' : f.id \in 0 .. Len(chain),
             \A r \in ever' : r.ref \in 1 .. MaxFiled
      PROVE  MetadataTyped'
  BY <1>1, <1>2 DEF MetadataTyped, MetadataTypeOK, Sheet
<1>3. CASE (\E d \in Drafts : DraftHanded(d)) \/ SheetOpens
  <2>1. PICK d \in Details :
          /\ ~sheet.open /\ sheet' = [ClosedSheet EXCEPT !.open = TRUE, !.of = d]
          /\ draft' \in Details
          /\ UNCHANGED <<chain, filings, intakes, catalogue, ever>>
    BY <1>1, <1>3 DEF DraftHanded, SheetOpens, Details
  <2>2. ClosedSheet \in Sheet
    BY MetadataAssumption DEF ClosedSheet, Sheet, Details
  <2>3. sheet' \in Sheet /\ sheet'.step = "review" /\ sheet'.record = "none"
    BY <2>1, <2>2 DEF ClosedSheet, Sheet
  <2>4. MetadataTyped'
    BY <1>1, <1>2, <2>1, <2>3
  <2>5. (\A f \in filings : ~(f.shown /\ f.awaited)) /\ (\A i \in intakes : ~i.shown)
    BY <2>1 DEF OneFilingShown, IntakesFit
  <2>6. QED
    BY <2>1, <2>3, <2>4, <2>5 DEF FilingsFit, OneFilingShown, IntakesFit, RecordsFollowLedger, OnLedgerBy
<1>4. CASE SheetLeft
  <2>1. ClosedSheet \in Sheet /\ ClosedSheet.step = "review" /\ ClosedSheet.record = "none"
    BY MetadataAssumption DEF ClosedSheet, Sheet, Details
  <2>2. \A f \in filings' : ~f.shown /\ \E g \in filings : /\ f.n = g.n /\ f.of = g.of /\ f.id = g.id
                                                          /\ f = [g EXCEPT !.shown = FALSE]
    BY <1>1, <1>4 DEF SheetLeft, Filing
  <2>3. \A i \in intakes' : ~i.shown /\ \E j \in intakes : /\ i.ref = j.ref /\ i.of = j.of /\ i.at = j.at
                                                          /\ i = [j EXCEPT !.shown = FALSE]
    BY <1>1, <1>4 DEF SheetLeft, Intake
  <2>4. filings' \subseteq Filing /\ intakes' \subseteq Intake
    <3>1. ASSUME NEW f \in filings PROVE [f EXCEPT !.shown = FALSE] \in Filing
      BY <1>1 DEF Filing
    <3>2. ASSUME NEW i \in intakes PROVE [i EXCEPT !.shown = FALSE] \in Intake
      BY <1>1 DEF Intake
    <3>3. QED
      BY <1>4, <3>1, <3>2 DEF SheetLeft
  <2>5. MetadataTyped'
    BY <1>1, <1>2, <1>4, <2>1, <2>2, <2>4 DEF SheetLeft
  <2>6. FilingsFit'
    <3>1. \A id \in DOMAIN chain : \E f \in filings' : f.id = id
      <4> SUFFICES ASSUME NEW id \in DOMAIN chain PROVE \E f \in filings' : f.id = id
        OBVIOUS
      <4>1. PICK g \in filings : g.id = id
        BY DEF FilingsFit
      <4>2. [g EXCEPT !.shown = FALSE].id = id /\ [g EXCEPT !.shown = FALSE] \in filings'
        BY <1>1, <1>4, <4>1 DEF SheetLeft, Filing
      <4>3. QED
        BY <4>2
    <3>2. \A f, g \in filings' : f.n = g.n => f = g
      <4> SUFFICES ASSUME NEW f \in filings', NEW g \in filings', f.n = g.n PROVE f = g
        OBVIOUS
      <4>1. PICK f0 \in filings : f.n = f0.n /\ f = [f0 EXCEPT !.shown = FALSE]
        BY <2>2
      <4>2. PICK g0 \in filings : g.n = g0.n /\ g = [g0 EXCEPT !.shown = FALSE]
        BY <2>2
      <4>3. f0 = g0
        <5>1. f0.n = g0.n
          BY <4>1, <4>2
        <5>2. QED
          BY <5>1 DEF FilingsFit
      <4>4. QED
        BY <4>1, <4>2, <4>3
    <3>3. \A f \in filings' : f.id # 0 => f.id \in DOMAIN chain /\ chain[f.id] = f.of
      <4> SUFFICES ASSUME NEW f \in filings', f.id # 0
                   PROVE  f.id \in DOMAIN chain /\ chain[f.id] = f.of
        OBVIOUS
      <4>1. PICK g \in filings : f.of = g.of /\ f.id = g.id
        BY <2>2
      <4>2. QED
        BY <4>1 DEF FilingsFit
    <3>4. QED
      BY <1>4, <3>1, <3>2, <3>3 DEF SheetLeft, FilingsFit
  <2>7. OneFilingShown'
    BY <2>2 DEF OneFilingShown
  <2>8. IntakesFit' /\ RecordsFollowLedger'
    BY <1>4, <2>1, <2>3 DEF SheetLeft, IntakesFit, OnLedgerBy, RecordsFollowLedger
  <2>9. QED
    BY <2>5, <2>6, <2>7, <2>8
<1>5. CASE \E n \in 1 .. MaxFiled : Submits(n)
  <2>1. PICK n \in 1 .. MaxFiled : Submits(n)
    BY <1>5
  <2> DEFINE f0 == [n |-> n, of |-> sheet.of, id |-> 0, awaited |-> TRUE, shown |-> TRUE]
  <2>2. /\ f0 \in Filing /\ f0.id = 0 /\ f0.n = n /\ f0.of = sheet.of
        /\ filings' = filings \cup {f0} /\ \A f \in filings : f.n # n
    BY <1>1, <2>1 DEF Submits, Filing, Sheet
  <2> HIDE DEF f0
  <2>3. /\ sheet' \in Sheet /\ sheet'.step = "submitting" /\ sheet'.record = "none"
        /\ sheet'.of = sheet.of /\ sheet'.open
        /\ sheet.step = "review" /\ UNCHANGED <<chain, draft, intakes, catalogue, ever>>
    BY <1>1, <2>1 DEF Submits, Sheet
  <2>4. (\A f \in filings : ~(f.shown /\ f.awaited)) /\ (\A i \in intakes : ~i.shown)
    BY <2>3 DEF OneFilingShown, IntakesFit
  <2>5. MetadataTyped'
    BY <1>1, <1>2, <2>2, <2>3
  <2>6. FilingsFit'
    BY <2>2, <2>3 DEF FilingsFit
  <2>7. OneFilingShown'
    BY <2>2, <2>3, <2>4 DEF OneFilingShown
  <2>8. IntakesFit' /\ RecordsFollowLedger'
    BY <2>3, <2>4 DEF IntakesFit, OnLedgerBy, RecordsFollowLedger
  <2>9. QED
    BY <2>5, <2>6, <2>7, <2>8
<1>6. CASE \E f \in filings : FilingLands(f)
  <2>1. PICK f \in filings : FilingLands(f)
    BY <1>6
  <2> DEFINE g == [f EXCEPT !.id = Len(chain')]
  <2>2. f.id = 0 /\ chain' = Append(chain, f.of)
    BY <2>1 DEF FilingLands
  <2>3. /\ chain' \in Seq(Details) /\ Len(chain') = Len(chain) + 1 /\ Len(chain') <= MaxFiled
        /\ DOMAIN chain' = 1 .. Len(chain') /\ chain'[Len(chain')] = f.of
        /\ \A id \in DOMAIN chain : id \in DOMAIN chain' /\ chain'[id] = chain[id]
    BY <2>2, ChainGrows
  <2>4. /\ g \in Filing /\ g.n = f.n /\ g.of = f.of /\ g.awaited = f.awaited /\ g.shown = f.shown
        /\ g.id = Len(chain')
    BY <1>1, <2>3 DEF Filing
  <2>5. \A h : h \in filings' <=> h = g \/ (h \in filings /\ h # f)
    BY <2>1 DEF FilingLands, Put
  <2> HIDE DEF g
  <2>6. UNCHANGED <<draft, sheet, intakes, catalogue, ever>>
    BY <2>1 DEF FilingLands
  <2>7. MetadataTyped'
    <3>1. \A h \in filings' : h \in Filing /\ h.id \in 0 .. Len(chain')
      BY <1>1, <2>3, <2>4, <2>5
    <3>2. QED
      BY <1>1, <2>3, <2>6, <3>1 DEF MetadataTyped, MetadataTypeOK, Sheet
  <2>8. FilingsFit'
    <3>1. \A h \in filings' : h.id # 0 => h.id \in DOMAIN chain' /\ chain'[h.id] = h.of
      BY <1>1, <2>3, <2>4, <2>5 DEF FilingsFit
    <3>2. \A h, k \in filings' : h.n = k.n => h = k
      BY <2>4, <2>5 DEF FilingsFit
    <3>3. \A id \in DOMAIN chain' : \E h \in filings' : h.id = id
      <4> SUFFICES ASSUME NEW id \in DOMAIN chain' PROVE \E h \in filings' : h.id = id
        OBVIOUS
      <4>1. CASE id = Len(chain')
        BY <4>1, <2>4, <2>5
      <4>2. CASE id # Len(chain')
        <5>1. id \in DOMAIN chain /\ id # 0
          BY <1>1, <2>3, <4>2
        <5>2. QED
          BY <2>2, <2>5, <5>1 DEF FilingsFit
      <4>3. QED
        BY <4>1, <4>2
    <3>4. QED
      BY <3>1, <3>2, <3>3 DEF FilingsFit
  <2>9. OneFilingShown'
    BY <2>4, <2>5, <2>6 DEF OneFilingShown
  <2>10. IntakesFit' /\ RecordsFollowLedger'
    BY <2>3, <2>6 DEF IntakesFit, OnLedgerBy, RecordsFollowLedger
  <2>11. QED
    BY <2>7, <2>8, <2>9, <2>10
<1>7. CASE \E f \in filings : FilingTold(f)
  <2>1. PICK f \in filings : FilingTold(f)
    BY <1>7
  <2> DEFINE g == [f EXCEPT !.awaited = FALSE]
             i0 == [ref |-> Len(chain), of |-> f.of, at |-> "sent", shown |-> f.shown]
  <2>2. /\ f.awaited /\ f.id # 0 /\ draft' = Demo /\ intakes' = intakes \cup {i0}
        /\ UNCHANGED <<chain, catalogue, ever>>
    BY <2>1 DEF FilingTold
  <2>3. /\ f.id \in 1 .. Len(chain) /\ chain[f.id] = f.of /\ Len(chain) \in 1 .. MaxFiled
        /\ f.of \in Details /\ f.shown \in BOOLEAN
    BY <1>1, <2>2, MetadataAssumption DEF FilingsFit, Filing
  <2>4. g \in Filing /\ g.n = f.n /\ g.of = f.of /\ ~g.awaited /\ g.id = f.id
    BY <1>1 DEF Filing
  <2>5. \A h : h \in filings' <=> h = g \/ (h \in filings /\ h # f)
    BY <2>1 DEF FilingTold, Put
  <2>6. /\ i0 \in Intake /\ i0.ref = Len(chain) /\ i0.of = f.of /\ i0.at = "sent"
        /\ i0.shown = f.shown /\ OnLedgerBy(i0.ref, i0.of)
    BY <1>1, <2>3 DEF Intake, OnLedgerBy
  <2>7. f.shown => /\ sheet'.step = "submitted" /\ sheet'.id = Len(chain) /\ sheet'.record = "sent"
                   /\ sheet'.of = sheet.of /\ sheet'.open = sheet.open /\ sheet' \in Sheet
    <3> SUFFICES ASSUME f.shown
                 PROVE  /\ sheet'.step = "submitted" /\ sheet'.id = Len(chain) /\ sheet'.record = "sent"
                        /\ sheet'.of = sheet.of /\ sheet'.open = sheet.open /\ sheet' \in Sheet
      OBVIOUS
    <3>1. sheet' = [sheet EXCEPT !.step = "submitted", !.id = Len(chain), !.record = "sent"]
      BY <2>1 DEF FilingTold, OnSheet
    <3>2. Len(chain) \in 0 .. MaxFiled
      BY <2>3, MetadataAssumption
    <3>3. QED
      BY <1>1, <3>1, <3>2 DEF Sheet
  <2>8. ~f.shown => sheet' = sheet
    BY <2>1 DEF FilingTold, OnSheet
  <2>9. f.shown => /\ sheet.of = f.of /\ sheet.open /\ sheet.step = "submitting"
                   /\ (\A h \in filings : h.shown /\ h.awaited => h = f)
                   /\ (\A i \in intakes : ~i.shown)
    BY <2>2 DEF OneFilingShown, IntakesFit
  <2> HIDE DEF g, i0
  <2>10. MetadataTyped'
    <3>1. \A h \in filings' : h \in Filing /\ h.id \in 0 .. Len(chain)
      BY <1>1, <2>4, <2>5
    <3>2. sheet' \in Sheet /\ draft' \in Details /\ intakes' \subseteq Intake
      BY <1>1, <2>2, <2>3, <2>6, <2>7, <2>8 DEF Details
    <3>3. QED
      BY <1>1, <1>2, <2>2, <3>1, <3>2
  <2>11. FilingsFit'
    BY <2>2, <2>4, <2>5 DEF FilingsFit
  <2>12. OneFilingShown'
    BY <2>4, <2>5, <2>7, <2>8, <2>9 DEF OneFilingShown
  <2>13. IntakesFit'
    <3>1. \A i \in intakes' : i = i0 \/ i \in intakes
      BY <2>2
    <3>2. \A i \in intakes' : i.shown => sheet'.open /\ sheet'.step = "submitted"
                                         /\ sheet'.id = i.ref /\ sheet'.of = i.of
      BY <2>6, <2>7, <2>8, <2>9, <3>1 DEF IntakesFit
    <3>3. \A i \in intakes' : /\ OnLedgerBy(i.ref, i.of)
                              /\ i.at = "kept" => MetadataOf(i.ref, i.of) \in ever
                              /\ i.at = "unavailable" => ~catalogue.configured
      BY <2>6, <3>1 DEF IntakesFit
    <3>4. QED
      BY <2>2, <3>2, <3>3 DEF IntakesFit, OnLedgerBy
  <2>14. RecordsFollowLedger'
    BY <1>1, <2>2, <2>3, <2>7, <2>8 DEF RecordsFollowLedger
  <2>15. QED
    BY <2>10, <2>11, <2>12, <2>13, <2>14
<1>8. CASE \E f \in filings : FilingFails(f)
  <2>1. PICK f \in filings : FilingFails(f)
    BY <1>8
  <2> DEFINE g == [f EXCEPT !.awaited = FALSE, !.shown = FALSE]
  <2>2. f.awaited /\ UNCHANGED <<chain, draft, intakes, catalogue, ever>>
    BY <2>1 DEF FilingFails
  <2>3. g \in Filing /\ g.n = f.n /\ g.of = f.of /\ ~g.awaited /\ g.id = f.id
    BY <1>1 DEF Filing
  <2>4. \A h : h \in filings' <=> h = g \/ (h \in filings /\ h # f)
    BY <2>1 DEF FilingFails, Put
  <2>5. f.shown => /\ sheet'.step = "review" /\ sheet' \in Sheet /\ sheet'.of = sheet.of
                   /\ sheet'.record = sheet.record /\ sheet'.id = sheet.id /\ sheet'.open = sheet.open
    BY <1>1, <2>1 DEF FilingFails, OnSheet, Sheet
  <2>6. ~f.shown => sheet' = sheet
    BY <2>1 DEF FilingFails, OnSheet
  <2>7. f.shown => (\A h \in filings : h.shown /\ h.awaited => h = f) /\ (\A i \in intakes : ~i.shown)
    BY <2>2 DEF OneFilingShown, IntakesFit
  <2> HIDE DEF g
  <2>8. MetadataTyped'
    <3>1. \A h \in filings' : h \in Filing /\ h.id \in 0 .. Len(chain)
      BY <1>1, <2>3, <2>4
    <3>2. QED
      BY <1>1, <1>2, <2>2, <2>5, <2>6, <3>1
  <2>9. FilingsFit'
    BY <2>2, <2>3, <2>4 DEF FilingsFit
  <2>10. OneFilingShown'
    BY <2>3, <2>4, <2>5, <2>6, <2>7 DEF OneFilingShown
  <2>11. IntakesFit' /\ RecordsFollowLedger'
    BY <2>2, <2>5, <2>6, <2>7 DEF IntakesFit, OnLedgerBy, RecordsFollowLedger
  <2>12. QED
    BY <2>8, <2>9, <2>10, <2>11
<1>9. CASE \E i \in intakes, answer \in {"kept", "unavailable", "pending"} : IntakeEnds(i, answer)
  <2>1. PICK i \in intakes, answer \in {"kept", "unavailable", "pending"} : IntakeEnds(i, answer)
    BY <1>9
  <2>2. intakes' \subseteq intakes /\ UNCHANGED <<chain, draft, filings, catalogue, ever>>
    BY <2>1 DEF IntakeEnds
  <2>3. answer = "pending" \/ answer = i.at
    BY <2>1 DEF IntakeEnds, AnswersTo
  <2>4. i.shown => /\ sheet'.record = answer /\ sheet' \in Sheet /\ sheet'.of = sheet.of
                   /\ sheet'.step = sheet.step /\ sheet'.id = sheet.id /\ sheet'.open = sheet.open
    BY <1>1, <2>1 DEF IntakeEnds, OnSheet, Sheet
  <2>5. ~i.shown => sheet' = sheet
    BY <2>1 DEF IntakeEnds, OnSheet
  <2>6. /\ sheet'.of = sheet.of /\ sheet'.step = sheet.step /\ sheet'.id = sheet.id
        /\ sheet'.open = sheet.open /\ sheet' \in Sheet
    BY <1>1, <2>4, <2>5
  <2>7. MetadataTyped'
    BY <1>1, <1>2, <2>2, <2>6
  <2>8. FilingsFit' /\ OneFilingShown' /\ IntakesFit'
    BY <2>2, <2>6 DEF FilingsFit, OneFilingShown, IntakesFit, OnLedgerBy
  <2>9. i.shown => sheet.id = i.ref /\ sheet.of = i.of
    BY DEF IntakesFit
  <2>10. RecordsFollowLedger'
    <3>1. sheet'.record = "kept" => MetadataOf(sheet'.id, sheet'.of) \in ever'
      BY <2>2, <2>3, <2>4, <2>5, <2>6, <2>9 DEF IntakesFit, RecordsFollowLedger
    <3>2. sheet'.record = "unavailable" => ~catalogue'.configured
      BY <2>2, <2>3, <2>4, <2>5 DEF IntakesFit, RecordsFollowLedger
    <3>3. QED
      BY <2>2, <2>6, <3>1, <3>2 DEF RecordsFollowLedger
  <2>11. QED
    BY <2>7, <2>8, <2>10
\* A record kept, of details that are on the ledger at its id or before.
<1>10. ASSUME NEW ref \in 1 .. MaxFiled, NEW of \in Details, Kept(ref, of)
       PROVE  /\ catalogue' \in [configured : BOOLEAN, records : Seq(MetadataRecord)]
              /\ catalogue'.configured = catalogue.configured
              /\ \A r \in ever' : r = MetadataOf(ref, of) \/ r \in ever
              /\ ever \subseteq ever' /\ MetadataOf(ref, of) \in ever'
              /\ \A r \in ever' : r.ref \in 1 .. MaxFiled
  <2>1. MetadataOf(ref, of) \in MetadataRecord /\ MetadataOf(ref, of).ref = ref
    BY <1>10, MetadataAssumption DEF MetadataOf, MetadataRecord
  <2>2. Append(catalogue.records, MetadataOf(ref, of)) \in Seq(MetadataRecord)
    BY <1>1, <2>1, AppendProperties
  <2>3. catalogue' = [catalogue EXCEPT !.records = Append(catalogue.records, MetadataOf(ref, of))]
        /\ ever' = ever \cup {MetadataOf(ref, of)}
    BY <1>10 DEF Kept
  <2>4. catalogue' \in [configured : BOOLEAN, records : Seq(MetadataRecord)]
        /\ catalogue'.configured = catalogue.configured
    BY <1>1, <2>2, <2>3
  <2>5. QED
    BY <1>1, <2>1, <2>3, <2>4
<1>11. CASE \E i \in intakes, valid \in BOOLEAN : IntakeServed(i, valid)
  <2>1. PICK i \in intakes, valid \in BOOLEAN : IntakeServed(i, valid)
    BY <1>11
  <2>2. UNCHANGED <<chain, draft, sheet, filings>> /\ i.at = "sent"
    BY <2>1 DEF IntakeServed
  <2>3. i.ref \in 1 .. MaxFiled /\ i.of \in Details
    BY <1>1 DEF Intake
  <2>4. CASE Accepted(valid)
    <3>1. Kept(i.ref, i.of) /\ intakes' = Put(intakes, i, [i EXCEPT !.at = "kept"])
      BY <2>1, <2>4 DEF IntakeServed
    <3>2. \A j \in intakes' : j \in intakes \/
            (/\ j \in Intake /\ j.at = "kept" /\ j.ref = i.ref /\ j.of = i.of /\ j.shown = i.shown)
      BY <1>1, <3>1 DEF Put, Intake
    <3>3. MetadataTyped'
      BY <1>1, <1>2, <1>10, <2>2, <2>3, <3>1, <3>2
    <3>4. FilingsFit' /\ OneFilingShown'
      BY <2>2 DEF FilingsFit, OneFilingShown
    <3>5. IntakesFit'
      <4> SUFFICES ASSUME NEW j \in intakes'
                   PROVE  /\ OnLedgerBy(j.ref, j.of)
                          /\ j.at = "kept" => MetadataOf(j.ref, j.of) \in ever'
                          /\ j.at = "unavailable" => ~catalogue.configured
                          /\ j.shown => /\ sheet.open /\ sheet.step = "submitted"
                                        /\ sheet.id = j.ref /\ sheet.of = j.of
        BY <1>10, <2>2, <2>3, <3>1 DEF IntakesFit, OnLedgerBy
      <4>1. CASE j \in intakes
        BY <1>10, <2>3, <3>1, <4>1 DEF IntakesFit
      <4>2. CASE j \notin intakes
        BY <1>10, <2>3, <3>1, <3>2, <4>2 DEF IntakesFit
      <4>3. QED
        BY <4>1, <4>2
    <3>6. RecordsFollowLedger'
      <4>1. OnLedgerBy(i.ref, i.of)
        BY DEF IntakesFit
      <4>2. \A r \in ever' : \E id \in 1 .. r.ref : id \in DOMAIN chain /\ chain[id] = r.of
        <5>1. MetadataOf(i.ref, i.of).ref = i.ref /\ MetadataOf(i.ref, i.of).of = i.of
          BY DEF MetadataOf
        <5>2. \A r \in ever' : r = MetadataOf(i.ref, i.of) \/ r \in ever
          BY <1>10, <2>3, <3>1
        <5>3. QED
          BY <4>1, <5>1, <5>2 DEF RecordsFollowLedger, OnLedgerBy
      <4>3. QED
        BY <1>10, <2>2, <2>3, <3>1, <4>2 DEF RecordsFollowLedger
    <3>7. QED
      BY <3>3, <3>4, <3>5, <3>6
  <2>5. CASE ~Accepted(valid)
    <3>1. /\ UNCHANGED <<catalogue, ever>>
          /\ intakes' = Put(intakes, i,
                 [i EXCEPT !.at = IF catalogue.configured THEN "pending" ELSE "unavailable"])
      BY <2>1, <2>5 DEF IntakeServed
    <3>2. \A j \in intakes' : j \in intakes \/
            (/\ j \in Intake /\ j.at \in {"pending", "unavailable"}
             /\ j.at = "unavailable" => ~catalogue.configured
             /\ j.ref = i.ref /\ j.of = i.of /\ j.shown = i.shown)
      BY <1>1, <3>1 DEF Put, Intake
    <3>3. MetadataTyped'
      BY <1>1, <1>2, <2>2, <3>1, <3>2
    <3>4. FilingsFit' /\ OneFilingShown' /\ RecordsFollowLedger'
      BY <2>2, <3>1 DEF FilingsFit, OneFilingShown, RecordsFollowLedger
    <3>5. IntakesFit'
      BY <2>2, <3>1, <3>2 DEF IntakesFit, OnLedgerBy
    <3>6. QED
      BY <3>3, <3>4, <3>5
  <2>6. QED
    BY <2>4, <2>5
<1>12. CASE \E ref \in 1 .. MaxFiled : OfficerCatalogues(ref)
  <2>1. PICK ref \in 1 .. MaxFiled : OfficerCatalogues(ref)
    BY <1>12
  <2>2. /\ ref \in DOMAIN chain /\ Kept(ref, chain[ref]) /\ chain[ref] \in Details
        /\ UNCHANGED <<chain, draft, sheet, filings, intakes>>
    BY <1>1, <2>1, ElementOfSeq DEF OfficerCatalogues
  <2>3. MetadataTyped'
    BY <1>1, <1>2, <1>10, <2>2
  <2>4. FilingsFit' /\ OneFilingShown' /\ IntakesFit'
    BY <1>10, <2>2 DEF FilingsFit, OneFilingShown, IntakesFit, OnLedgerBy
  <2>5. \A r \in ever' : \E id \in 1 .. r.ref : id \in DOMAIN chain /\ chain[id] = r.of
    <3>1. ref \in 1 .. ref
      OBVIOUS
    <3>2. MetadataOf(ref, chain[ref]).ref = ref /\ MetadataOf(ref, chain[ref]).of = chain[ref]
      BY DEF MetadataOf
    <3>3. \A r \in ever' : r = MetadataOf(ref, chain[ref]) \/ r \in ever
      BY <1>10, <2>2
    <3>4. QED
      BY <2>2, <3>1, <3>2, <3>3 DEF RecordsFollowLedger
  <2>6. RecordsFollowLedger'
    BY <1>10, <2>2, <2>5 DEF RecordsFollowLedger
  <2>7. QED
    BY <2>3, <2>4, <2>6
<1>13. CASE RegistryRestarts
  <2>1. /\ catalogue' \in [configured : BOOLEAN, records : Seq(MetadataRecord)]
        /\ catalogue'.configured = catalogue.configured
        /\ UNCHANGED <<chain, draft, sheet, filings, intakes, ever>>
    <3>1. <<>> \in Seq(MetadataRecord)
      OBVIOUS
    <3>2. QED
      BY <1>1, <1>13, <3>1 DEF RegistryRestarts
  <2>2. MetadataTyped'
    BY <1>1, <1>2, <2>1
  <2>3. QED
    BY <2>1, <2>2 DEF FilingsFit, OneFilingShown, IntakesFit, RecordsFollowLedger, OnLedgerBy
<1>14. CASE UNCHANGED metadataVars
  BY <1>14 DEF metadataVars, MetadataTyped, MetadataTypeOK, FilingsFit, OneFilingShown, IntakesFit,
     RecordsFollowLedger, OnLedgerBy, Sheet
<1>15. QED
  BY <1>3, <1>4, <1>5, <1>6, <1>7, <1>8, <1>9, <1>11, <1>12, <1>13, <1>14 DEF MetadataNext

-------------------------------------------------------------------------------
(* The check made in the browser. Frames go on with whatever session is there, *)
(* so what is counted must fit both the session that is shown and the one the *)
(* next frame will take: Fits.                                                *)

Fits(s) ==
    /\ s.state \in {"requesting_camera", "camera_ready"} => seen = 0
    /\ s.state = "challenge_active" => seen = s.at /\ s.at < Movements
    /\ s.state = "liveness_passed" => seen = Movements

\* Every start that awaits something is one of the starts.
Waiting ==
    {a \in [models : 0..MaxStarts, camera : 0..MaxStarts, detector : 0..MaxDetections] :
        a.models + a.camera <= MaxStarts}

IdentityIInv ==
    /\ IdentityTypeOK
    /\ awaited \in Waiting
    /\ Fits(check.shown) /\ Fits(check.pending)
    /\ PassRestsOnChecks

Checks == [shown : Sessions, pending : Sessions, camera : BOOLEAN, provider : BOOLEAN,
           finished : BOOLEAN]

(* The session a component starts with.                                       *)
LEMMA NewSessionIsSession == NewSession \in Sessions /\ NewSession.state = "idle"
BY IdentityAssumption DEF NewSession, Sessions, Reasons

(* The first session fits, with nothing counted.                              *)
LEMMA IdentityStarts == IdentityInit => IdentityIInv
<1>1. 0 \in 0..MaxStarts /\ 0 \in 0..MaxDetections /\ 0 \in 0..Movements /\ 0 + 0 <= MaxStarts
  BY IdentityAssumption
<1>2. QED
  BY <1>1, NewSessionIsSession DEF IdentityInit, IdentityIInv, IdentityTypeOK, Fits,
     PassRestsOnChecks, NoReport, Waiting

(* What transitionLiveness makes of a session that fits, for every event but a *)
(* movement, fits as well.                                                    *)
LEMMA AfterFits ==
    ASSUME NEW s \in Sessions, Fits(s),
           NEW event \in {"camera_ready", "camera_denied", "camera_unavailable", "quality_ok",
                          "last_attempt"}
    PROVE  After(s, event) \in Sessions /\ Fits(After(s, event))
BY IdentityAssumption DEF After, Fits, Sessions, Reasons, Passes

(* A movement counts one, and the last of them passes.                        *)
LEMMA MovementFits ==
    ASSUME NEW s \in Sessions, Fits(s), s.state = "challenge_active", seen' = seen + 1
    PROVE  /\ seen' \in 0..Movements
           /\ After(s, "movement") \in Sessions /\ Fits(After(s, "movement"))'
<1>1. seen = s.at /\ s.at < Movements /\ s.at \in 0..Movements /\ seen' = s.at + 1
  BY DEF Fits, Sessions
<1>2. CASE s.at + 1 >= Movements
  <2>1. After(s, "movement") = [s EXCEPT !.state = "liveness_passed"]
    BY <1>2 DEF After, Passes
  <2>3. seen' = Movements
    BY <1>1, <1>2, IdentityAssumption
  <2>2. QED
    BY <1>1, <2>1, <2>3, IdentityAssumption DEF Fits, Sessions
<1>3. CASE ~(s.at + 1 >= Movements)
  <2>1. After(s, "movement") = [s EXCEPT !.at = @ + 1]
    BY <1>3 DEF After, Passes
  <2>4. s.at + 1 \in 0..Movements /\ s.at + 1 < Movements
    BY <1>1, <1>3, IdentityAssumption
  <2>2. [s EXCEPT !.at = @ + 1].at = s.at + 1 /\ [s EXCEPT !.at = @ + 1].state = "challenge_active"
        /\ [s EXCEPT !.at = @ + 1] \in Sessions
    BY <2>4 DEF Sessions
  <2>3. QED
    BY <1>1, <2>1, <2>2, <2>4 DEF Fits
<1>4. QED
  BY <1>2, <1>3

(* Every step of the check keeps its invariant.                               *)
LEMMA IdentityStepKeeps ==
    ASSUME IdentityIInv, [IdentityNext]_identityVars
    PROVE  IdentityIInv'
<1> USE DEF IdentityIInv
<1>1. /\ check \in Checks /\ awaited.models \in 0..MaxStarts /\ awaited.camera \in 0..MaxStarts
      /\ awaited \in Waiting
      /\ place \in {"none", "inactive", "requesting", "active", "refused"}
      /\ seen \in 0..Movements
      /\ report \in [passed : BOOLEAN, seen : 0..Movements, located : BOOLEAN]
      /\ Movements \in Nat /\ MaxStarts \in Nat /\ MaxDetections \in Nat
  BY IdentityAssumption DEF IdentityTypeOK, Checks
<1>22. ASSUME NEW m \in 0..MaxStarts, NEW c \in 0..MaxStarts, NEW d \in 0..MaxDetections,
             m + c <= MaxStarts,
             awaited' = [awaited EXCEPT !.models = m, !.camera = c, !.detector = d]
      PROVE  awaited' \in Waiting
  BY <1>22 DEF Waiting
<1>21. awaited.detector \in 0..MaxDetections /\ awaited.models + awaited.camera <= MaxStarts
      /\ \A m, c, d : /\ [awaited EXCEPT !.models = m] =
                           [awaited EXCEPT !.models = m, !.camera = awaited.camera,
                                           !.detector = awaited.detector]
                      /\ [awaited EXCEPT !.camera = c] =
                           [awaited EXCEPT !.models = awaited.models, !.camera = c,
                                           !.detector = awaited.detector]
                      /\ [awaited EXCEPT !.models = m, !.camera = c] =
                           [awaited EXCEPT !.models = m, !.camera = c,
                                           !.detector = awaited.detector]
                      /\ [awaited EXCEPT !.detector = d] =
                           [awaited EXCEPT !.models = awaited.models, !.camera = awaited.camera,
                                           !.detector = d]
  BY DEF Waiting
<1>23. /\ awaited.models \in Nat /\ awaited.camera \in Nat /\ awaited.detector \in Nat
       /\ awaited.models + awaited.camera <= MaxStarts /\ awaited.detector <= MaxDetections
       /\ MaxStarts \in Nat /\ MaxDetections \in Nat
  <2>1. /\ awaited.models \in 0..MaxStarts /\ awaited.camera \in 0..MaxStarts
        /\ awaited.detector \in 0..MaxDetections
        /\ awaited.models + awaited.camera <= MaxStarts
    BY DEF Waiting
  <2>2. QED
    BY <2>1, IdentityAssumption
<1>2. ASSUME check' \in Checks,
             awaited' \in Waiting,
             place' \in {"none", "inactive", "requesting", "active", "refused"},
             seen' \in 0..Movements,
             report' \in [passed : BOOLEAN, seen : 0..Movements, located : BOOLEAN]
      PROVE  IdentityTypeOK' /\ (awaited \in Waiting)'
  BY <1>2 DEF IdentityTypeOK, Checks, Waiting
\* A session that fits is committed.
<1>3. ASSUME NEW s \in Sessions, Fits(s)', seen' \in 0..Movements,
             NEW lit \in BOOLEAN, NEW changed \in BOOLEAN, NEW finished \in BOOLEAN,
             check' = Committed(check, s, lit, changed, finished)
      PROVE  check' \in Checks /\ Fits(check.shown)' /\ Fits(check.pending)'
  <2>1. /\ check' \in Checks /\ check'.shown = s
        /\ check'.pending = IF finished /\ changed THEN NewSession ELSE s
    BY <1>1, <1>3, NewSessionIsSession DEF Committed, Checks
  <2>2. QED
    BY <1>3, <2>1, NewSessionIsSession DEF Fits
<1>4. ASSUME NEW s \in Sessions, Fits(s)', seen' \in 0..Movements,
             NEW lit \in BOOLEAN, NEW changed \in BOOLEAN,
             Settles(s, lit, changed),
             awaited' \in Waiting
      PROVE  IdentityIInv'
  <2>1. /\ check' = Committed(check, s, lit, changed, check.finished)
        /\ place' \in Watched(s, changed, check.finished) /\ UNCHANGED report
    BY <1>4 DEF Settles
  <2>2. check.finished \in BOOLEAN
    BY <1>1 DEF Checks
  <2>3. check' \in Checks /\ Fits(check.shown)' /\ Fits(check.pending)'
    BY <1>3, <1>4, <2>1, <2>2
  <2>4. place' \in {"none", "inactive", "requesting", "active", "refused"}
    BY <1>1, <2>1, IdentityAssumption DEF Watched
  <2>5. PassRestsOnChecks'
    BY <2>1 DEF PassRestsOnChecks
  <2>6. IdentityTypeOK' /\ (awaited \in Waiting)'
    BY <1>1, <1>2, <1>4, <2>1, <2>3, <2>4
  <2>7. QED
    BY <2>3, <2>5, <2>6
<1>5. ASSUME NEW passed \in BOOLEAN, NEW s \in Sessions, Fits(s), Finish(passed, s),
             passed => s.state = "liveness_passed" /\ place = "active",
             awaited' \in Waiting,
             UNCHANGED seen
      PROVE  IdentityIInv'
  <2>1. check.camera \in BOOLEAN /\ check.finished \in BOOLEAN
    BY <1>1 DEF Checks
  <2>2. Fits(s)' /\ seen' \in 0..Movements
    BY <1>1, <1>5 DEF Fits
  <2>3. CASE check.finished
    BY <1>4, <1>5, <2>1, <2>2, <2>3 DEF Finish
  <2>4. CASE ~check.finished
    <3>1. /\ check' = Committed(check, s, FALSE, check.camera, TRUE) /\ place' = "none"
          /\ report' = [passed |-> passed, seen |-> seen, located |-> place = "active"]
      BY <1>5, <2>4 DEF Finish
    <3>2. check' \in Checks /\ Fits(check.shown)' /\ Fits(check.pending)'
      BY <1>3, <2>1, <2>2, <3>1
    <3>3. passed => seen = Movements
      BY <1>5 DEF Fits
    <3>4. report' \in [passed : BOOLEAN, seen : 0..Movements, located : BOOLEAN]
      BY <1>1, <3>1
    <3>5. PassRestsOnChecks'
      BY <1>5, <3>1, <3>3 DEF PassRestsOnChecks
    <3>6. IdentityTypeOK' /\ (awaited \in Waiting)'
      BY <1>1, <1>2, <1>5, <2>2, <3>1, <3>2, <3>4
    <3>7. QED
      BY <3>2, <3>5, <3>6
  <2>5. QED
    BY <2>3, <2>4
<1>6. CASE StartCheck
  <2>1. /\ check' = [check EXCEPT !.finished = FALSE]
        /\ awaited' = [awaited EXCEPT !.models = @ + 1]
        /\ awaited.models + awaited.camera < MaxStarts
        /\ UNCHANGED <<place, seen, report>>
    BY <1>6 DEF StartCheck, Starting
  <2>2. check' \in Checks /\ check'.shown = check.shown /\ check'.pending = check.pending
    BY <1>1, <2>1 DEF Checks
  <2>3. awaited.models + 1 \in 0..MaxStarts /\ (awaited.models + 1) + awaited.camera <= MaxStarts
    BY <1>1, <2>1
  <2>4. awaited' \in Waiting
    BY <1>21, <1>22, <1>1, <2>1, <2>3
  <2>5. IdentityTypeOK' /\ (awaited \in Waiting)'
    BY <1>1, <1>2, <2>1, <2>2, <2>4
  <2>6. QED
    BY <2>1, <2>2, <2>5 DEF Fits, PassRestsOnChecks
<1>7. CASE RetryCheck
  <2>1. /\ check' = [check EXCEPT !.camera = FALSE, !.finished = FALSE,
                                  !.pending = IF check.camera THEN check.shown ELSE @]
        /\ awaited' = [awaited EXCEPT !.models = @ + 1] /\ place' = "none"
        /\ awaited.models + awaited.camera < MaxStarts
        /\ UNCHANGED <<seen, report>>
    BY <1>7 DEF RetryCheck, Starting
  <2>2. check' \in Checks /\ check'.shown = check.shown
        /\ check'.pending \in {check.shown, check.pending}
    BY <1>1, <2>1 DEF Checks
  <2>3. awaited.models + 1 \in 0..MaxStarts /\ (awaited.models + 1) + awaited.camera <= MaxStarts
    BY <1>1, <2>1
  <2>4. awaited' \in Waiting
    BY <1>21, <1>22, <1>1, <2>1, <2>3
  <2>5. IdentityTypeOK' /\ (awaited \in Waiting)'
    BY <1>1, <1>2, <2>1, <2>2, <2>4
  <2>6. QED
    BY <2>1, <2>2, <2>5 DEF Fits, PassRestsOnChecks
<1>8. CASE ModelsMissing
  <2>1. /\ check' = [check EXCEPT !.provider = FALSE, !.shown = NewSession,
                                  !.pending = IF check.finished THEN @ ELSE NewSession]
        /\ awaited' = [awaited EXCEPT !.models = @ - 1] /\ awaited.models > 0
        /\ UNCHANGED <<place, seen, report>>
    BY <1>8 DEF ModelsMissing
  <2>2. check' \in Checks /\ check'.shown = NewSession
        /\ check'.pending \in {NewSession, check.pending}
    BY <1>1, <2>1, NewSessionIsSession DEF Checks
  <2>3. awaited.models - 1 \in 0..MaxStarts /\ (awaited.models - 1) + awaited.camera <= MaxStarts
    <3>1. awaited.models > 0
      BY <2>1
    <3>2. QED
      BY <1>23, <3>1
  <2>4. awaited' \in Waiting
    BY <1>21, <1>22, <1>1, <2>1, <2>3
  <2>5. IdentityTypeOK' /\ (awaited \in Waiting)'
    BY <1>1, <1>2, <2>1, <2>2, <2>4
  <2>6. QED
    BY <2>1, <2>2, <2>5, NewSessionIsSession DEF Fits, PassRestsOnChecks
<1>9. CASE ModelsLoaded
  <2> DEFINE s == After(NewSession, "start")
  <2>1. /\ awaited' = [awaited EXCEPT !.models = @ - 1, !.camera = @ + 1]
        /\ check' = [check EXCEPT !.provider = TRUE, !.shown = s, !.pending = s]
        /\ awaited.models > 0 /\ seen' = 0
        /\ UNCHANGED <<place, report>>
    BY <1>9 DEF ModelsLoaded
  <2>2. s \in Sessions /\ s.state = "requesting_camera"
    BY NewSessionIsSession DEF After, Sessions
  <2> HIDE DEF s
  <2>3. check' \in Checks /\ check'.shown = s /\ check'.pending = s
    BY <1>1, <2>1, <2>2 DEF Checks
  <2>4. /\ awaited.models - 1 \in 0..MaxStarts /\ awaited.camera + 1 \in 0..MaxStarts
        /\ (awaited.models - 1) + (awaited.camera + 1) <= MaxStarts
    <3>1. awaited.models > 0
      BY <2>1
    <3>2. QED
      BY <1>23, <3>1
  <2>5. awaited' \in Waiting
    <3>1. awaited' = [awaited EXCEPT !.models = awaited.models - 1, !.camera = awaited.camera + 1]
      BY <2>1
    <3>2. awaited' = [awaited EXCEPT !.models = awaited.models - 1, !.camera = awaited.camera + 1,
                                     !.detector = awaited.detector]
      BY <1>21, <3>1
    <3>3. QED
      BY <1>21, <1>22, <2>4, <3>2
  <2>6. IdentityTypeOK' /\ (awaited \in Waiting)'
    BY <1>1, <1>2, <2>1, <2>3, <2>5
  <2>7. QED
    BY <2>1, <2>2, <2>3, <2>6 DEF Fits, PassRestsOnChecks
<1>10. CASE CameraOpens \/ CameraRefused
  <2>1. check.pending \in Sessions /\ check.camera \in BOOLEAN
    BY <1>1 DEF Checks
  <2>2. PICK event \in {"camera_ready", "camera_denied", "camera_unavailable"} :
          /\ awaited.camera > 0 /\ awaited' = [awaited EXCEPT !.camera = @ - 1] /\ UNCHANGED seen
          /\ \/ Settles(After(check.pending, event), TRUE, TRUE)
             \/ Settles(After(check.pending, event), check.camera, FALSE)
    BY <1>10 DEF CameraOpens, CameraRefused
  <2>3. After(check.pending, event) \in Sessions /\ Fits(After(check.pending, event))
    BY <2>1, AfterFits
  <2>5. awaited.camera - 1 \in 0..MaxStarts /\ awaited.models + (awaited.camera - 1) <= MaxStarts
    <3>1. awaited.camera > 0
      BY <2>2
    <3>2. QED
      BY <1>23, <3>1
  <2>6. awaited' \in Waiting
    BY <1>21, <1>22, <1>1, <2>2, <2>5
  <2>7. PICK s \in Sessions : s = After(check.pending, event)
    BY <2>3
  <2>8. Fits(s)' /\ seen' \in 0..Movements
    BY <1>1, <2>2, <2>3, <2>7 DEF Fits
  <2>9. QED
    BY <1>4, <2>1, <2>2, <2>6, <2>7, <2>8
<1>11. CASE FrameLooked
  <2>1. /\ awaited' = [awaited EXCEPT !.detector = @ + 1] /\ awaited.detector < MaxDetections
        /\ UNCHANGED <<check, place, seen, report>>
    BY <1>11 DEF FrameLooked
  <2>2. awaited.detector + 1 \in 0..MaxDetections
    <3>1. awaited.detector < MaxDetections
      BY <2>1
    <3>2. QED
      BY <1>23, <3>1
  <2>3. awaited' \in Waiting
    BY <1>21, <1>22, <1>1, <2>1, <2>2
  <2>4. QED
    BY <1>1, <1>2, <2>1, <2>3 DEF Fits, PassRestsOnChecks
<1>12. FrameOver => awaited' \in Waiting
  <2> SUFFICES ASSUME FrameOver
               PROVE awaited' \in Waiting
    OBVIOUS
  <2>1. awaited' = [awaited EXCEPT !.detector = awaited.detector - 1] /\ awaited.detector > 0
    BY DEF FrameOver
  <2>3. awaited.detector - 1 \in 0..MaxDetections
    <3>1. awaited.detector > 0
      BY <2>1
    <3>2. QED
      BY <1>23, <3>1
  <2>2. QED
    BY <1>21, <1>22, <1>1, <2>1, <2>3
<1>13. /\ check.pending \in Sessions /\ FaceShown(check.pending) \in Sessions
       /\ Fits(FaceShown(check.pending)) /\ check.camera \in BOOLEAN /\ check.finished \in BOOLEAN
       /\ check.shown \in Sessions
  BY <1>1, AfterFits DEF Checks, FaceShown
<1>14. CASE FrameShowsNothing
  <2>1. FrameOver /\ UNCHANGED <<place, seen, report>>
    BY <1>14 DEF FrameShowsNothing
  <2>2. check' \in Checks /\ Fits(check.shown)' /\ Fits(check.pending)'
    <3>1. CASE UNCHANGED check
      BY <1>1, <2>1, <3>1 DEF Fits
    <3>2. CASE ~UNCHANGED check
      <4>1. PICK s \in {check.pending, FaceShown(check.pending)} :
              check' = Committed(check, s, check.camera, FALSE, check.finished)
        BY <1>14, <3>2 DEF FrameShowsNothing
      <4>2. s \in Sessions /\ Fits(s)' /\ seen' \in 0..Movements
        BY <1>1, <1>13, <2>1 DEF Fits
      <4>3. QED
        BY <1>3, <1>13, <4>1, <4>2
    <3>3. QED
      BY <3>1, <3>2
  <2>3. IdentityTypeOK' /\ (awaited \in Waiting)'
    BY <1>1, <1>2, <1>12, <2>1, <2>2
  <2>4. QED
    BY <2>1, <2>2, <2>3 DEF PassRestsOnChecks
<1>15. CASE FrameShowsMovement
  <2> DEFINE s == FaceShown(check.pending)
             t == After(s, "movement")
  <2>1. /\ FrameOver /\ s.state = "challenge_active" /\ seen' = seen + 1
        /\ Settles(t, check.camera, FALSE)
    BY <1>15 DEF FrameShowsMovement
  <2>2. s \in Sessions /\ Fits(s)
    BY <1>13
  <2> HIDE DEF s
  <2>3. seen' \in 0..Movements /\ t \in Sessions
        /\ (t.state \in {"requesting_camera", "camera_ready"} => seen' = 0)
        /\ (t.state = "challenge_active" => seen' = t.at /\ t.at < Movements)
        /\ (t.state = "liveness_passed" => seen' = Movements)
    BY <2>1, <2>2, MovementFits DEF Fits
  <2> HIDE DEF t
  <2>4. PICK u \in Sessions : u = t
    BY <2>3
  <2>5. Fits(u)'
    BY <2>3, <2>4 DEF Fits
  <2>6. QED
    BY <1>4, <1>12, <1>13, <2>1, <2>3, <2>4, <2>5
<1>16. CASE FrameFails
  <2> DEFINE s == After(FaceShown(check.pending), "last_attempt")
  <2>1. FrameOver /\ Finish(FALSE, s) /\ UNCHANGED seen
    BY <1>16 DEF FrameFails
  <2>2. s \in Sessions /\ Fits(s)
    BY <1>13, AfterFits
  <2> HIDE DEF s
  <2>3. QED
    BY <1>5, <1>12, <2>1, <2>2
<1>17. CASE FixOrError
  BY <1>1, <1>2, <1>17 DEF FixOrError, Fits, PassRestsOnChecks
<1>18. CASE PollLocation
  <2>1. /\ check.shown.state = "liveness_passed" /\ Finish(place = "active", check.shown)
        /\ UNCHANGED <<awaited, seen>>
    BY <1>18 DEF PollLocation
  <2>2. QED
    BY <1>1, <1>5, <1>13, <2>1
<1>19. CASE UNCHANGED identityVars
  BY <1>1, <1>2, <1>19 DEF identityVars, Fits, PassRestsOnChecks
<1>20. QED
  BY <1>6, <1>7, <1>8, <1>9, <1>10, <1>11, <1>14, <1>15, <1>16, <1>17, <1>18, <1>19 DEF IdentityNext

-------------------------------------------------------------------------------
(* The parts side by side. A step is one of one part, and leaves what the     *)
(* others have alone.                                                         *)

ClientsIInv ==
    /\ HttpTypeOK
    /\ CameraIInv
    /\ LoginIInv
    /\ RegistrationPageIInv
    /\ ContactIInv
    /\ RegistryIInv
    /\ DeployIInv
    /\ SignInIInv
    /\ OfficerPortalIInv
    /\ MetadataIInv
    /\ IdentityIInv

(* Each part starts in its invariant.                                         *)
LEMMA ClientsStarts == ClientsInit => ClientsIInv
BY HttpStarts, CameraStarts, LoginStarts, RegistrationStarts, ContactStarts, RegistryStarts,
   DeployStarts, SignInStarts, OfficerPortalStarts, MetadataStarts, IdentityStarts
   DEF ClientsInit, ClientsIInv

(* With one wallet only, the contact page does nothing it does not with all.  *)
LEMMA FewerContacts ==
    ASSUME NEW C \in SUBSET Cards, NEW O \in SUBSET Owners, ContactNext(C, O)
    PROVE  ContactNext(Cards, Owners)
BY DEF ContactNext

(* A step of the clients is one of each part, or leaves it as it is.          *)
LEMMA ClientsStepIsOfParts ==
    ASSUME [ClientsNext]_clientsVars
    PROVE  /\ [HttpNext]_httpVars /\ [CameraNext]_cameraVars /\ [LoginNext]_loginVars
           /\ [RegistrationPageNext]_registrationPageVars
           /\ [ContactNext(Cards, Owners)]_contactVars
           /\ [RegistryNext]_registryVars /\ [DeployNext]_deployVars /\ [SignInNext]_signInVars
           /\ [OfficerPortalNext]_officerPortalVars
           /\ [MetadataNext]_metadataVars /\ [IdentityNext]_identityVars
<1>1. OneWallet \in SUBSET Owners
  BY ContactAssumption DEF OneWallet
<1>2. {"email"} \in SUBSET Cards /\ {"aadhaar"} \in SUBSET Cards
  BY DEF Cards
<1>3. /\ ContactNext({"email"}, OneWallet) => ContactNext(Cards, Owners)
      /\ ContactNext({"aadhaar"}, Owners) => ContactNext(Cards, Owners)
  BY <1>1, <1>2, FewerContacts
<1>4. QED
  BY <1>3 DEF ClientsNext, clientsVars

(* A step of the clients keeps the invariant of each part.                    *)
LEMMA ClientsStepKeeps ==
    ASSUME ClientsIInv, [ClientsNext]_clientsVars
    PROVE  ClientsIInv'
<1>1. /\ [HttpNext]_httpVars /\ [CameraNext]_cameraVars /\ [LoginNext]_loginVars
      /\ [RegistrationPageNext]_registrationPageVars
      /\ [ContactNext(Cards, Owners)]_contactVars
      /\ [RegistryNext]_registryVars /\ [DeployNext]_deployVars /\ [SignInNext]_signInVars
      /\ [OfficerPortalNext]_officerPortalVars
      /\ [MetadataNext]_metadataVars /\ [IdentityNext]_identityVars
  BY ClientsStepIsOfParts
<1>2. HttpTypeOK' /\ CameraIInv' /\ LoginIInv' /\ RegistrationPageIInv'
  BY <1>1, HttpStepKeeps, CameraStepKeeps, LoginStepKeeps, RegistrationStepKeeps DEF ClientsIInv
<1>3. ContactIInv' /\ RegistryIInv' /\ DeployIInv' /\ SignInIInv'
  BY <1>1, ContactStepKeeps, RegistryStepKeeps, DeployStepKeeps, SignInStepKeeps DEF ClientsIInv
<1>4. OfficerPortalIInv' /\ MetadataIInv' /\ IdentityIInv'
  BY <1>1, OfficerPortalStepKeeps, MetadataStepKeeps, IdentityStepKeeps DEF ClientsIInv
<1>5. QED
  BY <1>2, <1>3, <1>4 DEF ClientsIInv

(* The invariant holds in every state of the clients. Its camera part binds   *)
(* dots, frames and requests to the server's run only while the last start    *)
(* met nothing of an earlier try; the types are those of every state.         *)
THEOREM ClientsInvariant == ClientsSpec => []ClientsIInv
<1>1. ClientsIInv /\ [ClientsNext]_clientsVars => ClientsIInv'
  BY ClientsStepKeeps
<1>2. QED
  BY <1>1, ClientsStarts, PTL DEF ClientsSpec

(* Every page, request and script keeps its types, and its counters stay      *)
(* within their bounds.                                                       *)
THEOREM ClientsTypeCorrect == ClientsSpec => []ClientsTypeOK
<1>1. ClientsIInv => ClientsTypeOK
  BY CameraIInvShows, RegistryIInvTypes
     DEF ClientsIInv, ClientsTypeOK, LoginIInv, RegistrationPageIInv, ContactIInv, DeployIInv,
         SignInIInv, OfficerPortalIInv, MetadataIInv, MetadataTyped, IdentityIInv
<1>2. QED
  BY <1>1, ClientsInvariant, PTL

(* Whatever answers come late, are lost or overtake a newer action, no page   *)
(* shows as done, verified or its own what the server or the ledger has not   *)
(* confirmed; the liveness challenge as long as its last start met nothing of *)
(* an earlier try. The other starts are among the steps, and of them it says  *)
(* nothing (DoneIsEarned fails).                                              *)
THEOREM ShownIsConfirmedHolds == ClientsSpec => []ShownIsConfirmed
<1>1. ClientsIInv => ShownIsConfirmed
  BY CameraIInvShows, RegistrationFitsIsShown, GuardedWhenTold
     DEF ClientsIInv, ShownIsConfirmed, LoginIInv, ContactIInv, RegistryIInv, OfficerPortalIInv,
         MetadataIInv, IdentityIInv
<1>2. QED
  BY <1>1, ClientsInvariant, PTL

(* Whichever run of a script was interrupted where, no seed of a wallet is    *)
(* lost and a recorded deployment is one.                                     *)
THEOREM FilesSurviveRunsHolds == ClientsSpec => []FilesSurviveRuns
<1>1. ClientsIInv => FilesSurviveRuns
  BY DEF ClientsIInv, FilesSurviveRuns, DeployIInv
<1>2. QED
  BY <1>1, ClientsInvariant, PTL
===============================================================================
