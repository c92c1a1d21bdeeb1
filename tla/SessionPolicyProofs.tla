-------------------------- MODULE SessionPolicyProofs --------------------------
(***************************************************************************)
(* Proofs about SessionPolicy, for every value of its constants.           *)
(*                                                                         *)
(* Inv is inductive: the type, the agreement of lease, capture, trust and  *)
(* frame (ArmedOnlyWhileCapturing), and the two invariants about           *)
(* generations, which need each other: a frame is accepted only with the   *)
(* current generation, and the current generation was granted only if the  *)
(* session that owns it is still armed.                                    *)
(***************************************************************************)
EXTENDS SessionPolicy, TLAPS

Inv ==
  /\ TypeOK
  /\ ArmedOnlyWhileCapturing
  /\ LiveOnlyFromCurrentSession
  /\ EndedGenerationsStayDead

\* A fresh policy satisfies the invariant.
LEMMA InitInv == Init => Inv
BY DurationsOK
DEF Init, Inv, TypeOK, ArmedOnlyWhileCapturing, LiveOnlyFromCurrentSession,
    EndedGenerationsStayDead, TrustState, ConnectionState, CaptureState,
    OutputState, Time, Armed, Capturing

\* Ending a session re-establishes everything but the peer's trust: nothing is
\* armed or live any more, and the generation moves past every granted one
\* that could still have been current.
LEMMA EndSessionInv ==
  ASSUME Inv, EndSession,
         UNCHANGED <<now, granted, source>>,
         trust' \in TrustState, connection' \in ConnectionState
  PROVE  Inv'
<1> USE DurationsOK DEF Inv
<1>1. TypeOK'
  BY DEF TypeOK, EndSession, ForceNeutral, CaptureState, OutputState, Time
<1>2. ArmedOnlyWhileCapturing'
  BY DEF ArmedOnlyWhileCapturing, EndSession, Armed, Capturing
<1>3. LiveOnlyFromCurrentSession'
  BY DEF LiveOnlyFromCurrentSession, EndSession, ForceNeutral
<1>4. EndedGenerationsStayDead'
  <2>1. CASE HadSession
    BY <2>1 DEF EndedGenerationsStayDead, EndSession, TypeOK
  <2>2. CASE ~HadSession
    BY <2>2 DEF EndedGenerationsStayDead, EndSession, HadSession, Armed
  <2> QED BY <2>1, <2>2
<1> QED BY <1>1, <1>2, <1>3, <1>4

\* No step of the policy breaks the inductive invariant.
LEMMA NextInv == Inv /\ [Next]_vars => Inv'
<1> SUFFICES ASSUME Inv, [Next]_vars PROVE Inv'
  OBVIOUS
<1> USE DurationsOK
<1>1. CASE SetOutputReady
  BY <1>1 DEF SetOutputReady, Inv, TypeOK, ArmedOnlyWhileCapturing,
     LiveOnlyFromCurrentSession, EndedGenerationsStayDead, Armed, Capturing,
     OutputState
<1>2. CASE SetOutputFailed
  BY <1>2 DEF SetOutputFailed, Inv, TypeOK, ArmedOnlyWhileCapturing,
     LiveOnlyFromCurrentSession, EndedGenerationsStayDead, Armed, Capturing,
     OutputState
<1>3. CASE TrustPeer
  BY <1>3 DEF TrustPeer, Inv, TypeOK, ArmedOnlyWhileCapturing,
     LiveOnlyFromCurrentSession, EndedGenerationsStayDead, Armed, Capturing,
     TrustState
<1>4. CASE AuthenticateConnection
  BY <1>4 DEF AuthenticateConnection, Inv, TypeOK, ArmedOnlyWhileCapturing,
     LiveOnlyFromCurrentSession, EndedGenerationsStayDead, Armed, Capturing,
     ConnectionState
<1>5. CASE RequestStart
  BY <1>5 DEF RequestStart, Inv, TypeOK, ArmedOnlyWhileCapturing,
     LiveOnlyFromCurrentSession, EndedGenerationsStayDead, Armed, Capturing,
     CaptureState
<1>6. CASE GrantConsent
  <2> USE <1>6 DEF GrantConsent, Inv
  <2>1. TypeOK'
    BY DEF TypeOK, ForceNeutral, CaptureState, OutputState, Time
  <2>2. ArmedOnlyWhileCapturing'
    <3>1. lease' \in Nat
      BY DEF TypeOK
    <3> QED BY <3>1 DEF ArmedOnlyWhileCapturing, Armed, Capturing
  <2>3. LiveOnlyFromCurrentSession'
    BY DEF LiveOnlyFromCurrentSession, ForceNeutral
  <2>4. EndedGenerationsStayDead'
    <3>1. lease' \in Nat
      BY DEF TypeOK
    <3> QED BY <3>1 DEF EndedGenerationsStayDead, Armed, TypeOK
  <2> QED BY <2>1, <2>2, <2>3, <2>4
<1>7. ASSUME NEW g \in granted, CaptureStarted(g) PROVE Inv'
  BY <1>7 DEF CaptureStarted, Inv, TypeOK, ArmedOnlyWhileCapturing,
     LiveOnlyFromCurrentSession, EndedGenerationsStayDead, Armed, Capturing,
     CaptureState
<1>8. ASSUME NEW g \in granted, RefreshLease(g) PROVE Inv'
  <2>1. lease' \in Nat
    BY <1>8 DEF RefreshLease, Inv, TypeOK
  <2> QED
    BY <1>8, <2>1 DEF RefreshLease, Inv, TypeOK, ArmedOnlyWhileCapturing,
       LiveOnlyFromCurrentSession, EndedGenerationsStayDead, Armed, Capturing,
       Time
<1>9. ASSUME NEW g \in granted, AcceptFrame(g) PROVE Inv'
  <2>1. lastFrame' \in Nat /\ source' = generation'
    BY <1>9 DEF AcceptFrame, Current, Inv, TypeOK
  <2> QED
    BY <1>9, <2>1 DEF AcceptFrame, Inv, TypeOK, ArmedOnlyWhileCapturing,
       LiveOnlyFromCurrentSession, EndedGenerationsStayDead, Armed, Capturing,
       Time, OutputState
<1>10. CASE ConnectionLost
  BY <1>10 DEF ConnectionLost, ForceNeutral, Inv, TypeOK,
     ArmedOnlyWhileCapturing, LiveOnlyFromCurrentSession,
     EndedGenerationsStayDead, Armed, Capturing, ConnectionState, OutputState,
     Time
<1>11. CASE ExpireLease
  BY <1>11, EndSessionInv DEF ExpireLease, Inv, TypeOK
<1>12. CASE BlankStaleFrame
  BY <1>12 DEF BlankStaleFrame, ForceNeutral, Inv, TypeOK,
     ArmedOnlyWhileCapturing, LiveOnlyFromCurrentSession,
     EndedGenerationsStayDead, Armed, Capturing, OutputState, Time
<1>13. CASE Stop
  BY <1>13, EndSessionInv DEF Stop, Inv, TypeOK
<1>14. CASE ForgetPeer
  BY <1>14, EndSessionInv DEF ForgetPeer, TrustState, ConnectionState
<1>15. CASE AdvanceClock
  BY <1>15 DEF AdvanceClock, Inv, TypeOK, ArmedOnlyWhileCapturing,
     LiveOnlyFromCurrentSession, EndedGenerationsStayDead, Armed, Capturing
<1>16. CASE UNCHANGED vars
  BY <1>16 DEF vars, Inv, TypeOK, ArmedOnlyWhileCapturing,
     LiveOnlyFromCurrentSession, EndedGenerationsStayDead, Armed, Capturing
<1> QED
  BY <1>1, <1>2, <1>3, <1>4, <1>5, <1>6, <1>7, <1>8, <1>9, <1>10, <1>11,
     <1>12, <1>13, <1>14, <1>15, <1>16
  DEF Next, Tick

\* Inv is an invariant of the policy, whatever the lease, the frame age and the
\* bounds are.
THEOREM PolicyInvariant == Spec => []Inv
BY InitInv, NextInv, PTL DEF Spec

\* The variables stay within their types.
THEOREM PolicyTyped == Spec => []TypeOK
BY PolicyInvariant, PTL DEF Inv

\* The lease, the capture state and the trust decision agree in every state.
THEOREM PolicyArmedOnlyWhileCapturing == Spec => []ArmedOnlyWhileCapturing
BY PolicyInvariant, PTL DEF Inv

\* The output is live only with a frame of the current session.
THEOREM PolicyLiveOnlyFromCurrentSession == Spec => []LiveOnlyFromCurrentSession
BY PolicyInvariant, PTL DEF Inv

\* No generation a caller kept is current once its session ended.
THEOREM PolicyEndedGenerationsStayDead == Spec => []EndedGenerationsStayDead
BY PolicyInvariant, PTL DEF Inv

-------------------------------------------------------------------------------
\* After a tick() that ends the session nothing is left to be overdue; after one
\* that blanks a frame the lease it looked at first still runs.
LEMMA TickStep == Tick => ~Overdue'
<1>1. ASSUME ExpireLease PROVE ~Overdue'
  BY <1>1 DEF ExpireLease, EndSession, ForceNeutral, Overdue, Elapsed
<1>2. ASSUME BlankStaleFrame PROVE ~Overdue'
  BY <1>2 DEF BlankStaleFrame, ForceNeutral, Overdue, Elapsed
<1> QED BY <1>1, <1>2 DEF Tick

\* One tick() meets both deadlines.
THEOREM PolicyTickMeetsDeadlines == Spec => TickMeetsDeadlines
BY TickStep, PTL DEF Spec, TickMeetsDeadlines

-------------------------------------------------------------------------------
\* The policy starts where the abstract authorization starts.
LEMMA RefinesInit == Init => Authorization!Init
BY DEF Init, Authorization!Init, Phase

\* Ending a session is one abstract End, or nothing when there is none; with the
\* trust withdrawn it is one abstract Revoke.
LEMMA EndSessionRefines ==
  ASSUME Inv, EndSession,
         \/ trust' = trust
         \/ trust' = "Revoked"
  PROVE  [Authorization!Next]_(Authorization!vars)
<1> USE DEF Authorization!Next, Authorization!vars, Phase
<1>1. /\ capture' = "Idle"
      /\ output' # "ReadyLive"
      /\ output = "ReadyLive" => capture # "Idle"
      /\ HadSession <=> capture # "Idle"
      /\ generation' = IF HadSession THEN generation + 1 ELSE generation
  BY DEF EndSession, ForceNeutral, Inv, LiveOnlyFromCurrentSession,
     ArmedOnlyWhileCapturing, HadSession, Capturing
<1>2. Phase \in {"idle", "asked", "armed"} /\ (Phase = "idle" <=> capture = "Idle")
  BY DEF Inv, TypeOK, CaptureState
<1>3. CASE trust' = trust /\ HadSession
  <2>1. Authorization!End
    BY <1>1, <1>2, <1>3 DEF Authorization!End
  <2> QED BY <2>1
<1>4. CASE trust' = trust /\ ~HadSession
  BY <1>1, <1>2, <1>4
<1>5. CASE trust' = "Revoked"
  <2>1. Authorization!Revoke
    BY <1>1, <1>2, <1>5 DEF Authorization!Revoke
  <2> QED BY <2>1
<1> QED BY <1>3, <1>4, <1>5

\* Every step of the policy is a step of the abstract authorization or leaves it
\* unchanged.
LEMMA RefinesNext ==
  Inv /\ [Next]_vars => [Authorization!Next]_(Authorization!vars)
<1> SUFFICES ASSUME Inv, [Next]_vars
             PROVE  [Authorization!Next]_(Authorization!vars)
  OBVIOUS
<1> USE DEF Authorization!Next, Authorization!vars
<1>1. CASE SetOutputReady
  BY <1>1 DEF SetOutputReady, Authorization!Blank, Phase
<1>2. CASE SetOutputFailed
  BY <1>2 DEF SetOutputFailed, Authorization!Blank, Phase
<1>3. CASE TrustPeer
  BY <1>3 DEF TrustPeer, Authorization!Trust, Phase
<1>4. CASE AuthenticateConnection
  BY <1>4 DEF AuthenticateConnection, Phase
<1>5. CASE RequestStart
  BY <1>5 DEF RequestStart, Authorization!Ask, Phase
<1>6. CASE GrantConsent
  <2>1. output' # "ReadyLive" /\ output # "ReadyLive"
    BY <1>6 DEF GrantConsent, ForceNeutral, Inv, LiveOnlyFromCurrentSession
  <2>2. Authorization!Consent
    BY <1>6, <2>1 DEF GrantConsent, Authorization!Consent, Phase
  <2> QED BY <2>2
<1>7. ASSUME NEW g \in granted, CaptureStarted(g)
      PROVE  [Authorization!Next]_(Authorization!vars)
  BY <1>7 DEF CaptureStarted, Phase
<1>8. ASSUME NEW g \in granted, RefreshLease(g)
      PROVE  [Authorization!Next]_(Authorization!vars)
  BY <1>8 DEF RefreshLease, Phase
<1>9. ASSUME NEW g \in granted, AcceptFrame(g)
      PROVE  [Authorization!Next]_(Authorization!vars)
  BY <1>9 DEF AcceptFrame, Authorization!Show, Phase
<1>10. CASE ConnectionLost
  BY <1>10 DEF ConnectionLost, ForceNeutral, Authorization!Blank, Phase
<1>11. CASE ExpireLease
  BY <1>11, EndSessionRefines DEF ExpireLease
<1>12. CASE BlankStaleFrame
  BY <1>12 DEF BlankStaleFrame, ForceNeutral, Authorization!Blank, Phase
<1>13. CASE Stop
  BY <1>13, EndSessionRefines DEF Stop
<1>14. CASE ForgetPeer
  BY <1>14, EndSessionRefines DEF ForgetPeer
<1>15. CASE AdvanceClock
  BY <1>15 DEF AdvanceClock, Phase
<1>16. CASE UNCHANGED vars
  BY <1>16 DEF vars, Phase
<1> QED
  BY <1>1, <1>2, <1>3, <1>4, <1>5, <1>6, <1>7, <1>8, <1>9, <1>10, <1>11,
     <1>12, <1>13, <1>14, <1>15, <1>16
  DEF Next, Tick

\* The policy implements the abstract authorization.
THEOREM PolicyImplementsAuthorization == Spec => ImplementsAuthorization
BY RefinesInit, RefinesNext, PolicyInvariant, PTL
DEF Spec, Authorization!Spec, ImplementsAuthorization
===============================================================================
