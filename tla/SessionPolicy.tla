----------------------------- MODULE SessionPolicy -----------------------------
(***************************************************************************)
(* The safety-critical session policy of crates/omacam-core/src/lib.rs.    *)
(*                                                                         *)
(* One action per method of SessionPolicy.  A call that returns a          *)
(* PolicyError leaves the policy as it was, so its condition is a guard.   *)
(* Every caller reads the same monotonic clock (now).  A caller that was   *)
(* handed a generation by grant_consent may present it at any later time:  *)
(* calls that take a generation are offered every generation ever granted. *)
(***************************************************************************)
EXTENDS Naturals

CONSTANTS
  CaptureLease,    \* DEFAULT_CAPTURE_LEASE_MS, in clock units
  MaxFrameAge,     \* MAX_FRAME_AGE_MS, in clock units
  MaxTime,         \* bound: the clock stops here
  MaxGeneration,   \* bound: no new request when the generation is near it
  None             \* Option::None

ASSUME DurationsOK ==
  /\ CaptureLease \in Nat \ {0}
  /\ MaxFrameAge \in Nat \ {0}
  /\ MaxTime \in Nat
  /\ MaxGeneration \in Nat
  /\ None \notin Nat

VARIABLES
  trust, connection, capture, output, generation,
  lease,           \* lease_expires_at_ms
  lastFrame,       \* last_frame_at_ms
  now,             \* the local monotonic clock every caller reads
  granted,         \* history: the generations handed out by grant_consent
  source           \* history: the generation presented with the last accepted frame

vars == <<trust, connection, capture, output, generation, lease, lastFrame,
          now, granted, source>>

TrustState      == {"Unpaired", "Trusted", "Revoked"}
ConnectionState == {"Offline", "Online", "Recovering"}
CaptureState    == {"Idle", "AwaitingConsent", "Starting", "Streaming"}
OutputState     == {"Missing", "ReadyNeutral", "ReadyLive", "Failed"}
Time            == Nat \cup {None}

TypeOK ==
  /\ trust \in TrustState
  /\ connection \in ConnectionState
  /\ capture \in CaptureState
  /\ output \in OutputState
  /\ generation \in Nat
  /\ lease \in Time
  /\ lastFrame \in Time
  /\ now \in Nat
  /\ granted \in SUBSET Nat
  /\ source \in Nat

Init ==
  /\ trust = "Unpaired"
  /\ connection = "Offline"
  /\ capture = "Idle"
  /\ output = "Missing"
  /\ generation = 0
  /\ lease = None
  /\ lastFrame = None
  /\ now = 0
  /\ granted = {}
  /\ source = 0

-------------------------------------------------------------------------------
ForceNeutral == output' = IF output = "ReadyLive" THEN "ReadyNeutral" ELSE output

Armed == lease # None

Capturing == capture \in {"Starting", "Streaming"}

\* Mutation: stop() takes a request without a frame for no session.
HadShownSession == lastFrame # None

\* A session is anything that was requested, armed or has shown a frame.
HadSession == capture # "Idle" \/ Armed \/ lastFrame # None

\* Mutation: an older generation is good enough.
NotNewer(g) == g <= generation

\* require_generation
Current(g) == g = generation

Elapsed(deadline) == deadline # None /\ now >= deadline

FrameIsStale == lastFrame # None /\ now - lastFrame >= MaxFrameAge

Overdue == Elapsed(lease) \/ (output = "ReadyLive" /\ FrameIsStale)

\* Mutation: stop() withdraws the generation instead of spending it.
EndSessionWithdrawing ==
  /\ generation' = IF HadSession THEN generation - 1 ELSE generation
  /\ capture' = "Idle"
  /\ lease' = None
  /\ lastFrame' = None
  /\ ForceNeutral

\* What stop() does to the variables a session owns.
EndSession ==
  /\ generation' = IF HadSession THEN generation + 1 ELSE generation
  /\ capture' = "Idle"
  /\ lease' = None
  /\ lastFrame' = None
  /\ ForceNeutral

-------------------------------------------------------------------------------
SetOutputReady ==
  /\ output' = "ReadyNeutral"
  /\ UNCHANGED <<trust, connection, capture, generation, lease, lastFrame,
                 now, granted, source>>

SetOutputFailed ==
  /\ output' = "Failed"
  /\ UNCHANGED <<trust, connection, capture, generation, lease, lastFrame,
                 now, granted, source>>

TrustPeer ==
  /\ trust' = "Trusted"
  /\ UNCHANGED <<connection, capture, output, generation, lease, lastFrame,
                 now, granted, source>>

AuthenticateConnection ==
  /\ trust = "Trusted"
  /\ connection' = "Online"
  /\ UNCHANGED <<trust, capture, output, generation, lease, lastFrame,
                 now, granted, source>>

\* MaxGeneration leaves room for the grant and for the end of this session.
RequestStart ==
  /\ trust = "Trusted"
  /\ connection = "Online"
  /\ capture = "Idle"
  /\ generation + 2 <= MaxGeneration
  /\ capture' = "AwaitingConsent"
  /\ UNCHANGED <<trust, connection, output, generation, lease, lastFrame,
                 now, granted, source>>

\* Mutation: consent is taken from the phone whether or not it was asked.
GrantUnasked ==
  /\ capture \in {"Idle", "AwaitingConsent"}
  /\ trust = "Trusted"
  /\ connection = "Online"
  /\ generation < MaxGeneration
  /\ generation' = generation + 1
  /\ capture' = "Starting"
  /\ lease' = now + CaptureLease
  /\ lastFrame' = None
  /\ ForceNeutral
  /\ granted' = granted \cup {generation + 1}
  /\ UNCHANGED <<trust, connection, now, source>>

GrantConsent ==
  /\ capture = "AwaitingConsent"
  /\ trust = "Trusted"
  /\ connection = "Online"
  /\ generation' = generation + 1
  /\ capture' = "Starting"
  /\ lease' = now + CaptureLease
  /\ lastFrame' = None
  /\ ForceNeutral
  /\ granted' = granted \cup {generation + 1}
  /\ UNCHANGED <<trust, connection, now, source>>

CaptureStarted(g) ==
  /\ Current(g)
  /\ capture = "Starting"
  /\ capture' = "Streaming"
  /\ UNCHANGED <<trust, connection, output, generation, lease, lastFrame,
                 now, granted, source>>

RefreshLease(g) ==
  /\ Current(g)
  /\ Capturing
  /\ lease' = now + CaptureLease
  /\ UNCHANGED <<trust, connection, capture, output, generation, lastFrame,
                 now, granted, source>>

AcceptFrame(g) ==
  /\ Current(g)
  /\ capture = "Streaming"
  /\ lastFrame' = now
  /\ output' = IF output = "ReadyNeutral" THEN "ReadyLive" ELSE output
  /\ source' = g
  /\ UNCHANGED <<trust, connection, capture, generation, lease, now, granted>>

ConnectionLost ==
  /\ connection' = "Recovering"
  /\ lastFrame' = None
  /\ ForceNeutral
  /\ UNCHANGED <<trust, capture, generation, lease, now, granted, source>>

ExpireLease ==
  /\ Elapsed(lease)
  /\ EndSession
  /\ UNCHANGED <<trust, connection, now, granted, source>>

BlankStaleFrame ==
  /\ ~Elapsed(lease)
  /\ FrameIsStale
  /\ lastFrame' = None
  /\ ForceNeutral
  /\ UNCHANGED <<trust, connection, capture, generation, lease, now, granted,
                 source>>

\* Mutation: the frame is looked at first, and the lease only if it is fresh.
TickFrameFirst ==
  \/ /\ FrameIsStale
     /\ lastFrame' = None
     /\ ForceNeutral
     /\ UNCHANGED <<trust, connection, capture, generation, lease, now,
                    granted, source>>
  \/ ~FrameIsStale /\ ExpireLease

\* tick() stops on an expired lease; otherwise it only blanks a stale frame.
Tick == ExpireLease \/ BlankStaleFrame

Stop ==
  /\ EndSession
  /\ UNCHANGED <<trust, connection, now, granted, source>>

\* Mutation: the peer is revoked and its session left to run out.
RevokeOnly ==
  /\ trust' = "Revoked"
  /\ connection' = "Offline"
  /\ UNCHANGED <<capture, output, generation, lease, lastFrame, now, granted,
                 source>>

ForgetPeer ==
  /\ EndSession
  /\ trust' = "Revoked"
  /\ connection' = "Offline"
  /\ UNCHANGED <<now, granted, source>>

AdvanceClock ==
  /\ now < MaxTime
  /\ now' = now + 1
  /\ UNCHANGED <<trust, connection, capture, output, generation, lease,
                 lastFrame, granted, source>>

Next ==
  \/ SetOutputReady
  \/ SetOutputFailed
  \/ TrustPeer
  \/ AuthenticateConnection
  \/ RequestStart
  \/ GrantConsent
  \/ \E g \in granted : CaptureStarted(g) \/ RefreshLease(g) \/ AcceptFrame(g)
  \/ ConnectionLost
  \/ Tick
  \/ Stop
  \/ ForgetPeer
  \/ AdvanceClock

Spec == Init /\ [][Next]_vars

-------------------------------------------------------------------------------
(***************************************************************************)
(* Properties                                                              *)
(***************************************************************************)

\* The lease, the capture state and the trust decision agree after every
\* sequence of calls: a lease is held exactly while the camera is starting or
\* streaming, and neither a request nor a capture outlives the peer's trust
\* (stop, forget_peer and tick release all three together).
ArmedOnlyWhileCapturing ==
  /\ Armed <=> Capturing
  /\ capture # "Idle" => trust = "Trusted"
  /\ lastFrame # None => capture = "Streaming"

\* The output is live only in a streaming session that has a frame to age, and
\* that frame was presented with the generation of this very session.
LiveOnlyFromCurrentSession ==
  output = "ReadyLive" =>
    /\ capture = "Streaming"
    /\ lastFrame # None
    /\ source = generation

\* Once a session ended, for whatever reason, the generation its holders kept
\* passes require_generation never again: of all generations granted only that
\* of the armed session is current.
EndedGenerationsStayDead ==
  /\ \A g \in granted : g <= generation
  /\ generation \in granted => Armed

\* One tick() is enough: right after it no lease has run out and no live frame
\* is MaxFrameAge old, whichever of the two deadlines it found passed.
TickMeetsDeadlines ==
  [][Tick => ~Overdue']_vars

\* The policy implements the abstract authorization: capture is armed only by
\* consent to a request, and every end of it is a single step.
Phase ==
  IF capture = "Idle" THEN "idle"
  ELSE IF capture = "AwaitingConsent" THEN "asked" ELSE "armed"

Authorization == INSTANCE CaptureAuthorization WITH
  trusted <- trust = "Trusted",
  phase   <- Phase,
  live    <- output = "ReadyLive",
  session <- generation

ImplementsAuthorization == Authorization!Spec
===============================================================================
