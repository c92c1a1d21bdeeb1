----------------------------- MODULE NativeService -----------------------------
(***************************************************************************)
(* The native (companion phone) side of the daemon: the runtime shared     *)
(* with the D-Bus callers (service_runtime.rs), the control server that    *)
(* serves one authenticated phone at a time (control_server.rs), the       *)
(* capture loop (capture.rs) and the output worker's binding               *)
(* (capture/output_worker.rs).                                             *)
(*                                                                         *)
(* Grain.  The daemon runs on a multi-threaded executor.  A D-Bus call     *)
(* takes the runtime's lock several times and then sends its intent: each  *)
(* of those is a step here.  The server's side is cut where it waits and   *)
(* where a caller could see the difference: a grant is published, written  *)
(* and then bound; a capture's loop is left by an arm that has already     *)
(* changed the policy, the media task is awaited and the worker reset, the *)
(* end is published, and the connection goes on or ends.  Within one arm   *)
(* the updates of the runtime follow each other at once, and a call that   *)
(* falls between two of them has the effect it has before the first one.   *)
(* What the phone does, and whether a write to it succeeds, is open.       *)
(*                                                                         *)
(* The policy is abstracted as SessionPolicy's theorems allow: a lease is  *)
(* held exactly while starting or streaming, so the lease is "armed" and   *)
(* its time is counted in ticks of the capture loop since the last Ping.   *)
(***************************************************************************)
EXTENDS Naturals, Sequences, FiniteSets

CONSTANTS
  OpId,            \* operation identifiers the D-Bus callers use
  MaxOperations,   \* MAX_OPERATIONS: history kept by the runtime
  IntentCapacity,  \* capacity of the intent channel
  LeaseTicks,      \* lease ticks without a Ping until the lease is over
  MaxConnections,  \* bound: authenticated connections in a behaviour
  MaxStarts,       \* bound: request_start calls that pass its checks
  Uses,            \* bound: the intents each identifier is used for
  None

ASSUME ConstantsOK ==
  /\ MaxOperations \in Nat \ {0}
  /\ IntentCapacity \in Nat \ {0}
  /\ LeaseTicks \in Nat \ {0}
  /\ None \notin OpId \cup Nat

VARIABLES
  rt,         \* RuntimeInner: the snapshot D-Bus clients see, and the operations
  chan,       \* intents accepted and not yet received by the server
  call,       \* per identifier, the D-Bus call in progress
  server,     \* where the server task is
  policy,     \* the SessionPolicy of this connection
  request,    \* request_id: the Start request the phone has not answered
  requestOp,  \* request_operation_id (start_operation_id while capturing)
  capture,    \* what run_active_capture keeps: binding, started, silent, outcome
  worker,     \* the output worker: is its process alive, what is it bound to
  record,     \* is the trusted phone's record on disk?
  conn,       \* number of the current connection (bounded)
  requests,   \* Start requests sent to a phone so far; the last one's number
  starts,     \* request_start calls so far (bounded)
  forwarded,  \* camera operations sent to the phone of this capture
  approved    \* history: the request the phone approved for this capture

connectionVars == <<policy, request, requestOp, capture, forwarded, approved>>
outsideVars    == <<worker, record, conn, requests>>
serverVars     == <<server, connectionVars, outsideVars>>
callerVars     == <<call, starts>>
vars == <<rt, chan, callerVars, serverVars>>

Intent    == {"request_start", "camera_control", "stop", "forget_peer"}
Operation == [id: OpId, intent: Intent \cup {"run_diagnostics"},
              state: {"Pending", "Succeeded", "Failed"}]
Binding   == [conn: Nat, generation: Nat]

\* ControlConnectionOutcome; an error ends the connection as Disconnected does.
ControlOutcome ==
  {"CaptureStopped", "Disconnected", "ForgotPeer", "Shutdown"}

TrustState      == {"Unpaired", "Trusted", "Revoked"}
ConnectionState == {"Offline", "Online", "Recovering"}
CaptureState    == {"Idle", "AwaitingConsent", "Starting", "Streaming"}
OutputState     == {"Missing", "ReadyNeutral", "ReadyLive", "Failed"}

Snapshot == [trust: TrustState, connection: ConnectionState,
             capture: CaptureState, output: OutputState,
             generation: Nat, armed: BOOLEAN]
Runtime  == [trust: TrustState, connection: ConnectionState,
             capture: CaptureState, output: OutputState,
             generation: Nat, armed: BOOLEAN,
             camera: BOOLEAN,       \* capabilities and applied state known
             ops: Seq(Operation)]

TypeOK ==
  /\ rt \in Runtime
  /\ Len(rt.ops) <= MaxOperations
  /\ chan \in Seq([id: OpId, intent: Intent, generation: Nat])
  /\ Len(chan) <= IntentCapacity
  /\ call \in [OpId -> [step: {"idle", "checked", "accepted", "invalidated",
                               "ready"},
                        intent: Intent, generation: Nat]]
  /\ server \in {"untrusted", "accept", "control", "granting", "capturing",
                 "stopping", "reset", "leaving", "exited"}
  /\ policy \in Snapshot
  /\ request \in Nat \cup {None}
  /\ requestOp \in OpId \cup {None}
  /\ capture \in [binding: Binding, started: BOOLEAN, silent: 0..LeaseTicks,
                  outcome: ControlOutcome]
  /\ worker \in [alive: BOOLEAN, bound: Binding \cup {None}]
  /\ record \in BOOLEAN
  /\ <<conn, requests, starts>> \in Nat \X Nat \X Nat
  /\ forwarded \subseteq OpId
  /\ approved \in Nat \cup {None}

-------------------------------------------------------------------------------
(* SessionPolicy, as its methods change a snapshot *)

Neutral(output) == IF output = "ReadyLive" THEN "ReadyNeutral" ELSE output

DefaultPolicy ==
  [trust |-> "Unpaired", connection |-> "Offline", capture |-> "Idle",
   output |-> "Missing", generation |-> 0, armed |-> FALSE]

\* A policy for a phone that just authenticated (control_server.rs).
FreshPolicy(healthy) ==
  [DefaultPolicy EXCEPT !.trust = "Trusted", !.connection = "Online",
                        !.output = IF healthy THEN "ReadyNeutral" ELSE @]

Requested(p) == [p EXCEPT !.capture = "AwaitingConsent"]

Granted(p) ==
  [p EXCEPT !.generation = @ + 1, !.capture = "Starting", !.armed = TRUE,
            !.output = Neutral(@)]

\* capture_started (on the first frame) and accept_frame.
Framed(p) ==
  [p EXCEPT !.capture = "Streaming",
            !.output = IF @ = "ReadyNeutral" THEN "ReadyLive" ELSE @]

Blanked(p) == [p EXCEPT !.output = Neutral(@)]

Lost(p) == [Blanked(p) EXCEPT !.connection = "Recovering"]

Stopped(p) ==
  [p EXCEPT !.generation = IF p.capture # "Idle" THEN @ + 1 ELSE @,
            !.capture = "Idle", !.armed = FALSE, !.output = Neutral(@)]

Forgotten(p) ==
  [Stopped(p) EXCEPT !.trust = "Revoked", !.connection = "Offline"]

-------------------------------------------------------------------------------
(* ServiceRuntime, as its methods change the state behind its lock *)

Known(r, id) == \E i \in DOMAIN r.ops : r.ops[i].id = id

\* Mutation: the outcome of an operation is recorded whenever one is reported.
FinishAgain(r, id, state) ==
  [r EXCEPT !.ops = [i \in DOMAIN r.ops |->
     IF r.ops[i].id = id THEN [r.ops[i] EXCEPT !.state = state] ELSE r.ops[i]]]

Finish(r, id, state) ==
  [r EXCEPT !.ops = [i \in DOMAIN r.ops |->
     IF r.ops[i].id = id /\ r.ops[i].state = "Pending"
     THEN [r.ops[i] EXCEPT !.state = state] ELSE r.ops[i]]]

Succeed(r, id) == Finish(r, id, "Succeeded")
Fail(r, id)    == Finish(r, id, "Failed")

\* Mutation: no operation ever leaves the history.
EnqueueUnbounded(r, id, intent) ==
  [r EXCEPT !.ops =
     Append(@, [id |-> id, intent |-> intent, state |-> "Pending"])]

\* A new pending operation; the oldest one leaves a full history.
Enqueue(r, id, intent) ==
  LET added == Append(r.ops, [id |-> id, intent |-> intent, state |-> "Pending"])
  IN  [r EXCEPT !.ops = IF Len(added) > MaxOperations THEN Tail(added) ELSE added]

\* Mutation: the snapshot of a connection's policy replaces the runtime's.
PublishBlindly(r, p) ==
  [r EXCEPT !.trust = p.trust, !.connection = p.connection,
            !.capture = p.capture, !.generation = p.generation,
            !.armed = p.armed, !.output = p.output]

\* Output health belongs to the service: a policy does not overwrite it.
PublishPolicy(r, p) ==
  [r EXCEPT !.trust = p.trust, !.connection = p.connection,
            !.capture = p.capture, !.generation = p.generation,
            !.armed = p.armed,
            !.output = IF \/ @ = "Failed"
                          \/ p.output = "Missing" /\ @ # "Missing"
                       THEN @ ELSE p.output]

SetOutputFailed(r) == [r EXCEPT !.output = "Failed"]

InvalidateStop(r) ==
  [r EXCEPT !.generation = IF r.capture # "Idle" \/ r.armed THEN @ + 1 ELSE @,
            !.capture = "Idle", !.armed = FALSE, !.output = Neutral(@),
            !.camera = FALSE,
            !.ops = [i \in DOMAIN r.ops |->
               IF /\ r.ops[i].intent \in {"request_start", "camera_control"}
                  /\ r.ops[i].state = "Pending"
               THEN [r.ops[i] EXCEPT !.state = "Failed"] ELSE r.ops[i]]]

Revoke(r) == [r EXCEPT !.trust = "Revoked", !.connection = "Offline"]

\* Mutation: only the connection is reported lost.
ReportLost(r) ==
  [r EXCEPT !.connection = IF r.trust = "Revoked" THEN "Offline"
                           ELSE "Recovering"]

ConnectionLost(r) ==
  [InvalidateStop(r) EXCEPT
     !.connection = IF r.trust = "Revoked" THEN "Offline" ELSE "Recovering"]

-------------------------------------------------------------------------------
(* D-Bus callers *)

Idle(id)     == call[id].step = "idle"
At(id, step) == call[id].step = step
Goto(id, step) == call' = [call EXCEPT ![id].step = step]

Begin(id, step, intent, generation) ==
  call' = [call EXCEPT ![id] = [step |-> step, intent |-> intent,
                                generation |-> generation]]

\* request_start reads the snapshot, under a lock of its own.
CheckStart(id) ==
  /\ Idle(id)
  /\ "request_start" \in Uses[id]
  /\ starts < MaxStarts
  /\ ~Known(rt, id)
  /\ rt.trust = "Trusted"
  /\ rt.connection = "Online"
  /\ rt.capture = "Idle"
  /\ rt.output \notin {"Missing", "Failed"}
  /\ starts' = starts + 1
  /\ Begin(id, "checked", "request_start", 0)
  /\ UNCHANGED <<rt, chan, serverVars>>

\* camera_control: the caller names the generation of the snapshot it has.
CheckControl(id) ==
  /\ Idle(id)
  /\ "camera_control" \in Uses[id]
  /\ rt.armed
  /\ rt.camera
  /\ Begin(id, "checked", "camera_control", rt.generation)
  /\ UNCHANGED <<rt, chan, starts, serverVars>>

\* enqueue() of a checked call; the identifier may have been taken meanwhile.
AcceptChecked(id) ==
  /\ At(id, "checked")
  /\ IF Known(rt, id)
     THEN Goto(id, "idle") /\ UNCHANGED rt
     ELSE Goto(id, "ready") /\ rt' = Enqueue(rt, id, call[id].intent)
  /\ UNCHANGED <<chan, starts, serverVars>>

\* stop() and forget_peer() enqueue at once, in every state.
AcceptStop(id, intent) ==
  /\ Idle(id)
  /\ intent \in Uses[id]
  /\ ~Known(rt, id)
  /\ rt' = Enqueue(rt, id, intent)
  /\ Begin(id, "accepted", intent, 0)
  /\ UNCHANGED <<chan, starts, serverVars>>

Invalidate(id) ==
  /\ At(id, "accepted")
  /\ rt' = InvalidateStop(rt)
  /\ Goto(id, IF call[id].intent = "stop" THEN "ready" ELSE "invalidated")
  /\ UNCHANGED <<chan, starts, serverVars>>

\* The second lock of invalidate_forget().
RevokeLocally(id) ==
  /\ At(id, "invalidated")
  /\ rt' = Revoke(rt)
  /\ Goto(id, "ready")
  /\ UNCHANGED <<chan, starts, serverVars>>

\* The send waits for room in the channel and fails once the server is gone.
SendIntent(id) ==
  /\ At(id, "ready")
  /\ Goto(id, "idle")
  /\ IF server = "exited"
     THEN rt' = Fail(rt, id) /\ UNCHANGED chan
     ELSE /\ Len(chan) < IntentCapacity
          /\ chan' = Append(chan, [id |-> id, intent |-> call[id].intent,
                                   generation |-> call[id].generation])
          /\ UNCHANGED rt
  /\ UNCHANGED <<starts, serverVars>>

RunDiagnostics(id) ==
  /\ Idle(id)
  /\ "run_diagnostics" \in Uses[id]
  /\ ~Known(rt, id)
  /\ rt' = Succeed(Enqueue(rt, id, "run_diagnostics"), id)
  /\ UNCHANGED <<chan, call, starts, serverVars>>

Caller(id) ==
  \/ CheckStart(id)
  \/ CheckControl(id)
  \/ AcceptChecked(id)
  \/ \E intent \in {"stop", "forget_peer"} : AcceptStop(id, intent)
  \/ Invalidate(id)
  \/ RevokeLocally(id)
  \/ SendIntent(id)
  \/ RunDiagnostics(id)

-------------------------------------------------------------------------------
(* The server task: leaving a connection or the service *)

NoCapture == [binding |-> [conn |-> 0, generation |-> 0], started |-> FALSE,
              silent |-> 0, outcome |-> "CaptureStopped"]

\* run_control_connection returns: its locals are dropped.
DropConnection ==
  /\ policy' = DefaultPolicy
  /\ request' = None
  /\ requestOp' = None
  /\ capture' = NoCapture
  /\ forwarded' = {}
  /\ approved' = None

\* Every result but ForgotPeer goes through connection_lost.
EndConnection(r) ==
  /\ server' = "accept"
  /\ rt' = ConnectionLost(r)
  /\ DropConnection

Exit(r) ==
  /\ server' = "exited"
  /\ rt' = r
  /\ DropConnection

\* forget_trust removes the record, or fails and leaves it; no record is fine.
ForgetTrust(ok) ==
  /\ record \/ ok
  /\ record' = (record /\ ~ok)

\* The next intent is i; a full channel has room again.
Receive(i) ==
  /\ chan # <<>>
  /\ i = Head(chan)
  /\ chan' = Tail(chan)

Intents == {chan[k] : k \in DOMAIN chan}

\* An arm of the capture's select! leaves the loop: the policy has changed, the
\* worker is still bound, and the snapshot is whatever the arm published.  Of
\* what the loop kept, only the binding is used again.
BreakLoop(r, p, outcome) ==
  /\ server' = "stopping"
  /\ rt' = r
  /\ policy' = p
  /\ capture' = [NoCapture EXCEPT !.binding = capture.binding,
                                 !.outcome = outcome]
  /\ forwarded' = {}
  /\ UNCHANGED <<request, requestOp, approved, worker>>

\* The media task has been awaited and the worker is reset; a dead one fails.
ResetOutput ==
  /\ server = "stopping"
  /\ server' = "reset"
  /\ IF worker.alive
     THEN worker' = [worker EXCEPT !.bound = None] /\ UNCHANGED rt
     ELSE rt' = SetOutputFailed(rt) /\ UNCHANGED worker
  /\ UNCHANGED <<chan, callerVars, connectionVars, record, conn, requests>>

\* Mutation: the end of the capture is not published.
Unpublished(r, p) ==
  IF requestOp = None THEN r ELSE Fail(r, requestOp)

\* What the runtime is told at the end of a capture: a Start without a frame
\* failed, and the policy is published.
TornDown(r, p) ==
  PublishPolicy(IF requestOp = None THEN r ELSE Fail(r, requestOp), p)

PublishEnd ==
  /\ server = "reset"
  /\ server' = "leaving"
  /\ rt' = TornDown(rt, policy)
  /\ UNCHANGED <<chan, callerVars, connectionVars, outsideVars>>

\* Stopped has been written to the phone, or not: the connection stays usable,
\* or it ends, or the whole service does.
LeaveCapture ==
  /\ server = "leaving"
  /\ \/ /\ capture.outcome = "CaptureStopped"
        /\ server' = "control"
        /\ request' = None
        /\ requestOp' = None
        /\ capture' = NoCapture
        /\ approved' = None
        /\ UNCHANGED <<rt, policy, forwarded>>
     \/ capture.outcome = "Disconnected" /\ EndConnection(rt)
     \/ capture.outcome = "ForgotPeer" /\ Exit(rt)
     \/ capture.outcome = "Shutdown" /\ Exit(ConnectionLost(rt))
  /\ UNCHANGED <<chan, callerVars, outsideVars>>

Teardown == ResetOutput \/ PublishEnd \/ LeaveCapture

-------------------------------------------------------------------------------
(* The server task without a phone *)

\* run_service, and run_owned_control_server up to its first loop.
Init ==
  /\ record \in BOOLEAN
  /\ worker \in [alive: BOOLEAN, bound: {None}]
  /\ server = IF record THEN "accept" ELSE "untrusted"
  /\ rt = [trust |-> IF record THEN "Trusted" ELSE "Unpaired",
           connection |-> "Offline", capture |-> "Idle",
           output |-> IF worker.alive THEN "ReadyNeutral" ELSE "Failed",
           generation |-> 0, armed |-> FALSE, camera |-> FALSE, ops |-> <<>>]
  /\ chan = <<>>
  /\ call = [id \in OpId |-> [step |-> "idle", intent |-> "stop",
                              generation |-> 0]]
  /\ starts = 0
  /\ policy = DefaultPolicy
  /\ request = None
  /\ requestOp = None
  /\ capture = NoCapture
  /\ conn = 0
  /\ requests = 0
  /\ forwarded = {}
  /\ approved = None

Needs(i, intents) == i.intent \in intents

IntentWhileUntrusted(i) ==
  /\ server = "untrusted"
  /\ Receive(i)
  /\ rt' = IF Needs(i, {"stop", "forget_peer"})
           THEN Succeed(rt, i.id) ELSE Fail(rt, i.id)
  /\ UNCHANGED <<callerVars, serverVars>>

IntentWhileOffline(i) ==
  /\ server = "accept"
  /\ ~Needs(i, {"forget_peer"})
  /\ Receive(i)
  /\ rt' = IF Needs(i, {"stop"})
           THEN Succeed(InvalidateStop(rt), i.id) ELSE Fail(rt, i.id)
  /\ UNCHANGED <<callerVars, serverVars>>

ForgetWhileOffline(i, ok) ==
  /\ server = "accept"
  /\ Needs(i, {"forget_peer"})
  /\ Receive(i)
  /\ ForgetTrust(ok)
  /\ Exit(Finish(Revoke(InvalidateStop(rt)), i.id,
                 IF ok THEN "Succeeded" ELSE "Failed"))
  /\ UNCHANGED <<callerVars, worker, conn, requests>>

\* A socket whose handshake or proof fails still reports a lost connection.
RejectConnection ==
  /\ server = "accept"
  /\ EndConnection(rt)
  /\ UNCHANGED <<chan, callerVars, outsideVars>>

\* The phone proves its key; the record is not read again at this point.
AcceptConnection ==
  /\ server = "accept"
  /\ conn < MaxConnections
  /\ server' = "control"
  /\ conn' = conn + 1
  /\ policy' = FreshPolicy(worker.alive)
  /\ rt' = PublishPolicy(rt, policy')
  /\ UNCHANGED <<chan, callerVars, request, requestOp, capture, forwarded,
                 approved, worker, record, requests>>

\* The health tick of the three loops outside a capture.
NoticeCrash ==
  /\ server \in {"untrusted", "accept", "control"}
  /\ ~worker.alive
  /\ rt' = SetOutputFailed(rt)
  /\ UNCHANGED <<chan, callerVars, serverVars>>

Shutdown ==
  /\ server \in {"untrusted", "accept", "control"}
  /\ Exit(IF server = "control" THEN ConnectionLost(rt) ELSE rt)
  /\ UNCHANGED <<chan, callerVars, outsideVars>>

-------------------------------------------------------------------------------
(* The control loop: intents *)

RefuseControl(i) ==
  /\ server = "control"
  /\ Needs(i, {"camera_control"})
  /\ Receive(i)
  /\ rt' = Fail(rt, i.id)
  /\ UNCHANGED <<callerVars, serverVars>>

RefuseStart(i) ==
  /\ server = "control"
  /\ Needs(i, {"request_start"})
  /\ request # None \/ policy.capture # "Idle"
  /\ Receive(i)
  /\ rt' = Fail(rt, i.id)
  /\ UNCHANGED <<callerVars, serverVars>>

\* The phone is asked; a failed write ends the connection.
AskPhone(i, written) ==
  /\ server = "control"
  /\ Needs(i, {"request_start"})
  /\ request = None
  /\ policy.capture = "Idle"
  /\ Receive(i)
  /\ requests' = requests + 1
  /\ IF written
     THEN /\ policy' = Requested(policy)
          /\ rt' = PublishPolicy(rt, policy')
          /\ request' = requests'
          /\ requestOp' = i.id
          /\ UNCHANGED <<server, capture, forwarded, approved>>
     ELSE EndConnection(rt)
  /\ UNCHANGED <<callerVars, worker, record, conn>>

StopRequest(i) ==
  /\ server = "control"
  /\ Needs(i, {"stop"})
  /\ Receive(i)
  /\ policy' = Stopped(policy)
  /\ request' = None
  /\ requestOp' = None
  /\ rt' = Succeed(PublishPolicy(rt, policy'), i.id)
  /\ UNCHANGED <<callerVars, server, capture, forwarded, approved, outsideVars>>

ForgetOnline(i, ok) ==
  /\ server = "control"
  /\ Needs(i, {"forget_peer"})
  /\ Receive(i)
  /\ ForgetTrust(ok)
  /\ Exit(Finish(PublishPolicy(rt, Forgotten(policy)), i.id,
                 IF ok THEN "Succeeded" ELSE "Failed"))
  /\ UNCHANGED <<callerVars, worker, conn, requests>>

-------------------------------------------------------------------------------
(* The control loop: what the phone says *)

\* Mutation: the record read when the service started is good enough.
RecordMatchedOnce == TRUE

\* trust_record_matches, before every command.
RecordMatches == record

\* Mutation: an answer to any request of this service is an answer.
AnswersAny(r) == request # None /\ r <= requests

\* require_request_id
Answers(r) == request # None /\ r = request

HearsPhone == server = "control" /\ RecordMatches

\* A revoked phone, a command outside a capture, an answer to another request,
\* a broken stream or a failed Pong: the connection ends.
RejectCommand ==
  /\ server = "control"
  /\ EndConnection(rt)
  /\ UNCHANGED <<chan, callerVars, outsideVars>>

ForgetByPhone(ok) ==
  /\ HearsPhone
  /\ ForgetTrust(ok)
  /\ IF ok THEN Exit(rt) ELSE EndConnection(rt)
  /\ UNCHANGED <<chan, callerVars, worker, conn, requests>>

StartRejected(r) ==
  /\ HearsPhone
  /\ Answers(r)
  /\ policy' = Stopped(policy)
  /\ rt' = IF requestOp = None THEN rt
           ELSE Fail(PublishPolicy(rt, policy'), requestOp)
  /\ request' = None
  /\ requestOp' = None
  /\ UNCHANGED <<chan, callerVars, server, capture, forwarded, approved,
                 outsideVars>>

\* Consent arms the policy; the grant is published before it is written.
Grant(r) ==
  /\ HearsPhone
  /\ Answers(r)
  /\ server' = "granting"
  /\ policy' = Granted(policy)
  /\ rt' = PublishPolicy(rt, policy')
  /\ capture' = [NoCapture EXCEPT !.binding =
                   [conn |-> conn, generation |-> policy'.generation]]
  /\ approved' = r
  /\ UNCHANGED <<chan, callerVars, request, requestOp, forwarded, outsideVars>>

\* The grant cannot be written.
GrantLost ==
  /\ server = "granting"
  /\ EndConnection(rt)
  /\ UNCHANGED <<chan, callerVars, outsideVars>>

CanBind == worker.alive /\ worker.bound = None

StartCapture ==
  /\ server = "granting"
  /\ CanBind
  /\ server' = "capturing"
  /\ worker' = [worker EXCEPT !.bound = capture.binding]
  /\ UNCHANGED <<rt, chan, callerVars, connectionVars, record, conn, requests>>

\* The output worker cannot be bound.
BindFails ==
  /\ server = "granting"
  /\ ~CanBind
  /\ LET failed == PublishPolicy(SetOutputFailed(rt), Stopped(policy))
     IN  EndConnection(IF requestOp = None THEN failed
                       ELSE Fail(failed, requestOp))
  /\ UNCHANGED <<chan, callerVars, outsideVars>>

Granting == GrantLost \/ StartCapture \/ BindFails

-------------------------------------------------------------------------------
(* The capture loop: what the phone says *)

InCapture == server = "capturing" /\ RecordMatches

\* The first command of a phone whose record is gone ends the service.
RevokedInCapture ==
  /\ server = "capturing"
  /\ ~RecordMatches
  /\ BreakLoop(rt, Forgotten(policy), "ForgotPeer")
  /\ UNCHANGED <<chan, callerVars, record, conn, requests>>

\* A late acknowledgement, of another generation or after Stop, is ignored.
CameraState(acked, ok) ==
  /\ InCapture
  /\ rt.armed
  /\ rt.generation = capture.binding.generation
  /\ rt' = LET seen == [rt EXCEPT !.camera = TRUE]
           IN  IF acked = None THEN seen
               ELSE Finish(seen, acked, IF ok THEN "Succeeded" ELSE "Failed")
  /\ UNCHANGED <<chan, callerVars, serverVars>>

Ping ==
  /\ InCapture
  /\ capture' = [capture EXCEPT !.silent = 0]
  /\ UNCHANGED <<rt, chan, callerVars, server, policy, request, requestOp,
                 forwarded, approved, outsideVars>>

\* The Pong cannot be written (the policy stays armed), or the phone says
\* goodbye.
PhoneLost ==
  /\ InCapture
  /\ \/ BreakLoop(rt, Lost(policy), "Disconnected")
     \/ BreakLoop(rt, Stopped(Lost(policy)), "Disconnected")
  /\ UNCHANGED <<chan, callerVars, record, conn, requests>>

\* The phone's Stop, on the control or on the media connection; or the media
\* connection failed, which is published at once.
StopByPhone ==
  /\ server = "capturing"
  /\ \E r \in {rt, PublishPolicy(rt, Stopped(policy))} :
       BreakLoop(r, Stopped(policy), "CaptureStopped")
  /\ UNCHANGED <<chan, callerVars, record, conn, requests>>

ForgetInCaptureByPhone(ok) ==
  /\ InCapture
  /\ ForgetTrust(ok)
  /\ BreakLoop(PublishPolicy(rt, Forgotten(policy)), Forgotten(policy),
               IF ok THEN "ForgotPeer" ELSE "Disconnected")
  /\ UNCHANGED <<chan, callerVars, conn, requests>>

\* A broken control stream, or a command a capture has no place for.
BreakCapture ==
  /\ server = "capturing"
  /\ BreakLoop(rt, Stopped(policy), "Disconnected")
  /\ UNCHANGED <<chan, callerVars, record, conn, requests>>

-------------------------------------------------------------------------------
(* The capture loop: media, timers, intents *)

\* The runtime after a frame: it starts the capture, and is live.
Shown(r, p) ==
  PublishPolicy(IF capture.started \/ requestOp = None THEN r
                ELSE Succeed(r, requestOp), p)

FrameWritten ==
  /\ server = "capturing"
  /\ worker.alive
  /\ policy' = Framed(policy)
  /\ rt' = Shown(rt, policy')
  /\ capture' = [capture EXCEPT !.started = TRUE]
  /\ UNCHANGED <<chan, callerVars, server, request, requestOp, forwarded,
                 approved, outsideVars>>

FrameFails ==
  /\ server = "capturing"
  /\ ~worker.alive
  /\ BreakLoop(SetOutputFailed(Shown(rt, Framed(policy))),
               Stopped(Framed(policy)), "CaptureStopped")
  /\ UNCHANGED <<chan, callerVars, record, conn, requests>>

\* The lease tick.  Without a frame for MAX_FRAME_AGE_MS the policy is blanked;
\* it is not published here.
LeaseTick(stale) ==
  /\ server = "capturing"
  /\ IF capture.silent + 1 < LeaseTicks
     THEN /\ capture' = [capture EXCEPT !.silent = @ + 1]
          /\ policy' = IF stale THEN Blanked(policy) ELSE policy
          /\ UNCHANGED <<rt, server, request, requestOp, forwarded, approved,
                         worker>>
     ELSE BreakLoop(rt, Stopped(policy), "CaptureStopped")
  /\ UNCHANGED <<chan, callerVars, record, conn, requests>>

CrashStopsCapture ==
  /\ server = "capturing"
  /\ ~worker.alive
  /\ BreakLoop(SetOutputFailed(rt), Stopped(policy), "CaptureStopped")
  /\ UNCHANGED <<chan, callerVars, record, conn, requests>>

StaleControl(i) ==
  \/ i.generation # capture.binding.generation
  \/ ~rt.armed
  \/ rt.generation # i.generation

RefuseInCapture(i) ==
  /\ server = "capturing"
  /\ \/ Needs(i, {"request_start"})
     \/ Needs(i, {"camera_control"}) /\ StaleControl(i)
  /\ Receive(i)
  /\ rt' = Fail(rt, i.id)
  /\ UNCHANGED <<callerVars, serverVars>>

\* A failed write leaves the loop by "?", past its teardown.
ForwardControl(i, written) ==
  /\ server = "capturing"
  /\ Needs(i, {"camera_control"})
  /\ ~StaleControl(i)
  /\ Receive(i)
  /\ IF written
     THEN /\ forwarded' = forwarded \cup {i.id}
          /\ UNCHANGED <<rt, server, policy, request, requestOp, capture,
                         approved>>
     ELSE EndConnection(rt)
  /\ UNCHANGED <<callerVars, outsideVars>>

\* Mutation: the operation is left to the teardown, which does not know it.
StopUnanswered(r, id) == r

StopAnswered(r, id) == Succeed(r, id)

StopByDesktop(i) ==
  /\ server = "capturing"
  /\ Needs(i, {"stop"})
  /\ Receive(i)
  /\ BreakLoop(StopAnswered(PublishPolicy(rt, Stopped(policy)), i.id),
               Stopped(policy), "CaptureStopped")
  /\ UNCHANGED <<callerVars, record, conn, requests>>

ForgetInCapture(i, ok) ==
  /\ server = "capturing"
  /\ Needs(i, {"forget_peer"})
  /\ Receive(i)
  /\ ForgetTrust(ok)
  /\ BreakLoop(Finish(PublishPolicy(rt, Forgotten(policy)), i.id,
                      IF ok THEN "Succeeded" ELSE "Failed"),
               Forgotten(policy), "ForgotPeer")
  /\ UNCHANGED <<callerVars, conn, requests>>

ShutdownInCapture ==
  /\ server = "capturing"
  /\ BreakLoop(rt, Stopped(policy), "Shutdown")
  /\ UNCHANGED <<chan, callerVars, record, conn, requests>>

-------------------------------------------------------------------------------
(* What happens outside the daemon *)

WorkerCrash ==
  /\ worker.alive
  /\ worker' = [worker EXCEPT !.alive = FALSE]
  /\ UNCHANGED <<rt, chan, callerVars, server, connectionVars, record, conn,
                 requests>>

\* The command line's "pair forget", in a process of its own.
ForgetFromCli ==
  /\ record
  /\ record' = FALSE
  /\ UNCHANGED <<rt, chan, callerVars, server, connectionVars, worker, conn,
                 requests>>

-------------------------------------------------------------------------------
HandleIntent ==
  \E i \in Intents, ok \in BOOLEAN :
    \/ IntentWhileUntrusted(i)
    \/ IntentWhileOffline(i)
    \/ ForgetWhileOffline(i, ok)
    \/ RefuseControl(i)
    \/ RefuseStart(i)
    \/ AskPhone(i, ok)
    \/ StopRequest(i)
    \/ ForgetOnline(i, ok)
    \/ RefuseInCapture(i)
    \/ ForwardControl(i, ok)
    \/ StopByDesktop(i)
    \/ ForgetInCapture(i, ok)

Phone ==
  \/ RejectConnection
  \/ AcceptConnection
  \/ RejectCommand
  \/ \E r \in 1..requests :
       \/ StartRejected(r)
       \/ Grant(r)
  \/ \E ok \in BOOLEAN : ForgetByPhone(ok) \/ ForgetInCaptureByPhone(ok)
  \/ RevokedInCapture
  \/ \E acked \in forwarded \cup {None}, ok \in BOOLEAN : CameraState(acked, ok)
  \/ Ping
  \/ PhoneLost
  \/ StopByPhone
  \/ BreakCapture
  \/ FrameWritten
  \/ FrameFails

Lease == \E stale \in BOOLEAN : LeaseTick(stale)

Environment == WorkerCrash \/ ForgetFromCli

Next ==
  \/ \E id \in OpId : Caller(id)
  \/ HandleIntent
  \/ Phone
  \/ Granting
  \/ Teardown
  \/ Lease
  \/ NoticeCrash
  \/ CrashStopsCapture
  \/ Shutdown
  \/ ShutdownInCapture
  \/ Environment

\* An accepted call runs to its end: its task is scheduled, and the channel
\* serves its senders in turn.  The server's select! chooses among its ready
\* branches at random, so none of them waits forever.  A write to the phone and
\* the worker's reset return, with whatever result.
Fairness ==
  /\ \A id \in OpId : /\ WF_vars(AcceptChecked(id))
                       /\ WF_vars(Invalidate(id))
                       /\ WF_vars(RevokeLocally(id))
                       /\ SF_vars(SendIntent(id))
  /\ WF_vars(HandleIntent)
  /\ WF_vars(Granting)
  /\ WF_vars(Teardown)
  /\ WF_vars(Lease)

Spec == Init /\ [][Next]_vars /\ Fairness

-------------------------------------------------------------------------------
(* Properties *)

Entries(r) == {r.ops[i] : i \in DOMAIN r.ops}

\* A phone that answers late, after its request was stopped and another one was
\* sent, does not start a capture: the policy is armed only from the consent to
\* the last request that was sent until that capture has been torn down
\* (require_request_id, control_server.rs).
ConsentIsForLastRequest ==
  policy.armed =>
    /\ server \in {"granting", "capturing", "stopping", "reset", "leaving"}
    /\ approved = requests

\* However a connection ends - in the middle of a capture, of a grant, or of a
\* write - no snapshot of the runtime offers a session once the server is back
\* to accepting (connection_lost, service_runtime.rs).
NoSessionWhileOffline ==
  server = "accept" =>
    /\ ~rt.armed
    /\ rt.capture = "Idle"
    /\ rt.output # "ReadyLive"

\* A snapshot that says "live" names the generation of the capture in hand.  It
\* may outlive the policy, which an exit of the loop stops first, and the
\* worker's binding, which the teardown resets next; it never outlives the
\* teardown, whatever callers, the phone and a crash of the worker do between
\* its steps (publish_policy, run_active_capture).
LiveIsBoundCapture ==
  rt.output = "ReadyLive" =>
    /\ server \in {"capturing", "stopping", "reset"}
    /\ rt.armed
    /\ rt.generation = capture.binding.generation
    /\ server # "reset" => worker.bound = capture.binding
    /\ server = "capturing" => policy.generation = rt.generation

\* Once the output has failed, no later connection reports it as ready: a
\* connection's fresh policy does not overwrite it (publish_policy).
OutputFailureIsSticky ==
  [][rt.output = "Failed" => rt'.output = "Failed"]_vars

\* An operation's outcome is final: a frame, an acknowledgement or a teardown
\* that comes after Stop cancelled it changes nothing (finish).
OutcomesAreFinal ==
  [][\A before \in Entries(rt), after \in Entries(rt') :
       before.id = after.id /\ before.state # "Pending"
         => after.state = before.state]_vars

\* An accepted Stop completes, whatever the server is doing, unless the service
\* itself ends first.
StopCompletes ==
  \A id \in OpId :
    (\E o \in Entries(rt) : o.id = id /\ o.intent = "stop" /\ o.state = "Pending")
      ~> (server = "exited" \/ \A o \in Entries(rt) :
                                   o.id = id => o.state # "Pending")

\* A phone whose record was removed by another process loses its capture, even
\* if it goes on pinging and sending frames (trust_record_matches).
RevocationEndsCapture == (~record /\ policy.armed) ~> ~policy.armed

-------------------------------------------------------------------------------
(* What the repository says and the code does not keep *)

\* capture.rs: all exit paths tear down the resources of the capture.
BindingEndsWithCapture ==
  server \notin {"capturing", "stopping"} /\ worker.alive => worker.bound = None

\* service_runtime.rs: accepting Stop invalidates the authorization.  What is
\* left of the capture does not restore it: only a new consent does.
StopIsNotUndone == [][~rt.armed /\ rt'.armed => ~policy.armed]_vars

\* README.md: an accepted Start exposes its completion; somebody still has it.
PendingStartIsHeld ==
  \A o \in Entries(rt) :
    o.intent = "request_start" /\ o.state = "Pending" /\ server # "exited" =>
      \/ call[o.id].step = "ready"
      \/ \E i \in Intents : i.id = o.id
      \/ requestOp = o.id

\* docs/04: "Live" only while fresh frames reach the output, as long as the
\* capture goes on.
LiveIsFresh ==
  server = "capturing" /\ rt.output = "ReadyLive" => policy.output = "ReadyLive"

\* Stated for the same reason: an operation succeeds by its own intent, not by
\* that of an earlier operation with its identifier which left the history while
\* it was pending (ServiceRuntime::enqueue, finish).
SuccessIsItsOwn ==
  [][\A id \in OpId :
       /\ \E o \in Entries(rt) : o.id = id /\ o.state = "Pending"
       /\ \E o \in Entries(rt') : o.id = id /\ o.state = "Succeeded"
       => Idle(id) /\ \A i \in DOMAIN chan' : chan'[i].id # id]_vars
===============================================================================
