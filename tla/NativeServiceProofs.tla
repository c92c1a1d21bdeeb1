-------------------------- MODULE NativeServiceProofs --------------------------
(***************************************************************************)
(* Proofs about NativeService, for any callers, any histories and channels *)
(* and any lease.                                                          *)
(*                                                                         *)
(* The runtime is changed through a few operations (finish, publish,       *)
(* enqueue, ...): a lemma says of each what it leaves alone (Settles) or   *)
(* may change (Follows).  The steps of the server are then shown to keep   *)
(* IInv, one lemma for the steps that end alike.                           *)
(***************************************************************************)
EXTENDS NativeService, TLAPS

Outcome == {"Succeeded", "Failed"}

\* Every operation of the history has an identifier of its own.
Unique(r) == \A i, j \in DOMAIN r.ops : r.ops[i].id = r.ops[j].id => i = j

Sound(r) == r \in Runtime /\ Len(r.ops) <= MaxOperations /\ Unique(r)

\* The runtime r becomes s without a new operation: outcomes stay as they are,
\* and a failed output stays failed.
Settles(r, s) ==
  /\ s \in Runtime
  /\ Len(s.ops) = Len(r.ops)
  /\ \A i \in DOMAIN r.ops :
       /\ s.ops[i].id = r.ops[i].id
       /\ r.ops[i].state # "Pending" => s.ops[i].state = r.ops[i].state
  /\ r.output = "Failed" => s.output = "Failed"

\* What any step may make of the runtime.
Follows(r, s) ==
  /\ Sound(s)
  /\ \A before \in Entries(r), after \in Entries(s) :
       before.id = after.id /\ before.state # "Pending"
         => after.state = before.state
  /\ r.output = "Failed" => s.output = "Failed"

\* Nothing of a session is to be seen.
Off(r) == ~r.armed /\ r.capture = "Idle" /\ r.output # "ReadyLive"

\* Two settlements in a row are one (publish after finish, say).
LEMMA SettlesAgain ==
  ASSUME NEW r \in Runtime, NEW s, NEW t, Settles(r, s), Settles(s, t)
  PROVE  Settles(r, t)
<1>1. DOMAIN r.ops = DOMAIN s.ops
  BY DEF Settles, Runtime
<1> QED BY <1>1 DEF Settles

\* Leaving the runtime alone settles it.
LEMMA SettlesItself ==
  ASSUME NEW r \in Runtime
  PROVE  Settles(r, r)
BY DEF Settles, Runtime

\* What settles a sound runtime is something a step may do.
LEMMA SettlesFollows ==
  ASSUME NEW r, NEW s, Sound(r), Settles(r, s)
  PROVE  Follows(r, s)
<1>1. DOMAIN r.ops = DOMAIN s.ops
  BY DEF Settles, Runtime, Sound
<1>2. Sound(s)
  BY <1>1 DEF Settles, Sound, Unique
<1>3. ASSUME NEW i \in DOMAIN r.ops, NEW j \in DOMAIN s.ops,
             r.ops[i].id = s.ops[j].id, r.ops[i].state # "Pending"
      PROVE  s.ops[j].state = r.ops[i].state
  BY <1>1, <1>3 DEF Settles, Sound, Unique
<1> QED BY <1>2, <1>3 DEF Follows, Entries, Settles

\* Operations that replace those of a history, one by one, are a history.
LEMMA OpsTyped ==
  ASSUME NEW q \in Seq(Operation), NEW m \in [DOMAIN q -> Operation]
  PROVE  m \in Seq(Operation) /\ Len(m) = Len(q)
<1>1. DOMAIN q = 1 .. Len(q) /\ Len(q) \in Nat
  OBVIOUS
<1> QED BY <1>1

\* An operation with its outcome filled in is the same operation.
LEMMA OpSettled ==
  ASSUME NEW o \in Operation, NEW state \in Outcome
  PROVE  LET s == [o EXCEPT !.state = state]
         IN  s \in Operation /\ s.id = o.id
BY DEF Operation, Outcome

\* finish: an outcome that is known is not changed.
LEMMA FinishSettles ==
  ASSUME NEW r \in Runtime, NEW id, NEW state \in Outcome
  PROVE  LET s == Finish(r, id, state)
         IN  /\ Settles(r, s)
             /\ s.output = r.output /\ s.armed = r.armed
             /\ s.capture = r.capture
             /\ s.generation = r.generation
<1> DEFINE ops == [i \in DOMAIN r.ops |->
                     IF r.ops[i].id = id /\ r.ops[i].state = "Pending"
                     THEN [r.ops[i] EXCEPT !.state = state] ELSE r.ops[i]]
           s == [r EXCEPT !.ops = ops]
<1>1. r.ops \in Seq(Operation) /\ \A i \in DOMAIN r.ops : r.ops[i] \in Operation
  BY DEF Runtime
<1>2. ops \in [DOMAIN r.ops -> Operation]
  BY <1>1, OpSettled, Zenon
<1>3. ops \in Seq(Operation) /\ Len(ops) = Len(r.ops)
  BY <1>1, <1>2, OpsTyped, Zenon
<1>4. \A i \in DOMAIN r.ops :
        /\ ops[i].id = r.ops[i].id
        /\ r.ops[i].state # "Pending" => ops[i].state = r.ops[i].state
  BY <1>1, OpSettled, Zenon
<1> HIDE DEF ops
<1>5. /\ s \in Runtime /\ s.ops = ops /\ s.output = r.output
      /\ s.armed = r.armed /\ s.capture = r.capture
      /\ s.generation = r.generation
  BY <1>3 DEF Runtime
<1>6. Settles(r, s)
  BY <1>3, <1>4, <1>5 DEF Settles
<1>7. Finish(r, id, state) = s
  BY DEF Finish, ops
<1> QED BY <1>5, <1>6, <1>7

\* publish: the policy is copied, but an output it never saw is kept.
LEMMA PublishSettles ==
  ASSUME NEW r \in Runtime, NEW p \in Snapshot
  PROVE  LET s == PublishPolicy(r, p)
         IN  /\ Settles(r, s)
             /\ s.armed = p.armed /\ s.capture = p.capture
             /\ s.generation = p.generation
             /\ s.output = "ReadyLive" =>
                  \/ p.output = "ReadyLive"
                  \/ p.output = "Missing" /\ r.output = "ReadyLive"
BY DEF PublishPolicy, Settles, Runtime, Snapshot

\* invalidate_stop: nothing of the session is to be seen afterwards.
LEMMA InvalidateSettles ==
  ASSUME NEW r \in Runtime
  PROVE  Settles(r, InvalidateStop(r)) /\ Off(InvalidateStop(r))
<1> DEFINE ops == [i \in DOMAIN r.ops |->
                     IF /\ r.ops[i].intent \in
                             {"request_start", "camera_control"}
                        /\ r.ops[i].state = "Pending"
                     THEN [r.ops[i] EXCEPT !.state = "Failed"] ELSE r.ops[i]]
           s == InvalidateStop(r)
<1>1. r.ops \in Seq(Operation) /\ \A i \in DOMAIN r.ops : r.ops[i] \in Operation
  BY DEF Runtime
<1>2. ops \in [DOMAIN r.ops -> Operation]
  BY <1>1, OpSettled, Zenon DEF Outcome
<1>3. ops \in Seq(Operation) /\ Len(ops) = Len(r.ops)
  BY <1>1, <1>2, OpsTyped, Zenon
<1>4. \A i \in DOMAIN r.ops :
        /\ ops[i].id = r.ops[i].id
        /\ r.ops[i].state # "Pending" => ops[i].state = r.ops[i].state
  BY <1>1, OpSettled, Zenon DEF Outcome
<1> DEFINE generation == IF r.capture # "Idle" \/ r.armed THEN r.generation + 1
                         ELSE r.generation
           output == Neutral(r.output)
<1>5. InvalidateStop(r) =
        [r EXCEPT !.generation = generation, !.capture = "Idle",
                  !.armed = FALSE, !.output = output, !.camera = FALSE,
                  !.ops = ops]
  BY DEF InvalidateStop
<1>6. /\ generation \in Nat /\ output \in OutputState \ {"ReadyLive"}
      /\ r.output = "Failed" => output = "Failed"
  BY DEF Runtime, Neutral, OutputState
<1> HIDE DEF ops, generation, output
<1>7. /\ s \in Runtime /\ Off(s) /\ s.ops = ops /\ s.output = output
  <2>1. s \in Runtime
    BY <1>3, <1>5, <1>6 DEF Runtime, CaptureState
  <2>2. Off(s) /\ s.ops = ops /\ s.output = output
    BY <1>5, <1>6 DEF Runtime, Off
  <2> QED BY <2>1, <2>2
<1> QED BY <1>3, <1>4, <1>6, <1>7 DEF Settles

\* The connection is lost: the session is invalidated with it.
LEMMA LostSettles ==
  ASSUME NEW r \in Runtime
  PROVE  Settles(r, ConnectionLost(r)) /\ Off(ConnectionLost(r))
BY InvalidateSettles DEF ConnectionLost, Settles, Off, Runtime, ConnectionState

\* revoke: only trust and connection change.
LEMMA RevokeSettles ==
  ASSUME NEW r \in Runtime
  PROVE  /\ Settles(r, Revoke(r))
         /\ Revoke(r).output = r.output /\ Revoke(r).armed = r.armed
         /\ Revoke(r).capture = r.capture
         /\ Revoke(r).generation = r.generation
BY DEF Revoke, Settles, Runtime, ConnectionState, TrustState

\* set_output_failed: operations stay.
LEMMA FailedSettles ==
  ASSUME NEW r \in Runtime
  PROVE  Settles(r, SetOutputFailed(r)) /\ SetOutputFailed(r).output = "Failed"
BY DEF SetOutputFailed, Settles, Runtime, OutputState

\* enqueue: a new identifier joins the history, and the oldest operation may
\* leave it.
LEMMA EnqueueFollows ==
  ASSUME NEW r, Sound(r), NEW id \in OpId,
         NEW intent \in Intent \cup {"run_diagnostics"}, ~Known(r, id)
  PROVE  LET s == Enqueue(r, id, intent)
         IN  /\ Follows(r, s)
             /\ s.output = r.output /\ s.armed = r.armed
             /\ s.capture = r.capture
             /\ s.generation = r.generation
<1> DEFINE o == [id |-> id, intent |-> intent, state |-> "Pending"]
           added == Append(r.ops, o)
           ops == IF Len(added) > MaxOperations THEN Tail(added) ELSE added
           s == [r EXCEPT !.ops = ops]
<1>1. o \in Operation /\ o.id = id /\ o.state = "Pending"
  BY DEF Operation
<1>2. r \in Runtime /\ r.ops \in Seq(Operation) /\ Len(r.ops) <= MaxOperations
  BY DEF Sound, Runtime
<1> HIDE DEF o
<1>3. /\ added \in Seq(Operation) /\ Len(added) = Len(r.ops) + 1
      /\ \A i \in DOMAIN added :
           added[i] = IF i = Len(added) THEN o ELSE r.ops[i]
  BY <1>1, <1>2
<1>4. \A i \in DOMAIN r.ops : r.ops[i].id # id
  BY DEF Known
<1>5. \A i, j \in DOMAIN added : added[i].id = added[j].id => i = j
  BY <1>1, <1>2, <1>3, <1>4 DEF Sound, Unique
<1>6. \A i \in DOMAIN added :
        added[i] = o \/ \E j \in DOMAIN r.ops : added[i] = r.ops[j]
  BY <1>2, <1>3
<1> HIDE DEF added
<1>7. Len(added) > MaxOperations =>
        /\ Tail(added) \in Seq(Operation) /\ Len(Tail(added)) = Len(added) - 1
        /\ \A i \in DOMAIN Tail(added) :
             i + 1 \in DOMAIN added /\ Tail(added)[i] = added[i + 1]
  BY <1>3, ConstantsOK
<1>8. /\ ops \in Seq(Operation) /\ Len(ops) <= MaxOperations
      /\ \A i, j \in DOMAIN ops : ops[i].id = ops[j].id => i = j
  BY <1>2, <1>3, <1>5, <1>7, ConstantsOK
<1>9. \A i \in DOMAIN ops :
        ops[i] = o \/ \E j \in DOMAIN r.ops : ops[i] = r.ops[j]
  BY <1>3, <1>6, <1>7
<1> HIDE DEF ops
<1>10. /\ s \in Runtime /\ s.ops = ops /\ s.output = r.output
       /\ s.armed = r.armed /\ s.capture = r.capture
       /\ s.generation = r.generation
  BY <1>2, <1>8 DEF Runtime
<1>11. Sound(s)
  BY <1>8, <1>10 DEF Sound, Unique
<1>12. ASSUME NEW i \in DOMAIN r.ops, NEW j \in DOMAIN s.ops,
              r.ops[i].id = s.ops[j].id
       PROVE  s.ops[j].state = r.ops[i].state
  <2>1. s.ops[j] # o
    BY <1>1, <1>4, <1>12
  <2>2. PICK k \in DOMAIN r.ops : s.ops[j] = r.ops[k]
    BY <1>9, <1>10, <2>1
  <2> QED BY <1>12, <2>2 DEF Sound, Unique
<1>13. Follows(r, s)
  BY <1>10, <1>11, <1>12 DEF Follows, Entries
<1>14. Enqueue(r, id, intent) = s
  BY DEF Enqueue, ops, added, o
<1> QED BY <1>10, <1>13, <1>14

-------------------------------------------------------------------------------
Server == {"untrusted", "accept", "control", "granting", "capturing",
           "stopping", "reset", "leaving", "exited"}

\* A capture is in hand: granted, running, or not yet torn down.
InHand == {"granting", "capturing", "stopping", "reset", "leaving"}

Captures == [binding: Binding, started: BOOLEAN, silent: 0..LeaseTicks,
             outcome: ControlOutcome]
Calls  == [OpId -> [step: {"idle", "checked", "accepted", "invalidated",
                           "ready"},
                    intent: Intent, generation: Nat]]

\* What callers, the output worker and the command line share with the server.
Surroundings ==
  /\ chan \in Seq([id: OpId, intent: Intent, generation: Nat])
  /\ Len(chan) <= IntentCapacity
  /\ call \in Calls
  /\ worker \in [alive: BOOLEAN, bound: Binding \cup {None}]
  /\ record \in BOOLEAN
  /\ conn \in Nat /\ requests \in Nat /\ starts \in Nat

Connection ==
  /\ server \in Server
  /\ policy \in Snapshot
  /\ request \in Nat \cup {None}
  /\ requestOp \in OpId \cup {None}
  /\ capture \in Captures
  /\ forwarded \subseteq OpId
  /\ approved \in Nat \cup {None}

\* The policy is armed only with a capture in hand, and is not armed any more
\* where the connection goes on; it is live only inside the loop, and the
\* snapshot until the end of the loop is published.
NothingIsLeft ==
  /\ server \notin InHand => ~policy.armed
  /\ /\ server \in {"stopping", "reset", "leaving"}
     /\ capture.outcome = "CaptureStopped"
     => ~policy.armed
  /\ server # "capturing" => policy.output # "ReadyLive"
  /\ server \notin {"capturing", "stopping", "reset"} => rt.output # "ReadyLive"

\* A capture in hand answers the last request; it has the generation of the
\* armed policy until its loop is left, and the worker until that is reset.
CaptureIsBound ==
  /\ server \in InHand => approved = requests
  /\ server \in {"granting", "capturing"} =>
       policy.armed /\ capture.binding.generation = policy.generation
  /\ server \in {"capturing", "stopping"} => worker.bound = capture.binding

\* A live snapshot is that of the capture in hand.
LiveIsCurrent ==
  rt.output = "ReadyLive" =>
    rt.armed /\ rt.generation = capture.binding.generation

\* A policy that never saw a healthy output cannot blank a live one: it never
\* is the policy of one.
UnseenIsNotLive == policy.output = "Missing" => rt.output # "ReadyLive"

IInv ==
  /\ Sound(rt) /\ Surroundings /\ Connection
  /\ NothingIsLeft /\ CaptureIsBound /\ LiveIsCurrent /\ UnseenIsNotLive
  /\ request # None => request = requests
  /\ server = "accept" => Off(rt)

\* What every action is shown to do.
Kept == IInv' /\ Follows(rt, rt')

\* The invariant contains what the runs check as TypeOK.
LEMMA InvTypes == IInv <=> TypeOK /\ Unique(rt) /\ NothingIsLeft
                           /\ CaptureIsBound /\ LiveIsCurrent
                           /\ UnseenIsNotLive
                           /\ (request # None => request = requests)
                           /\ (server = "accept" => Off(rt))
BY DEF IInv, TypeOK, Sound, Surroundings, Connection, Server, Calls, Captures

\* What the session policy becomes, by the way it ends, is granted or is fed.
LEMMA PolicyFacts ==
  ASSUME NEW p \in Snapshot
  PROVE  /\ \A q \in {Stopped(p), Forgotten(p), Lost(p), Blanked(p)} :
              /\ q \in Snapshot /\ q.output # "ReadyLive"
              /\ q.output = "Missing" => p.output = "Missing"
         /\ ~Stopped(p).armed /\ ~Forgotten(p).armed
         /\ Blanked(p).armed = p.armed /\ Blanked(p).generation = p.generation
         /\ Requested(p) \in Snapshot /\ Requested(p).armed = p.armed
         /\ Requested(p).output = p.output
         /\ Granted(p) \in Snapshot /\ Granted(p).output # "ReadyLive"
         /\ Granted(p).output = "Missing" => p.output = "Missing"
         /\ Granted(p).armed
         /\ Framed(p) \in Snapshot /\ Framed(p).armed = p.armed
         /\ Framed(p).generation = p.generation
         /\ Framed(p).output = "Missing" => p.output = "Missing"
<1> USE DEF Snapshot, Neutral, TrustState, ConnectionState, CaptureState,
            OutputState
<1>1. /\ Stopped(p) \in Snapshot /\ Stopped(p).output # "ReadyLive"
      /\ Stopped(p).output = "Missing" => p.output = "Missing"
      /\ ~Stopped(p).armed
  <2>1. (IF p.capture # "Idle" THEN p.generation + 1 ELSE p.generation) \in Nat
    OBVIOUS
  <2> QED BY <2>1 DEF Stopped
<1>2. /\ Forgotten(p) \in Snapshot /\ Forgotten(p).output = Stopped(p).output
      /\ ~Forgotten(p).armed
  BY <1>1 DEF Forgotten
<1>3. /\ Blanked(p) \in Snapshot /\ Blanked(p).output # "ReadyLive"
      /\ Blanked(p).output = "Missing" => p.output = "Missing"
      /\ Blanked(p).armed = p.armed /\ Blanked(p).generation = p.generation
  BY DEF Blanked
<1>4. Lost(p) \in Snapshot /\ Lost(p).output = Blanked(p).output
  BY <1>3 DEF Lost
<1>5. /\ Requested(p) \in Snapshot /\ Requested(p).armed = p.armed
      /\ Requested(p).output = p.output
  BY DEF Requested
<1>6. /\ Granted(p) \in Snapshot /\ Granted(p).output # "ReadyLive"
      /\ Granted(p).output = "Missing" => p.output = "Missing"
      /\ Granted(p).armed
  <2>1. p.generation + 1 \in Nat /\ Neutral(p.output) \in OutputState
    OBVIOUS
  <2>2. Granted(p) = [p EXCEPT !.generation = p.generation + 1,
                               !.capture = "Starting", !.armed = TRUE,
                               !.output = Neutral(p.output)]
    BY DEF Granted
  <2> QED BY <2>1, <2>2
<1>7. /\ Framed(p) \in Snapshot /\ Framed(p).armed = p.armed
      /\ Framed(p).generation = p.generation
      /\ Framed(p).output = "Missing" => p.output = "Missing"
  BY DEF Framed
<1> QED BY <1>1, <1>2, <1>3, <1>4, <1>5, <1>6, <1>7, ZenonT(30)

\* What a connection starts with: a policy that is not armed, and no capture.
LEMMA FreshFacts ==
  /\ DefaultPolicy \in Snapshot /\ ~DefaultPolicy.armed
  /\ DefaultPolicy.output = "Missing"
  /\ \A healthy \in BOOLEAN :
       /\ FreshPolicy(healthy) \in Snapshot /\ ~FreshPolicy(healthy).armed
       /\ FreshPolicy(healthy).output # "ReadyLive"
  /\ NoCapture \in Captures
<1>1. /\ DefaultPolicy \in Snapshot /\ ~DefaultPolicy.armed
      /\ DefaultPolicy.output = "Missing"
  BY DEF DefaultPolicy, Snapshot, TrustState, ConnectionState, CaptureState,
         OutputState
<1>2. ASSUME NEW healthy \in BOOLEAN
      PROVE  /\ FreshPolicy(healthy) \in Snapshot
             /\ ~FreshPolicy(healthy).armed
             /\ FreshPolicy(healthy).output # "ReadyLive"
  BY <1>1 DEF FreshPolicy, Snapshot, TrustState, ConnectionState, OutputState
<1>3. NoCapture \in Captures
  BY ConstantsOK DEF NoCapture, Binding, Captures, ControlOutcome
<1> QED BY <1>1, <1>2, <1>3

\* The end of a capture, as the runtime is told.
LEMMA TornDownSettles ==
  ASSUME NEW r \in Runtime, NEW p \in Snapshot, p.output # "ReadyLive",
         p.output = "Missing" => r.output # "ReadyLive"
  PROVE  /\ Settles(r, TornDown(r, p))
         /\ TornDown(r, p).output # "ReadyLive"
<1> DEFINE failed == IF requestOp = None THEN r ELSE Fail(r, requestOp)
<1>1. /\ Settles(r, failed) /\ failed.output = r.output
      /\ failed \in Runtime
  BY FinishSettles, SettlesItself, ZenonT(30) DEF Settles, Fail, Outcome
<1> HIDE DEF failed
<1>2. /\ Settles(failed, PublishPolicy(failed, p))
      /\ PublishPolicy(failed, p).output # "ReadyLive"
  BY <1>1, PublishSettles
<1>3. Settles(r, PublishPolicy(failed, p))
  BY <1>1, <1>2, SettlesAgain, Zenon
<1> QED BY <1>2, <1>3, Zenon DEF TornDown, failed

\* A server step that ends in a policy that is neither armed nor live.
LEMMA EndKeeps ==
  ASSUME IInv, NEW r, Settles(rt, r), EndConnection(r), Surroundings'
  PROVE  Kept
<1>1. rt \in Runtime /\ r \in Runtime
  BY DEF IInv, Sound, Settles
<1>2. Settles(rt, rt') /\ Off(rt')
  BY <1>1, LostSettles, SettlesAgain, Zenon DEF EndConnection
<1>3. Follows(rt, rt')
  BY <1>2, SettlesFollows, Zenon DEF IInv
<1>4. server' = "accept" /\ DropConnection
  BY DEF EndConnection
<1>5. /\ policy' \in Snapshot /\ ~policy'.armed /\ policy'.output = "Missing"
      /\ Connection' /\ request' = None
  BY <1>4, FreshFacts DEF DropConnection, Connection, Server
<1> QED BY <1>2, <1>3, <1>4, <1>5
        DEF Kept, IInv, Follows, NothingIsLeft, CaptureIsBound, InHand,
            LiveIsCurrent, UnseenIsNotLive, Off

\* The server exits.
LEMMA ExitKeeps ==
  ASSUME IInv, NEW r, Settles(rt, r), r.output # "ReadyLive", Exit(r),
         Surroundings'
  PROVE  Kept
<1>1. Follows(rt, rt') /\ rt'.output # "ReadyLive"
  BY SettlesFollows, Zenon DEF IInv, Exit
<1>2. server' = "exited" /\ DropConnection
  BY DEF Exit
<1>3. /\ policy' \in Snapshot /\ ~policy'.armed /\ policy'.output = "Missing"
      /\ Connection' /\ request' = None
  BY <1>2, FreshFacts DEF DropConnection, Connection, Server
<1> QED BY <1>1, <1>2, <1>3
        DEF Kept, IInv, Follows, NothingIsLeft, CaptureIsBound, InHand,
            LiveIsCurrent, UnseenIsNotLive

\* An arm leaves the capture's loop.
LEMMA BreakKeeps ==
  ASSUME IInv, server = "capturing", NEW r, Settles(rt, r),
         r.output = "ReadyLive" =>
           /\ rt.output = "ReadyLive" /\ r.armed = rt.armed
           /\ r.generation = rt.generation,
         NEW p \in Snapshot, p.output # "ReadyLive",
         p.output = "Missing" => r.output # "ReadyLive",
         NEW outcome \in ControlOutcome, outcome = "CaptureStopped" => ~p.armed,
         BreakLoop(r, p, outcome),
         chan' \in Seq([id: OpId, intent: Intent, generation: Nat]),
         Len(chan') <= IntentCapacity, record' \in BOOLEAN,
         UNCHANGED <<callerVars, conn, requests>>
  PROVE  Kept
<1>1. /\ server' = "stopping" /\ rt' = r /\ policy' = p
      /\ capture' = [NoCapture EXCEPT !.binding = capture.binding,
                                     !.outcome = outcome]
      /\ forwarded' = {}
      /\ UNCHANGED <<request, requestOp, approved, worker>>
  BY DEF BreakLoop
<1>2. /\ capture' \in Captures /\ capture'.binding = capture.binding
      /\ capture'.outcome = outcome
  BY <1>1, FreshFacts DEF IInv, Connection, Captures
<1>3. Follows(rt, rt')
  BY <1>1, SettlesFollows DEF IInv
<1>4. Surroundings'
  BY <1>1 DEF IInv, Surroundings, callerVars
<1>5. Connection'
  BY <1>1, <1>2 DEF IInv, Connection, Server
<1>6. NothingIsLeft' /\ CaptureIsBound' /\ UnseenIsNotLive'
  BY <1>1, <1>2
  DEF IInv, NothingIsLeft, CaptureIsBound, UnseenIsNotLive, InHand
<1>7. LiveIsCurrent'
  BY <1>1, <1>2 DEF IInv, LiveIsCurrent
<1> QED BY <1>1, <1>3, <1>4, <1>5, <1>6, <1>7 DEF Kept, IInv, Follows

\* The policies with which a capture ends, published at once or later.
LEMMA EndingFacts ==
  ASSUME IInv
  PROVE  /\ rt \in Runtime /\ Settles(rt, rt) /\ policy \in Snapshot
         /\ \A q \in {Stopped(policy), Forgotten(policy), Lost(policy),
                      Stopped(Lost(policy)), Stopped(Framed(policy))} :
              /\ q \in Snapshot /\ q.output # "ReadyLive"
              /\ q.output = "Missing" => rt.output # "ReadyLive"
              /\ LET s == PublishPolicy(rt, q)
                 IN  Settles(rt, s) /\ s \in Runtime /\ s.output # "ReadyLive"
         /\ ~Stopped(policy).armed /\ ~Stopped(Framed(policy)).armed
<1>1. rt \in Runtime /\ Settles(rt, rt) /\ policy \in Snapshot
  BY SettlesItself DEF IInv, Sound, Connection
<1>2. /\ Lost(policy) \in Snapshot /\ Framed(policy) \in Snapshot
      /\ Lost(policy).output = "Missing" => policy.output = "Missing"
      /\ Framed(policy).output = "Missing" => policy.output = "Missing"
  BY <1>1, PolicyFacts
<1>3. ASSUME NEW q \in {Stopped(policy), Forgotten(policy), Lost(policy),
                        Stopped(Lost(policy)), Stopped(Framed(policy))}
      PROVE  /\ q \in Snapshot /\ q.output # "ReadyLive"
             /\ q.output = "Missing" => policy.output = "Missing"
  BY <1>1, <1>2, PolicyFacts
<1>4. ASSUME NEW q \in Snapshot, q.output # "ReadyLive",
             q.output = "Missing" => policy.output = "Missing"
      PROVE  /\ q.output = "Missing" => rt.output # "ReadyLive"
             /\ LET s == PublishPolicy(rt, q)
                IN  Settles(rt, s) /\ s \in Runtime /\ s.output # "ReadyLive"
  BY <1>1, <1>4, PublishSettles DEF IInv, UnseenIsNotLive, Settles
<1> QED BY <1>1, <1>2, <1>3, <1>4, PolicyFacts

\* Where a step leaves the server, and shows nothing more than before.
LEMMA RtKeeps ==
  ASSUME IInv, UNCHANGED <<server, connectionVars, requests>>, Follows(rt, rt'),
         worker'.bound = worker.bound, Surroundings',
         rt'.output = "ReadyLive" =>
           /\ rt.output = "ReadyLive" /\ rt'.armed = rt.armed
           /\ rt'.generation = rt.generation,
         rt'.armed => rt.armed, rt'.capture \in {rt.capture, "Idle"}
  PROVE  Kept
BY DEF Kept, IInv, Follows, NothingIsLeft, CaptureIsBound, LiveIsCurrent,
       UnseenIsNotLive, Connection, connectionVars, Off

-------------------------------------------------------------------------------
(* The callers *)

\* A caller that goes on to its next step.
LEMMA GotoTyped ==
  ASSUME call \in Calls, NEW id \in OpId, NEW step, Goto(id, step),
         step \in {"idle", "checked", "accepted", "invalidated", "ready"}
  PROVE  call' \in Calls
<1>1. /\ call[id].intent \in Intent /\ call[id].generation \in Nat
      /\ [call[id] EXCEPT !.step = step] =
           [step |-> step, intent |-> call[id].intent,
            generation |-> call[id].generation]
  BY DEF Calls
<1>2. [call[id] EXCEPT !.step = step] \in
        [step: {"idle", "checked", "accepted", "invalidated", "ready"},
         intent: Intent, generation: Nat]
  BY <1>1
<1>3. call' = [call EXCEPT ![id] = [call[id] EXCEPT !.step = step]]
  BY DEF Goto
<1> QED BY <1>2, <1>3, Zenon DEF Calls

\* A caller that begins.
LEMMA BeginTyped ==
  ASSUME call \in Calls, NEW id \in OpId, NEW step, NEW intent \in Intent,
         NEW generation \in Nat, Begin(id, step, intent, generation),
         step \in {"idle", "checked", "accepted", "invalidated", "ready"}
  PROVE  call' \in Calls
BY DEF Begin, Calls

\* request_operation, by its steps in any order of the callers.
LEMMA CallersKeep ==
  ASSUME IInv, NEW id \in OpId, Caller(id)
  PROVE  Kept
<1>1. CASE CheckStart(id) \/ CheckControl(id)
  <2>1. UNCHANGED <<rt, chan, serverVars>>
    BY <1>1 DEF CheckStart, CheckControl
  <2>2. call' \in Calls /\ starts' \in Nat
    <3>1. rt.generation \in Nat /\ call \in Calls /\ starts \in Nat
      BY DEF IInv, Sound, Runtime, Surroundings
    <3> QED BY <1>1, <3>1, BeginTyped DEF CheckStart, CheckControl, Intent
  <2> QED BY <2>1, <2>2, SettlesItself, SettlesFollows, RtKeeps
          DEF serverVars, outsideVars, IInv, Surroundings, Sound
<1>2. CASE AcceptChecked(id)
  <2>1. UNCHANGED <<chan, starts, serverVars>> /\ call' \in Calls
    BY <1>2, GotoTyped DEF AcceptChecked, IInv, Surroundings
  <2>2. Surroundings'
    BY <2>1 DEF serverVars, outsideVars, IInv, Surroundings
  <2>3. call[id].intent \in Intent
    BY DEF IInv, Surroundings, Calls
  <2>4. /\ Follows(rt, rt') /\ rt'.output = rt.output /\ rt'.armed = rt.armed
        /\ rt'.capture = rt.capture
        /\ rt'.generation = rt.generation
    <3>1. CASE Known(rt, id)
      BY <1>2, <3>1, SettlesItself, SettlesFollows
      DEF AcceptChecked, IInv, Sound
    <3>2. CASE ~Known(rt, id)
      BY <1>2, <2>3, <3>2, EnqueueFollows DEF AcceptChecked, IInv
    <3> QED BY <3>1, <3>2
  <2> QED BY <2>1, <2>2, <2>4, RtKeeps DEF serverVars, outsideVars
<1>3. CASE \E intent \in {"stop", "forget_peer"} : AcceptStop(id, intent)
  <2>1. PICK intent \in {"stop", "forget_peer"} : AcceptStop(id, intent)
    BY <1>3
  <2>2. UNCHANGED <<chan, starts, serverVars>> /\ call' \in Calls
    BY <2>1 DEF AcceptStop, Begin, IInv, Surroundings, Calls, Intent
  <2>3. Surroundings'
    BY <2>2 DEF serverVars, outsideVars, IInv, Surroundings
  <2>4. /\ Follows(rt, rt') /\ rt'.output = rt.output /\ rt'.armed = rt.armed
        /\ rt'.capture = rt.capture
        /\ rt'.generation = rt.generation
    BY <2>1, EnqueueFollows DEF AcceptStop, IInv, Intent
  <2> QED BY <2>2, <2>3, <2>4, RtKeeps DEF serverVars, outsideVars
<1>4. CASE Invalidate(id) \/ RevokeLocally(id)
  <2>1. UNCHANGED <<chan, starts, serverVars>> /\ call' \in Calls
    BY <1>4, GotoTyped DEF Invalidate, RevokeLocally, IInv, Surroundings
  <2>2. Surroundings'
    BY <2>1 DEF serverVars, outsideVars, IInv, Surroundings
  <2>3. /\ Settles(rt, rt')
        /\ Off(rt') \/ (/\ rt'.output = rt.output /\ rt'.armed = rt.armed
                        /\ rt'.capture = rt.capture
                        /\ rt'.generation = rt.generation)
    BY <1>4, InvalidateSettles, RevokeSettles
    DEF Invalidate, RevokeLocally, IInv, Sound
  <2>4. rt'.output \in OutputState /\ rt' \in Runtime
    BY <2>3 DEF Settles, Runtime
  <2>5. Follows(rt, rt')
    BY <2>3, SettlesFollows DEF IInv
  <2> QED BY <2>1, <2>2, <2>3, <2>4, <2>5, RtKeeps
          DEF serverVars, outsideVars, Off, OutputState
<1>5. CASE SendIntent(id)
  <2>1. UNCHANGED <<starts, serverVars>> /\ call' \in Calls
    BY <1>5, GotoTyped DEF SendIntent, IInv, Surroundings
  <2>2. /\ chan' \in Seq([id: OpId, intent: Intent, generation: Nat])
        /\ Len(chan') <= IntentCapacity
    <3>1. [id |-> id, intent |-> call[id].intent,
           generation |-> call[id].generation]
            \in [id: OpId, intent: Intent, generation: Nat]
      BY DEF IInv, Surroundings, Calls
    <3>2. CASE server = "exited"
      BY <1>5, <3>2 DEF SendIntent, IInv, Surroundings
    <3>3. CASE server # "exited"
      <4> DEFINE e == [id |-> id, intent |-> call[id].intent,
                       generation |-> call[id].generation]
      <4>1. chan' = Append(chan, e) /\ Len(chan) < IntentCapacity
        BY <1>5, <3>3, Zenon DEF SendIntent
      <4> HIDE DEF e
      <4>2. e \in [id: OpId, intent: Intent, generation: Nat]
        BY <3>1 DEF e
      <4> QED BY <4>1, <4>2, ConstantsOK DEF IInv, Surroundings
    <3> QED BY <3>2, <3>3
  <2>3. Surroundings'
    BY <2>1, <2>2 DEF serverVars, outsideVars, IInv, Surroundings
  <2>4. /\ Settles(rt, rt') /\ rt'.output = rt.output /\ rt'.armed = rt.armed
        /\ rt'.capture = rt.capture
        /\ rt'.generation = rt.generation
    BY <1>5, FinishSettles, SettlesItself
    DEF SendIntent, Fail, Outcome, IInv, Sound
  <2>5. Follows(rt, rt')
    BY <2>4, SettlesFollows DEF IInv
  <2> QED BY <2>1, <2>3, <2>4, <2>5, RtKeeps DEF serverVars, outsideVars
<1>6. CASE RunDiagnostics(id)
  <2> DEFINE s == Enqueue(rt, id, "run_diagnostics")
  <2>1. UNCHANGED <<chan, call, starts, serverVars>> /\ rt' = Succeed(s, id)
    BY <1>6 DEF RunDiagnostics
  <2>2. /\ Follows(rt, s) /\ s.output = rt.output /\ s.armed = rt.armed
        /\ s.capture = rt.capture
        /\ s.generation = rt.generation
    BY <1>6, EnqueueFollows DEF RunDiagnostics, IInv
  <2>3. ~Known(rt, id)
    BY <1>6 DEF RunDiagnostics
  <2> HIDE DEF s
  <2>4. s \in Runtime
    BY <2>2 DEF Follows, Sound
  <2>5. /\ Settles(s, rt') /\ rt'.output = s.output /\ rt'.armed = s.armed
        /\ rt'.capture = s.capture
        /\ rt'.generation = s.generation
    BY <2>1, <2>4, FinishSettles DEF Succeed, Outcome
  <2>6. Follows(s, rt')
    BY <2>2, <2>5, SettlesFollows DEF Follows
  <2>7. \A i \in DOMAIN rt'.ops :
          /\ i \in DOMAIN s.ops /\ rt'.ops[i].id = s.ops[i].id
          /\ s.ops[i].state # "Pending" => rt'.ops[i].state = s.ops[i].state
    BY <2>4, <2>5 DEF Settles, Runtime
  <2>8. Follows(rt, rt')
    BY <2>2, <2>6, <2>7 DEF Follows, Entries
  <2>9. Surroundings'
    BY <2>1 DEF serverVars, outsideVars, IInv, Surroundings
  <2> QED BY <2>1, <2>2, <2>5, <2>8, <2>9, RtKeeps DEF serverVars, outsideVars
<1> QED BY <1>1, <1>2, <1>3, <1>4, <1>5, <1>6 DEF Caller

-------------------------------------------------------------------------------
(* The server: intents *)

\* The server takes an intent out of the channel.
LEMMA Received ==
  ASSUME Surroundings, NEW i, Receive(i)
  PROVE  /\ i.id \in OpId /\ i.intent \in Intent
         /\ chan' \in Seq([id: OpId, intent: Intent, generation: Nat])
         /\ Len(chan') <= IntentCapacity
<1> DEFINE Sent == [id: OpId, intent: Intent, generation: Nat]
<1>1. chan \in Seq(Sent) /\ Len(chan) <= IntentCapacity
  BY DEF Surroundings
<1>2. chan # <<>> /\ i = Head(chan) /\ chan' = Tail(chan)
  BY DEF Receive
<1>3. i.id \in OpId /\ i.intent \in Intent
  <2>1. i \in Sent
    <3> HIDE DEF Sent
    <3> QED BY <1>1, <1>2
  <2> QED BY <2>1
<1>4. chan' \in Seq(Sent) /\ Len(chan') <= IntentCapacity
  <2> HIDE DEF Sent
  <2> QED BY <1>1, <1>2, ConstantsOK
<1> QED BY <1>3, <1>4

\* A step that is told to the runtime without a new operation.
LEMMA SettledKeeps ==
  ASSUME IInv, Settles(rt, rt'), Surroundings', Connection',
         NothingIsLeft', CaptureIsBound', LiveIsCurrent', UnseenIsNotLive',
         request' # None => request' = requests', server' = "accept" => Off(rt')
  PROVE  Kept
<1>1. Follows(rt, rt')
  BY SettlesFollows DEF IInv
<1> QED BY <1>1 DEF Kept, IInv, Follows

\* An intent that is only answered.
LEMMA AnswerKeeps ==
  ASSUME IInv, NEW i, Receive(i), UNCHANGED <<callerVars, serverVars>>,
         NEW r, Settles(rt, r), r = rt \/ Off(r),
         NEW state \in Outcome, rt' = Finish(r, i.id, state)
  PROVE  Kept
<1>1. rt \in Runtime /\ r \in Runtime
  BY DEF IInv, Sound, Settles
<1>2. /\ Settles(r, rt') /\ rt'.output = r.output /\ rt'.armed = r.armed
      /\ rt'.capture = r.capture
      /\ rt'.generation = r.generation
  BY <1>1, FinishSettles
<1>3. Settles(rt, rt')
  BY <1>1, <1>2, SettlesAgain
<1>4. Follows(rt, rt')
  BY <1>3, SettlesFollows DEF IInv
<1>5. Surroundings'
  BY Received DEF IInv, Surroundings, callerVars, serverVars, outsideVars
<1> QED BY <1>2, <1>4, <1>5, RtKeeps DEF serverVars, outsideVars, Off

\* Each intent that is only answered.
LEMMA AnswersKeep ==
  ASSUME IInv, NEW i,
         \/ IntentWhileUntrusted(i) \/ IntentWhileOffline(i)
         \/ RefuseControl(i) \/ RefuseStart(i) \/ RefuseInCapture(i)
  PROVE  Kept
<1>1. rt \in Runtime /\ Settles(rt, rt)
  BY SettlesItself DEF IInv, Sound
<1>2. CASE /\ IntentWhileOffline(i) /\ Needs(i, {"stop"})
  <2> DEFINE r == InvalidateStop(rt)
  <2>1. /\ Receive(i) /\ UNCHANGED <<callerVars, serverVars>>
        /\ rt' = Finish(r, i.id, "Succeeded")
    BY <1>2 DEF IntentWhileOffline, Succeed
  <2>2. Settles(rt, r) /\ Off(r)
    BY <1>1, InvalidateSettles
  <2> HIDE DEF r
  <2> QED BY <2>1, <2>2, AnswerKeeps DEF Off, Outcome
<1>3. CASE ~(IntentWhileOffline(i) /\ Needs(i, {"stop"}))
  <2>1. /\ Receive(i) /\ UNCHANGED <<callerVars, serverVars>>
        /\ \E state \in Outcome : rt' = Finish(rt, i.id, state)
    BY <1>3 DEF IntentWhileUntrusted, IntentWhileOffline, RefuseControl,
                RefuseStart, RefuseInCapture, Succeed, Fail, Outcome
  <2> QED BY <1>1, <2>1, AnswerKeeps
<1> QED BY <1>2, <1>3

\* The trust record is removed, or is not.
LEMMA ForgetTrustTyped ==
  ASSUME NEW ok \in BOOLEAN, record \in BOOLEAN, ForgetTrust(ok)
  PROVE  record' \in BOOLEAN
BY DEF ForgetTrust

\* forget_trust while no phone is connected.
LEMMA ForgetWhileOfflineKeeps ==
  ASSUME IInv, NEW i, NEW ok \in BOOLEAN, ForgetWhileOffline(i, ok)
  PROVE  Kept
<1> DEFINE state == IF ok THEN "Succeeded" ELSE "Failed"
           s == InvalidateStop(rt)
           t == Revoke(s)
           r == Finish(t, i.id, state)
<1>1. Receive(i) /\ ForgetTrust(ok) /\ Exit(r)
  BY DEF ForgetWhileOffline
<1>2. Surroundings'
  BY <1>1, Received, ForgetTrustTyped
  DEF ForgetWhileOffline, IInv, Surroundings, callerVars
<1>3. rt \in Runtime /\ Settles(rt, s) /\ Off(s)
  BY InvalidateSettles DEF IInv, Sound
<1> HIDE DEF s
<1>4. s \in Runtime /\ Settles(s, t) /\ t.output = s.output
  BY <1>3, RevokeSettles DEF Settles
<1> HIDE DEF t
<1>5. t \in Runtime /\ Settles(t, r) /\ r.output = t.output
  BY <1>4, FinishSettles DEF Settles, Outcome
<1> HIDE DEF r
<1>6. Settles(rt, r)
  BY <1>3, <1>4, <1>5, SettlesAgain
<1> QED BY <1>1, <1>2, <1>3, <1>4, <1>5, <1>6, ExitKeeps DEF Off

\* request_start: the phone is asked, with a new request number.
LEMMA AskPhoneKeeps ==
  ASSUME IInv, NEW i, NEW written \in BOOLEAN, AskPhone(i, written)
  PROVE  Kept
<1>1. /\ Receive(i) /\ server = "control" /\ requests' = requests + 1
      /\ UNCHANGED <<callerVars, worker, record, conn>>
  BY DEF AskPhone
<1>2. Surroundings' /\ i.id \in OpId
  <2>1. Surroundings /\ requests + 1 \in Nat
    BY DEF IInv, Surroundings
  <2> QED BY <1>1, <2>1, Received DEF Surroundings, callerVars
<1>3. CASE written
  <2>1. /\ policy' = Requested(policy) /\ rt' = PublishPolicy(rt, policy')
        /\ request' = requests' /\ requestOp' = i.id
        /\ UNCHANGED <<server, capture, forwarded, approved>>
    BY <1>3 DEF AskPhone
  <2>2. rt \in Runtime /\ policy' \in Snapshot /\ ~policy'.armed
        /\ policy'.output = policy.output
    BY <1>1, <2>1, PolicyFacts DEF IInv, Sound, Connection, NothingIsLeft,
         InHand
  <2>3. Settles(rt, rt') /\ rt'.output # "ReadyLive"
    BY <1>1, <2>1, <2>2, PublishSettles DEF IInv, NothingIsLeft
  <2>4. Connection'
    BY <1>1, <1>2, <2>1, <2>2 DEF IInv, Connection, Surroundings
  <2> QED BY <1>1, <1>2, <2>1, <2>2, <2>3, <2>4, SettledKeeps
          DEF IInv, NothingIsLeft, CaptureIsBound, LiveIsCurrent,
              UnseenIsNotLive, InHand
<1>4. CASE ~written
  BY <1>2, <1>4, EndKeeps, SettlesItself DEF AskPhone, IInv, Sound
<1> QED BY <1>3, <1>4

\* request_stop outside a capture withdraws the request.
LEMMA StopRequestKeeps ==
  ASSUME IInv, NEW i, StopRequest(i)
  PROVE  Kept
<1> DEFINE r == PublishPolicy(rt, policy')
<1>1. /\ Receive(i) /\ server = "control" /\ policy' = Stopped(policy)
      /\ request' = None /\ requestOp' = None
      /\ rt' = Finish(r, i.id, "Succeeded")
      /\ UNCHANGED <<callerVars, server, capture, forwarded, approved,
                     outsideVars>>
  BY DEF StopRequest, Succeed
<1>2. Surroundings'
  BY <1>1, Received DEF IInv, Surroundings, callerVars, outsideVars
<1>3. /\ rt \in Runtime /\ policy' \in Snapshot /\ ~policy'.armed
      /\ policy'.output # "ReadyLive"
  BY <1>1, PolicyFacts DEF IInv, Sound, Connection
<1>4. Settles(rt, r) /\ r.output # "ReadyLive" /\ r \in Runtime
  BY <1>1, <1>3, PublishSettles DEF IInv, NothingIsLeft, Settles
<1> HIDE DEF r
<1>5. Settles(r, rt') /\ rt'.output = r.output
  BY <1>1, <1>4, FinishSettles DEF Outcome
<1>6. Settles(rt, rt')
  BY <1>3, <1>4, <1>5, SettlesAgain
<1>7. Connection'
  BY <1>1, <1>3 DEF IInv, Connection
<1> QED BY <1>1, <1>2, <1>3, <1>4, <1>5, <1>6, <1>7, SettledKeeps
        DEF NothingIsLeft, CaptureIsBound, LiveIsCurrent, UnseenIsNotLive,
            InHand

\* forget_trust on a connection outside a capture.
LEMMA ForgetOnlineKeeps ==
  ASSUME IInv, NEW i, NEW ok \in BOOLEAN, ForgetOnline(i, ok)
  PROVE  Kept
<1> DEFINE state == IF ok THEN "Succeeded" ELSE "Failed"
           p == Forgotten(policy)
           s == PublishPolicy(rt, p)
           r == Finish(s, i.id, state)
<1>1. Receive(i) /\ ForgetTrust(ok) /\ Exit(r) /\ server = "control"
  BY DEF ForgetOnline
<1>2. Surroundings'
  BY <1>1, Received, ForgetTrustTyped
  DEF ForgetOnline, IInv, Surroundings, callerVars
<1>3. rt \in Runtime /\ p \in Snapshot /\ p.output # "ReadyLive"
  BY PolicyFacts DEF IInv, Sound, Connection
<1> HIDE DEF p
<1>4. s \in Runtime /\ Settles(rt, s) /\ s.output # "ReadyLive"
  BY <1>1, <1>3, PublishSettles DEF Settles, IInv, NothingIsLeft
<1> HIDE DEF s
<1>5. Settles(s, r) /\ r.output = s.output
  BY <1>4, FinishSettles DEF Outcome
<1> HIDE DEF r
<1>6. Settles(rt, r)
  BY <1>3, <1>4, <1>5, SettlesAgain
<1> QED BY <1>1, <1>2, <1>4, <1>5, <1>6, ExitKeeps

\* A camera control is passed to the phone.
LEMMA ForwardControlKeeps ==
  ASSUME IInv, NEW i, NEW written \in BOOLEAN, ForwardControl(i, written)
  PROVE  Kept
<1>1. Receive(i) /\ UNCHANGED <<callerVars, outsideVars>>
  BY DEF ForwardControl
<1>2. Surroundings' /\ i.id \in OpId
  BY <1>1, Received DEF IInv, Surroundings, callerVars, outsideVars
<1>3. rt \in Runtime /\ Settles(rt, rt)
  BY SettlesItself DEF IInv, Sound
<1>4. CASE written
  <2>1. /\ forwarded' = forwarded \cup {i.id}
        /\ UNCHANGED <<rt, server, policy, request, requestOp, capture,
                       approved>>
    BY <1>4 DEF ForwardControl
  <2>2. Connection'
    BY <1>2, <2>1 DEF IInv, Connection
  <2> QED BY <1>1, <1>2, <1>3, <2>1, <2>2, SettledKeeps
          DEF IInv, NothingIsLeft, CaptureIsBound, LiveIsCurrent,
              UnseenIsNotLive, InHand,
              outsideVars, Off
<1>5. CASE ~written
  BY <1>2, <1>3, <1>5, EndKeeps DEF ForwardControl
<1> QED BY <1>4, <1>5

\* request_stop in a capture leaves its loop.
LEMMA StopByDesktopKeeps ==
  ASSUME IInv, NEW i, StopByDesktop(i)
  PROVE  Kept
<1> DEFINE p == Stopped(policy)
           s == PublishPolicy(rt, p)
           r == Finish(s, i.id, "Succeeded")
<1>1. /\ server = "capturing" /\ Receive(i)
      /\ BreakLoop(r, p, "CaptureStopped")
      /\ UNCHANGED <<callerVars, record, conn, requests>>
  BY DEF StopByDesktop, StopAnswered, Succeed
<1>2. /\ p \in Snapshot /\ p.output # "ReadyLive" /\ ~p.armed
      /\ rt \in Runtime /\ Settles(rt, s) /\ s \in Runtime
      /\ s.output # "ReadyLive"
  BY EndingFacts
<1> HIDE DEF p, s
<1>3. Settles(s, r) /\ r.output = s.output
  BY <1>2, FinishSettles DEF Outcome
<1>4. Settles(rt, r)
  BY <1>2, <1>3, SettlesAgain
<1> HIDE DEF r
<1>5. record \in BOOLEAN /\ Surroundings
  BY DEF IInv, Surroundings
<1> QED BY <1>1, <1>2, <1>3, <1>4, <1>5, Received, BreakKeeps
        DEF ControlOutcome

\* forget_trust in a capture leaves its loop, for the end of the service.
LEMMA ForgetInCaptureKeeps ==
  ASSUME IInv, NEW i, NEW ok \in BOOLEAN, ForgetInCapture(i, ok)
  PROVE  Kept
<1> DEFINE state == IF ok THEN "Succeeded" ELSE "Failed"
           p == Forgotten(policy)
           s == PublishPolicy(rt, p)
           r == Finish(s, i.id, state)
<1>1. /\ server = "capturing" /\ Receive(i) /\ ForgetTrust(ok)
      /\ BreakLoop(r, p, "ForgotPeer")
      /\ UNCHANGED <<callerVars, conn, requests>>
  BY DEF ForgetInCapture
<1>2. /\ p \in Snapshot /\ p.output # "ReadyLive"
      /\ rt \in Runtime /\ Settles(rt, s) /\ s \in Runtime
      /\ s.output # "ReadyLive"
  BY EndingFacts
<1> HIDE DEF p, s
<1>3. Settles(s, r) /\ r.output = s.output
  BY <1>2, FinishSettles DEF Outcome
<1>4. Settles(rt, r)
  BY <1>2, <1>3, SettlesAgain
<1> HIDE DEF r
<1>5. record' \in BOOLEAN /\ Surroundings
  BY <1>1, ForgetTrustTyped DEF IInv, Surroundings
<1> QED BY <1>1, <1>2, <1>3, <1>4, <1>5, Received, BreakKeeps
        DEF ControlOutcome

\* Whatever intent the server takes.
LEMMA IntentsKeep == IInv /\ HandleIntent => Kept
BY AnswersKeep, ForgetWhileOfflineKeeps, AskPhoneKeeps, StopRequestKeeps,
   ForgetOnlineKeeps, ForwardControlKeeps, StopByDesktopKeeps,
   ForgetInCaptureKeeps, Zenon DEF HandleIntent

-------------------------------------------------------------------------------
(* The server: the phone outside a capture *)

\* The ends of a connection outside a capture, or before it could begin.
LEMMA EndsKeep ==
  ASSUME IInv, RejectConnection \/ RejectCommand \/ GrantLost \/ BindFails
  PROVE  Kept
<1>1. rt \in Runtime /\ Settles(rt, rt) /\ policy \in Snapshot
  BY SettlesItself DEF IInv, Sound, Connection
<1>2. UNCHANGED <<chan, callerVars, outsideVars>>
  BY DEF RejectConnection, RejectCommand, GrantLost, BindFails
<1>3. Surroundings'
  BY <1>2 DEF IInv, Surroundings, callerVars, outsideVars
<1> DEFINE broken == SetOutputFailed(rt)
           failed == PublishPolicy(broken, Stopped(policy))
           told == IF requestOp = None THEN failed ELSE Fail(failed, requestOp)
<1>4. Settles(rt, broken) /\ broken \in Runtime
  BY <1>1, FailedSettles DEF Settles
<1> HIDE DEF broken
<1>5. Settles(rt, failed) /\ failed \in Runtime
  <2>1. Settles(broken, failed)
    BY <1>1, <1>4, PolicyFacts, PublishSettles
  <2>2. failed \in Runtime
    BY <2>1 DEF Settles
  <2> QED BY <1>1, <1>4, <2>1, <2>2, SettlesAgain, Zenon
<1> HIDE DEF failed
<1>6. Settles(rt, told)
  BY <1>1, <1>5, FinishSettles, SettlesAgain, Zenon DEF Fail, Outcome
<1> HIDE DEF told
<1>7. EndConnection(rt) \/ EndConnection(told)
  BY Zenon DEF RejectConnection, RejectCommand, GrantLost, BindFails, told,
               failed, broken
<1> QED BY <1>1, <1>3, <1>6, <1>7, EndKeeps, Zenon

\* An accepted connection starts from a fresh policy.
LEMMA AcceptConnectionKeeps == IInv /\ AcceptConnection => Kept
<1> SUFFICES ASSUME IInv, AcceptConnection PROVE Kept
  OBVIOUS
<1>1. /\ server = "accept" /\ server' = "control" /\ conn' = conn + 1
      /\ policy' = FreshPolicy(worker.alive) /\ rt' = PublishPolicy(rt, policy')
      /\ UNCHANGED <<chan, callerVars, request, requestOp, capture, forwarded,
                     approved, worker, record, requests>>
  BY DEF AcceptConnection
<1>2. conn + 1 \in Nat /\ worker.alive \in BOOLEAN /\ rt \in Runtime
  BY DEF IInv, Surroundings, Sound
<1>3. Surroundings'
  BY <1>1, <1>2 DEF IInv, Surroundings, callerVars
<1>4. policy' \in Snapshot /\ ~policy'.armed /\ policy'.output # "ReadyLive"
  BY <1>1, <1>2, FreshFacts
<1>5. Connection'
  BY <1>1, <1>4 DEF IInv, Connection, Server
<1>6. rt.output # "ReadyLive"
  BY <1>1 DEF IInv, NothingIsLeft
<1>7. Settles(rt, rt') /\ rt'.output # "ReadyLive"
  BY <1>1, <1>2, <1>4, <1>6, PublishSettles
<1> QED BY <1>1, <1>3, <1>4, <1>5, <1>7, SettledKeeps
        DEF IInv, NothingIsLeft, CaptureIsBound, LiveIsCurrent,
            UnseenIsNotLive, InHand

\* The phone rejects a request, the pending one or an older one.
LEMMA StartRejectedKeeps ==
  ASSUME IInv, NEW r \in Nat, StartRejected(r), server = "control"
  PROVE  Kept
<1> DEFINE s == PublishPolicy(rt, policy')
<1>1. /\ policy' = Stopped(policy) /\ request' = None /\ requestOp' = None
      /\ rt' = IF requestOp = None THEN rt ELSE Finish(s, requestOp, "Failed")
      /\ UNCHANGED <<chan, callerVars, server, capture, forwarded, approved,
                     outsideVars>>
  BY DEF StartRejected, Fail
<1>2. Surroundings'
  BY <1>1 DEF IInv, Surroundings, callerVars, outsideVars
<1>3. /\ rt \in Runtime /\ policy' \in Snapshot /\ ~policy'.armed
      /\ policy'.output # "ReadyLive" /\ Settles(rt, rt)
  BY <1>1, PolicyFacts, SettlesItself DEF IInv, Sound, Connection
<1>4. Settles(rt, s) /\ s.output # "ReadyLive" /\ s \in Runtime
  BY <1>1, <1>3, PublishSettles DEF IInv, NothingIsLeft, Settles
<1> HIDE DEF s
<1>5. Settles(rt, rt') /\ rt'.output # "ReadyLive"
  <2>1. CASE requestOp = None
    BY <1>1, <1>3, <2>1 DEF IInv, NothingIsLeft
  <2>2. CASE requestOp # None
    <3>1. Settles(s, rt') /\ rt'.output = s.output
      BY <1>1, <1>4, <2>2, FinishSettles DEF Outcome
    <3> QED BY <1>3, <1>4, <3>1, SettlesAgain
  <2> QED BY <2>1, <2>2
<1>6. Connection'
  BY <1>1, <1>3 DEF IInv, Connection
<1> QED BY <1>1, <1>2, <1>3, <1>5, <1>6, SettledKeeps
        DEF NothingIsLeft, CaptureIsBound, LiveIsCurrent, UnseenIsNotLive,
            InHand

\* The phone approves: only for the last request a capture is granted.
LEMMA GrantKeeps ==
  ASSUME IInv, NEW r \in Nat, Grant(r)
  PROVE  Kept
<1>1. /\ server = "control" /\ server' = "granting"
      /\ policy' = Granted(policy) /\ rt' = PublishPolicy(rt, policy')
      /\ capture' = [NoCapture EXCEPT !.binding =
                       [conn |-> conn, generation |-> policy'.generation]]
      /\ approved' = r /\ request # None /\ r = request
      /\ UNCHANGED <<chan, callerVars, request, requestOp, forwarded,
                     outsideVars>>
  BY DEF Grant, HearsPhone, Answers
<1>2. /\ rt \in Runtime /\ policy' \in Snapshot /\ policy'.armed
      /\ policy'.output # "ReadyLive"
  BY <1>1, PolicyFacts DEF IInv, Sound, Connection
<1> DEFINE binding == [conn |-> conn, generation |-> policy'.generation]
<1>3. binding \in Binding /\ binding.generation = policy'.generation
  BY <1>2 DEF Binding, Snapshot, IInv, Surroundings
<1> HIDE DEF binding
<1>4. capture' = [NoCapture EXCEPT !.binding = binding]
  BY <1>1 DEF binding
<1>5. capture' \in Captures /\ capture'.binding = binding
  BY <1>3, <1>4, FreshFacts DEF Captures
<1>6. Surroundings'
  BY <1>1 DEF IInv, Surroundings, callerVars, outsideVars
<1>7. Connection'
  BY <1>1, <1>2, <1>5 DEF IInv, Connection, Server, Surroundings
<1>8. Settles(rt, rt') /\ rt'.output # "ReadyLive"
  BY <1>1, <1>2, PublishSettles DEF IInv, NothingIsLeft
<1>9. approved' = requests'
  BY <1>1 DEF IInv, outsideVars
<1> QED BY <1>1, <1>2, <1>3, <1>5, <1>6, <1>7, <1>8, <1>9, SettledKeeps
        DEF NothingIsLeft, CaptureIsBound, LiveIsCurrent, UnseenIsNotLive,
            InHand

\* The granted capture gets the output worker.
LEMMA StartCaptureKeeps == IInv /\ StartCapture => Kept
<1> SUFFICES ASSUME IInv, StartCapture PROVE Kept
  OBVIOUS
<1>1. /\ server = "granting" /\ server' = "capturing"
      /\ worker' = [worker EXCEPT !.bound = capture.binding]
      /\ UNCHANGED <<rt, chan, callerVars, connectionVars, record, conn,
                     requests>>
  BY DEF StartCapture
<1>2. /\ worker' \in [alive: BOOLEAN, bound: Binding \cup {None}]
      /\ worker'.bound = capture.binding
  BY <1>1 DEF IInv, Surroundings, Connection, Captures
<1>3. Surroundings'
  BY <1>1, <1>2 DEF IInv, Surroundings, callerVars
<1>4. Connection'
  BY <1>1 DEF IInv, Connection, Server, connectionVars
<1>5. Settles(rt, rt')
  BY <1>1, SettlesItself DEF IInv, Sound
<1> QED BY <1>1, <1>2, <1>3, <1>4, <1>5, SettledKeeps
        DEF IInv, NothingIsLeft, CaptureIsBound, LiveIsCurrent,
            UnseenIsNotLive, InHand, connectionVars

\* The phone forgets the desktop outside a capture.
LEMMA ForgetByPhoneKeeps ==
  ASSUME IInv, NEW ok \in BOOLEAN, ForgetByPhone(ok)
  PROVE  Kept
<1>1. /\ server = "control" /\ ForgetTrust(ok)
      /\ Exit(rt) \/ EndConnection(rt)
      /\ UNCHANGED <<chan, callerVars, worker, conn, requests>>
  BY DEF ForgetByPhone, HearsPhone
<1>2. Surroundings'
  BY <1>1, ForgetTrustTyped DEF IInv, Surroundings, callerVars
<1>3. Settles(rt, rt) /\ rt.output # "ReadyLive"
  BY <1>1, SettlesItself DEF IInv, Sound, NothingIsLeft
<1> QED BY <1>1, <1>2, <1>3, ExitKeeps, EndKeeps

-------------------------------------------------------------------------------
(* The server: the capture *)

\* A frame is shown: the runtime is told, and the pending Start succeeds.
LEMMA ShownSettles ==
  ASSUME IInv, server = "capturing"
  PROVE  LET p == Framed(policy)
         IN  /\ Settles(rt, Shown(rt, p))
             /\ p.output = "Missing" => Shown(rt, p).output # "ReadyLive"
             /\ Shown(rt, p).armed = p.armed
             /\ Shown(rt, p).generation = p.generation
<1> DEFINE p == Framed(policy)
           r == IF capture.started \/ requestOp = None THEN rt
                ELSE Finish(rt, requestOp, "Succeeded")
<1>1. /\ rt \in Runtime /\ p \in Snapshot
      /\ p.output = "Missing" => policy.output = "Missing"
  BY PolicyFacts DEF IInv, Sound, Connection
<1> HIDE DEF p
<1>2. Settles(rt, r) /\ r.output = rt.output /\ r \in Runtime
  BY <1>1, FinishSettles, SettlesItself DEF Outcome, Settles
<1> HIDE DEF r
<1>3. /\ Settles(r, PublishPolicy(r, p))
      /\ PublishPolicy(r, p).output = "ReadyLive" =>
           \/ p.output = "ReadyLive"
           \/ p.output = "Missing" /\ r.output = "ReadyLive"
      /\ PublishPolicy(r, p).armed = p.armed
      /\ PublishPolicy(r, p).generation = p.generation
  BY <1>1, <1>2, PublishSettles
<1>4. Settles(rt, PublishPolicy(r, p))
  BY <1>1, <1>2, <1>3, SettlesAgain
<1>5. p.output = "Missing" => PublishPolicy(r, p).output # "ReadyLive"
  BY <1>1, <1>2, <1>3 DEF IInv, UnseenIsNotLive
<1> QED BY <1>3, <1>4, <1>5, Zenon DEF Shown, Succeed, r, p

\* A frame is written to the output.
LEMMA FrameWrittenKeeps == IInv /\ FrameWritten => Kept
<1> SUFFICES ASSUME IInv, FrameWritten PROVE Kept
  OBVIOUS
<1>1. /\ server = "capturing" /\ policy' = Framed(policy)
      /\ rt' = Shown(rt, Framed(policy))
      /\ capture' = [capture EXCEPT !.started = TRUE]
      /\ UNCHANGED <<chan, callerVars, server, request, requestOp, forwarded,
                     approved, outsideVars>>
  BY DEF FrameWritten
<1>2. Surroundings'
  BY <1>1 DEF IInv, Surroundings, callerVars, outsideVars
<1>3. /\ policy' \in Snapshot /\ policy'.generation = policy.generation
      /\ policy'.armed = policy.armed
  BY <1>1, PolicyFacts DEF IInv, Connection
<1>4. /\ capture' \in Captures
      /\ capture'.binding = capture.binding
  BY <1>1 DEF IInv, Connection, Captures
<1>5. Connection'
  BY <1>1, <1>3, <1>4 DEF IInv, Connection
<1>6. /\ Settles(rt, rt') /\ UnseenIsNotLive'
      /\ rt'.armed = policy'.armed /\ rt'.generation = policy'.generation
  BY <1>1, ShownSettles DEF UnseenIsNotLive
<1>7. LiveIsCurrent'
  BY <1>1, <1>3, <1>4, <1>6 DEF IInv, CaptureIsBound, LiveIsCurrent
<1> QED BY <1>1, <1>2, <1>3, <1>4, <1>5, <1>6, <1>7, SettledKeeps
        DEF IInv, NothingIsLeft, CaptureIsBound, InHand, outsideVars

\* An arm leaves the loop and leaves the news to the teardown.
LEMMA BreaksUntold ==
  ASSUME IInv, server = "capturing",
         NEW p \in {Stopped(policy), Forgotten(policy), Lost(policy),
                    Stopped(Lost(policy))},
         NEW outcome \in ControlOutcome, outcome = "CaptureStopped" => ~p.armed,
         BreakLoop(rt, p, outcome), record' \in BOOLEAN,
         UNCHANGED <<chan, callerVars, conn, requests>>
  PROVE  Kept
<1>1. /\ Settles(rt, rt) /\ p \in Snapshot /\ p.output # "ReadyLive"
      /\ p.output = "Missing" => rt.output # "ReadyLive"
  BY EndingFacts
<1>2. /\ chan' \in Seq([id: OpId, intent: Intent, generation: Nat])
      /\ Len(chan') <= IntentCapacity
  BY DEF IInv, Surroundings
<1> QED BY <1>1, <1>2, BreakKeeps

\* The lease tick blanks a stale picture and ends an expired capture.
LEMMA LeaseTickKeeps ==
  ASSUME IInv, NEW stale \in BOOLEAN, LeaseTick(stale)
  PROVE  Kept
<1>1. /\ server = "capturing"
      /\ UNCHANGED <<chan, callerVars, record, conn, requests>>
  BY DEF LeaseTick
<1>2. CASE capture.silent + 1 < LeaseTicks
  <2>1. /\ capture' = [capture EXCEPT !.silent = capture.silent + 1]
        /\ policy' \in {Blanked(policy), policy}
        /\ UNCHANGED <<rt, server, request, requestOp, forwarded, approved,
                       worker>>
    BY <1>2 DEF LeaseTick
  <2>2. Surroundings'
    BY <1>1, <2>1 DEF IInv, Surroundings, callerVars
  <2>3. /\ policy' \in Snapshot /\ policy'.generation = policy.generation
        /\ policy'.armed = policy.armed
        /\ policy'.output = "Missing" => policy.output = "Missing"
    BY <2>1, PolicyFacts DEF IInv, Connection
  <2>4. /\ capture' \in Captures
        /\ capture'.binding = capture.binding
    BY <1>2, <2>1, ConstantsOK DEF IInv, Connection, Captures
  <2>5. Connection'
    BY <2>1, <2>3, <2>4 DEF IInv, Connection
  <2>6. Settles(rt, rt')
    BY <2>1, SettlesItself DEF IInv, Sound
  <2> QED BY <1>1, <2>1, <2>2, <2>3, <2>4, <2>5, <2>6, SettledKeeps
          DEF IInv, NothingIsLeft, CaptureIsBound, LiveIsCurrent,
              UnseenIsNotLive, InHand
<1>3. CASE ~(capture.silent + 1 < LeaseTicks)
  <2>1. BreakLoop(rt, Stopped(policy), "CaptureStopped")
    BY <1>3 DEF LeaseTick
  <2>2. ~Stopped(policy).armed
    BY EndingFacts
  <2> QED BY <1>1, <2>1, <2>2, BreaksUntold DEF IInv, Surroundings,
          ControlOutcome
<1> QED BY <1>2, <1>3

\* The arms that leave the loop and keep the connection.
LEMMA StopsKeep ==
  ASSUME IInv, StopByPhone \/ FrameFails \/ CrashStopsCapture
  PROVE  Kept
<1>1. /\ UNCHANGED <<chan, callerVars, record, conn, requests>>
      /\ server = "capturing"
  BY DEF StopByPhone, FrameFails, CrashStopsCapture
<1>2. /\ chan' \in Seq([id: OpId, intent: Intent, generation: Nat])
      /\ Len(chan') <= IntentCapacity /\ record' \in BOOLEAN
  BY <1>1 DEF IInv, Surroundings
<1>3. \E r \in Runtime, p \in {Stopped(policy), Stopped(Framed(policy))} :
        /\ BreakLoop(r, p, "CaptureStopped") /\ Settles(rt, r)
        /\ r = rt \/ r.output # "ReadyLive"
  <2>1. CASE StopByPhone
    BY <2>1, EndingFacts DEF StopByPhone
  <2>2. CASE CrashStopsCapture
    <3> DEFINE r == SetOutputFailed(rt)
    <3>1. BreakLoop(r, Stopped(policy), "CaptureStopped")
      BY <2>2 DEF CrashStopsCapture
    <3>2. Settles(rt, r) /\ r.output = "Failed" /\ r \in Runtime
      BY FailedSettles DEF IInv, Sound, Settles
    <3> HIDE DEF r
    <3> QED BY <3>1, <3>2
  <2>3. CASE FrameFails
    <3> DEFINE shown == Shown(rt, Framed(policy))
               r == SetOutputFailed(shown)
    <3>1. BreakLoop(r, Stopped(Framed(policy)), "CaptureStopped")
      BY <2>3 DEF FrameFails
    <3>2. Settles(rt, shown) /\ shown \in Runtime
      BY <1>1, ShownSettles DEF Settles
    <3> HIDE DEF shown
    <3>3. Settles(shown, r) /\ r.output = "Failed" /\ r \in Runtime
      BY <3>2, FailedSettles DEF Settles
    <3> HIDE DEF r
    <3>4. Settles(rt, r)
      BY <3>2, <3>3, EndingFacts, SettlesAgain
    <3> QED BY <3>1, <3>3, <3>4
  <2> QED BY <2>1, <2>2, <2>3
<1>4. PICK r \in Runtime, p \in {Stopped(policy), Stopped(Framed(policy))} :
        /\ BreakLoop(r, p, "CaptureStopped") /\ Settles(rt, r)
        /\ r = rt \/ r.output # "ReadyLive"
  BY <1>3
<1>5. /\ p \in Snapshot /\ p.output # "ReadyLive" /\ ~p.armed
      /\ p.output = "Missing" => r.output # "ReadyLive"
  BY <1>4, EndingFacts
<1>6. "CaptureStopped" \in ControlOutcome
  BY DEF ControlOutcome
<1> QED BY <1>1, <1>2, <1>4, <1>5, <1>6, BreakKeeps

\* The arms that leave the loop and end the connection, the trust or the
\* service.
LEMMA LosesKeep ==
  ASSUME IInv,
         \/ PhoneLost \/ BreakCapture \/ RevokedInCapture
         \/ ShutdownInCapture
         \/ \E ok \in BOOLEAN : ForgetInCaptureByPhone(ok)
  PROVE  Kept
<1>1. CASE PhoneLost \/ BreakCapture \/ RevokedInCapture \/ ShutdownInCapture
  <2>1. /\ server = "capturing"
        /\ UNCHANGED <<chan, callerVars, record, conn, requests>>
    BY <1>1 DEF PhoneLost, InCapture, BreakCapture, RevokedInCapture,
                ShutdownInCapture
  <2>2. PICK p \in {Stopped(policy), Forgotten(policy), Lost(policy),
                    Stopped(Lost(policy))},
             outcome \in ControlOutcome \ {"CaptureStopped"} :
          BreakLoop(rt, p, outcome)
    BY <1>1 DEF PhoneLost, BreakCapture, RevokedInCapture, ShutdownInCapture,
                ControlOutcome
  <2> QED BY <2>1, <2>2, BreaksUntold DEF IInv, Surroundings
<1>2. ASSUME NEW ok \in BOOLEAN, ForgetInCaptureByPhone(ok)
      PROVE  Kept
  <2> DEFINE p == Forgotten(policy)
             s == PublishPolicy(rt, p)
             outcome == IF ok THEN "ForgotPeer" ELSE "Disconnected"
  <2>1. /\ server = "capturing" /\ ForgetTrust(ok) /\ BreakLoop(s, p, outcome)
        /\ UNCHANGED <<chan, callerVars, conn, requests>>
    BY <1>2 DEF ForgetInCaptureByPhone, InCapture
  <2>2. /\ p \in Snapshot /\ p.output # "ReadyLive"
        /\ Settles(rt, s) /\ s.output # "ReadyLive"
    BY EndingFacts
  <2> HIDE DEF p, s
  <2>3. outcome \in ControlOutcome /\ outcome # "CaptureStopped"
    BY DEF ControlOutcome
  <2> HIDE DEF outcome
  <2>4. /\ record' \in BOOLEAN
        /\ chan' \in Seq([id: OpId, intent: Intent, generation: Nat])
        /\ Len(chan') <= IntentCapacity
    BY <2>1, ForgetTrustTyped DEF IInv, Surroundings
  <2> QED BY <2>1, <2>2, <2>3, <2>4, BreakKeeps
<1> QED BY <1>1, <1>2

\* The phone reports its camera, and acknowledges a control or none.
LEMMA CameraStateKeeps ==
  ASSUME IInv, NEW acked \in OpId \cup {None}, NEW ok \in BOOLEAN,
         CameraState(acked, ok)
  PROVE  Kept
<1> DEFINE seen == [rt EXCEPT !.camera = TRUE]
           state == IF ok THEN "Succeeded" ELSE "Failed"
<1>1. /\ rt' = IF acked = None THEN seen ELSE Finish(seen, acked, state)
      /\ UNCHANGED <<chan, callerVars, serverVars>>
  BY DEF CameraState
<1>2. rt \in Runtime
  BY DEF IInv, Sound
<1>3. /\ Settles(rt, seen) /\ seen \in Runtime /\ seen.output = rt.output
      /\ seen.armed = rt.armed /\ seen.capture = rt.capture
      /\ seen.generation = rt.generation
  BY <1>2 DEF Settles, Runtime
<1> HIDE DEF seen
<1>4. /\ Settles(rt, rt') /\ rt'.output = rt.output
      /\ rt'.armed = rt.armed /\ rt'.capture = rt.capture
      /\ rt'.generation = rt.generation
  <2>1. CASE acked = None
    BY <1>1, <1>3, <2>1
  <2>2. CASE acked # None
    <3>1. /\ Settles(seen, rt') /\ rt'.output = seen.output
          /\ rt'.armed = seen.armed /\ rt'.capture = seen.capture
          /\ rt'.generation = seen.generation
      BY <1>1, <1>3, <2>2, FinishSettles DEF Outcome
    <3> QED BY <1>2, <1>3, <3>1, SettlesAgain
  <2> QED BY <2>1, <2>2
<1>5. Follows(rt, rt')
  BY <1>4, SettlesFollows DEF IInv
<1>6. Surroundings'
  BY <1>1 DEF IInv, Surroundings, callerVars, serverVars, outsideVars
<1> QED BY <1>1, <1>4, <1>5, <1>6, RtKeeps DEF serverVars, outsideVars

\* A ping renews the lease.
LEMMA PingKeeps == IInv /\ Ping => Kept
<1> SUFFICES ASSUME IInv, Ping PROVE Kept
  OBVIOUS
<1>1. /\ capture' = [capture EXCEPT !.silent = 0]
      /\ UNCHANGED <<rt, chan, callerVars, server, policy, request, requestOp,
                     forwarded, approved, outsideVars>>
  BY DEF Ping
<1>2. /\ capture' \in Captures
      /\ capture'.binding = capture.binding
  BY <1>1, ConstantsOK DEF IInv, Connection, Captures
<1>3. Connection' /\ Surroundings'
  BY <1>1, <1>2 DEF IInv, Connection, Surroundings, callerVars, outsideVars
<1>4. Settles(rt, rt')
  BY <1>1, SettlesItself DEF IInv, Sound
<1> QED BY <1>1, <1>2, <1>3, <1>4, SettledKeeps
        DEF IInv, NothingIsLeft, CaptureIsBound, LiveIsCurrent, UnseenIsNotLive,
            InHand, outsideVars, Off

-------------------------------------------------------------------------------
(* Timers, the environment, and the end *)

\* The output worker crashes or is found dead; the CLI forgets the phone.
LEMMA OthersKeep ==
  ASSUME IInv, NoticeCrash \/ WorkerCrash \/ ForgetFromCli
  PROVE  Kept
<1>1. /\ UNCHANGED <<chan, callerVars, server, connectionVars, conn, requests>>
      /\ rt' = rt \/ rt' = SetOutputFailed(rt)
      /\ worker' = worker \/ worker' = [worker EXCEPT !.alive = FALSE]
      /\ record' = record \/ record' = FALSE
  BY DEF NoticeCrash, WorkerCrash, ForgetFromCli, serverVars, outsideVars
<1>2. /\ worker' \in [alive: BOOLEAN, bound: Binding \cup {None}]
      /\ worker'.bound = worker.bound
  BY <1>1 DEF IInv, Surroundings
<1>3. Surroundings'
  BY <1>1, <1>2 DEF IInv, Surroundings, callerVars
<1>4. rt \in Runtime
  BY DEF IInv, Sound
<1>5. /\ Settles(rt, rt') /\ rt'.output \in {rt.output, "Failed"}
      /\ rt'.armed = rt.armed /\ rt'.capture = rt.capture
      /\ rt'.generation = rt.generation
  BY <1>1, <1>4, FailedSettles, SettlesItself DEF SetOutputFailed, Runtime
<1>6. Follows(rt, rt')
  BY <1>5, SettlesFollows DEF IInv
<1> QED BY <1>1, <1>2, <1>3, <1>5, <1>6, RtKeeps

\* The service is shut down outside a capture.
LEMMA ShutdownKeeps == IInv /\ Shutdown => Kept
<1> SUFFICES ASSUME IInv, Shutdown PROVE Kept
  OBVIOUS
<1> DEFINE r == IF server = "control" THEN ConnectionLost(rt) ELSE rt
<1>1. /\ server \in {"untrusted", "accept", "control"} /\ Exit(r)
      /\ UNCHANGED <<chan, callerVars, outsideVars>>
  BY DEF Shutdown
<1>2. Surroundings'
  BY <1>1 DEF IInv, Surroundings, callerVars, outsideVars
<1>3. Settles(rt, r) /\ r.output # "ReadyLive"
  BY <1>1, LostSettles, SettlesItself DEF IInv, Sound, NothingIsLeft, Off
<1> HIDE DEF r
<1> QED BY <1>1, <1>2, <1>3, ExitKeeps

\* The end of a capture, step by step: what was live is not live any more once
\* it is published.
LEMMA TeardownKeeps == IInv /\ Teardown => Kept
<1> SUFFICES ASSUME IInv, Teardown PROVE Kept
  OBVIOUS
<1>1. rt \in Runtime /\ Settles(rt, rt) /\ policy \in Snapshot
  BY EndingFacts
<1>2. CASE ResetOutput
  <2>1. /\ server = "stopping" /\ server' = "reset"
        /\ worker' \in {worker, [worker EXCEPT !.bound = None]}
        /\ rt' \in {rt, SetOutputFailed(rt)}
        /\ UNCHANGED <<chan, callerVars, connectionVars, record, conn,
                       requests>>
    BY <1>2 DEF ResetOutput
  <2>2. Surroundings'
    BY <2>1 DEF IInv, Surroundings, callerVars
  <2>3. Connection'
    BY <2>1 DEF IInv, Connection, Server, connectionVars
  <2>4. Settles(rt, rt') /\ (rt' = rt \/ rt'.output = "Failed")
    BY <1>1, <2>1, FailedSettles
  <2> QED BY <2>1, <2>2, <2>3, <2>4, SettledKeeps
          DEF IInv, NothingIsLeft, CaptureIsBound, LiveIsCurrent,
              UnseenIsNotLive, InHand, connectionVars
<1>3. CASE PublishEnd
  <2>1. /\ server = "reset" /\ server' = "leaving"
        /\ rt' = TornDown(rt, policy)
        /\ UNCHANGED <<chan, callerVars, connectionVars, outsideVars>>
    BY <1>3 DEF PublishEnd
  <2>2. Surroundings'
    BY <2>1 DEF IInv, Surroundings, callerVars, outsideVars
  <2>3. Connection'
    BY <2>1 DEF IInv, Connection, Server, connectionVars
  <2>4. Settles(rt, rt') /\ rt'.output # "ReadyLive"
    BY <1>1, <2>1, TornDownSettles DEF IInv, NothingIsLeft, UnseenIsNotLive
  <2> QED BY <2>1, <2>2, <2>3, <2>4, SettledKeeps
          DEF IInv, NothingIsLeft, CaptureIsBound, LiveIsCurrent,
              UnseenIsNotLive, InHand, connectionVars, outsideVars
<1>4. CASE LeaveCapture
  <2>1. server = "leaving" /\ UNCHANGED <<chan, callerVars, outsideVars>>
    BY <1>4 DEF LeaveCapture
  <2>2. Surroundings'
    BY <2>1 DEF IInv, Surroundings, callerVars, outsideVars
  <2>3. rt.output # "ReadyLive"
    BY <2>1 DEF IInv, NothingIsLeft
  <2>4. CASE /\ capture.outcome = "CaptureStopped" /\ server' = "control"
             /\ request' = None /\ requestOp' = None /\ capture' = NoCapture
             /\ approved' = None /\ UNCHANGED <<rt, policy, forwarded>>
    <3>1. Connection'
      BY <2>4, FreshFacts DEF IInv, Connection, Server
    <3> QED BY <1>1, <2>1, <2>2, <2>3, <2>4, <3>1, SettledKeeps
            DEF IInv, NothingIsLeft, CaptureIsBound, LiveIsCurrent,
                UnseenIsNotLive, InHand
  <2>5. CASE EndConnection(rt)
    BY <1>1, <2>2, <2>5, EndKeeps
  <2>6. CASE Exit(rt)
    BY <1>1, <2>2, <2>3, <2>6, ExitKeeps
  <2>7. CASE Exit(ConnectionLost(rt))
    BY <1>1, <2>2, <2>7, LostSettles, ExitKeeps DEF Off
  <2> QED BY <1>4, <2>4, <2>5, <2>6, <2>7 DEF LeaveCapture
<1> QED BY <1>2, <1>3, <1>4 DEF Teardown

\* Whatever the phone does.
LEMMA PhoneKeeps == IInv /\ Phone => Kept
<1> SUFFICES ASSUME IInv, Phone PROVE Kept
  OBVIOUS
<1>1. requests \in Nat /\ forwarded \subseteq OpId
  BY DEF IInv, Surroundings, Connection
<1>2. ASSUME NEW r \in 1..requests, StartRejected(r) \/ Grant(r)
      PROVE  Kept
  <2>1. r \in Nat
    BY <1>1
  <2> QED BY <1>2, <2>1, StartRejectedKeeps, GrantKeeps
          DEF StartRejected, HearsPhone
<1>3. ASSUME NEW acked \in forwarded \cup {None}, NEW ok \in BOOLEAN,
             CameraState(acked, ok)
      PROVE  Kept
  BY <1>1, <1>3, CameraStateKeeps
<1> QED BY <1>2, <1>3, EndsKeep, AcceptConnectionKeeps, ForgetByPhoneKeeps,
           FrameWrittenKeeps, StopsKeep, LosesKeep, PingKeeps, Zenon DEF Phone

\* Every step of the service keeps the invariant and the promises to callers.
LEMMA StepKeeps == IInv /\ [Next]_vars => Kept
<1> SUFFICES ASSUME IInv, [Next]_vars PROVE Kept
  OBVIOUS
<1>1. CASE \E id \in OpId : Caller(id)
  BY <1>1, CallersKeep
<1>2. CASE HandleIntent \/ Phone
  BY <1>2, IntentsKeep, PhoneKeeps
<1>3. CASE Lease \/ NoticeCrash \/ CrashStopsCapture
  BY <1>3, LeaseTickKeeps, OthersKeep, StopsKeep DEF Lease
<1>4. CASE Shutdown \/ ShutdownInCapture \/ Environment
  BY <1>4, ShutdownKeeps, LosesKeep, OthersKeep DEF Environment
<1>6. CASE Granting \/ Teardown
  BY <1>6, EndsKeep, StartCaptureKeeps, TeardownKeeps DEF Granting
<1>5. CASE UNCHANGED vars
  <2>1. Settles(rt, rt)
    BY SettlesItself DEF IInv, Sound
  <2> QED BY <1>5, <2>1, RtKeeps, SettlesFollows
          DEF vars, callerVars, serverVars, outsideVars, IInv, Surroundings
<1> QED BY <1>1, <1>2, <1>3, <1>4, <1>5, <1>6 DEF Next

\* A service that was just started.
LEMMA InitHolds == Init => IInv
<1> SUFFICES ASSUME Init PROVE IInv
  OBVIOUS
<1>1. /\ record \in BOOLEAN /\ worker \in [alive: BOOLEAN, bound: {None}]
      /\ server \in {"accept", "untrusted"} /\ chan = <<>> /\ starts = 0
      /\ policy = DefaultPolicy /\ request = None /\ requestOp = None
      /\ capture = NoCapture /\ conn = 0 /\ requests = 0 /\ forwarded = {}
      /\ approved = None
  BY DEF Init
<1>2. /\ rt \in Runtime /\ rt.ops = <<>> /\ Off(rt)
  BY <1>1 DEF Init, Runtime, TrustState, ConnectionState, CaptureState,
              OutputState, Off
<1>3. call \in Calls
  BY DEF Init, Calls, Intent
<1>4. Sound(rt)
  BY <1>2, ConstantsOK DEF Sound, Unique
<1>5. Surroundings
  BY <1>1, <1>3, ConstantsOK DEF Surroundings
<1>6. Connection
  BY <1>1, FreshFacts DEF Connection, Server
<1> QED BY <1>1, <1>2, <1>4, <1>5, <1>6, FreshFacts
        DEF IInv, NothingIsLeft, CaptureIsBound, InHand, LiveIsCurrent,
            UnseenIsNotLive, Off

\* In every state that the service can reach the runtime is sound, a capture
\* owns the binding of the output worker and answers the last request, and
\* without a capture nothing is armed and nothing is live
\* (control_server.rs, service_runtime.rs).
THEOREM ServiceInvariant == Spec => []IInv
<1>1. IInv /\ [Next]_vars => IInv'
  BY StepKeeps DEF Kept
<1> QED BY <1>1, InitHolds, PTL DEF Spec

\* The state stays of its type; the history, the intent channel and the lease
\* keep their bounds (service_runtime.rs enqueue, the bounded channel).
THEOREM ServiceTypes == Spec => []TypeOK
<1>1. IInv => TypeOK
  BY InvTypes
<1> QED BY <1>1, ServiceInvariant, PTL

\* A capture runs only with the consent the phone gave to the last request
\* (grant_consent in control_server.rs): an approval of an older one
\* starts nothing.
THEOREM CaptureNeedsConsent == Spec => []ConsentIsForLastRequest
<1>1. IInv => ConsentIsForLastRequest
  BY DEF IInv, NothingIsLeft, CaptureIsBound, InHand, ConsentIsForLastRequest
<1> QED BY <1>1, ServiceInvariant, PTL

\* While no phone is connected callers see no session: not armed, no capture,
\* no live output (connection_lost in service_runtime.rs).
THEOREM OfflineShowsNoSession == Spec => []NoSessionWhileOffline
<1>1. IInv => NoSessionWhileOffline
  BY DEF IInv, Off, NoSessionWhileOffline
<1> QED BY <1>1, ServiceInvariant, PTL

\* A live snapshot is that of the capture in hand, whose generation it names:
\* it may outlive the policy's stop and the worker's reset, but not the
\* teardown's publication (run_active_capture, publish_policy).
THEOREM LiveHasItsCapture == Spec => []LiveIsBoundCapture
<1>1. IInv => LiveIsBoundCapture
  BY DEF IInv, NothingIsLeft, CaptureIsBound, LiveIsCurrent, LiveIsBoundCapture
<1> QED BY <1>1, ServiceInvariant, PTL

\* An outcome that a caller may have read is never changed, although the ways
\* of finishing an operation interleave (finish, invalidate_stop).
THEOREM OutcomesStand == Spec => OutcomesAreFinal
<1>1. IInv /\ [Next]_vars =>
        [\A before \in Entries(rt), after \in Entries(rt') :
           before.id = after.id /\ before.state # "Pending"
             => after.state = before.state]_vars
  BY StepKeeps DEF Kept, Follows
<1> QED BY <1>1, ServiceInvariant, PTL DEF Spec, OutcomesAreFinal

\* A failed output stays failed, whatever the policy publishes after it
\* (set_output_failed against publish).
THEOREM FailureStands == Spec => OutputFailureIsSticky
<1>1. IInv /\ [Next]_vars =>
        [rt.output = "Failed" => rt'.output = "Failed"]_vars
  BY StepKeeps DEF Kept, Follows
<1> QED BY <1>1, ServiceInvariant, PTL DEF Spec, OutputFailureIsSticky
===============================================================================
