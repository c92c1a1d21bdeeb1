------------------------------ MODULE BrowserCamera ------------------------------
(***************************************************************************)
(* The browser provider: the phone's page, the service with the desktop's  *)
(* page, and a network that loses calls.  The page may vanish at any time  *)
(* (the tab is closed, the phone sleeps or leaves).                        *)
(***************************************************************************)
EXTENDS BrowserCalls

CONSTANTS
  MaxStarts,
  MaxChanges,
  MaxRequests  \* bound: commands and changes of settings, taken together

VARIABLES session, claimed, rtc, desktop,
          page, setups, pulse, change, closing, open, tried,
          offers, call, notice,
          present  \* is the page still there?

Service == INSTANCE BrowserService
Phone   == INSTANCE PhonePage

\* The bounds are numbers; None is no camera stream.
ASSUME CameraConstantsOK ==
  /\ MaxStarts \in Nat /\ MaxChanges \in Nat /\ MaxRequests \in Nat
  /\ None \notin Phone!Stream

serviceVars == <<session, claimed, rtc, desktop>>
pageVars    == <<page, setups, pulse, change, closing, open, tried>>
wireVars    == <<offers, call, notice>>
vars == <<serviceVars, pageVars, wireVars, present>>

Init == Service!Init /\ Phone!Init /\ present = TRUE

\* A behaviour has commands and changes, or the camera is started again.
Requests == desktop.issued + page.changes
RequestsLeft == Requests < MaxRequests /\ page.starts < 2
StartsLeft == Requests = 0

HttpStep ==
  \/ Service!CameraState
  \/ Service!CameraCommand /\ RequestsLeft
  \/ Service!StopByDesktop
  \/ Service!StopByPage
  \/ Service!Heartbeat
  \/ Service!Claim
  \/ Service!Activate
  \/ Service!RunRtc

MediaStep ==
  \/ Service!ExpireHeartbeat
  \/ Service!ExpirePending
  \/ Service!RtcEnds

SetupStep ==
  \/ Phone!Start /\ StartsLeft
  \/ \E s \in setups :
       \/ Phone!SetupFails(s)
       \/ Phone!Permitted(s)
       \/ Phone!SendOffer(s)
       \/ Phone!Answered(s)
       \/ Phone!GoLive(s)

StopStep ==
  \/ Phone!Stop
  \/ Phone!CloseFinished

PulseStep ==
  \/ Phone!Pulse
  \/ Phone!HeartbeatAnswered
  \/ Phone!AckAnswered
  \/ Phone!PulseFails

ChangeStep(origin) ==
  \/ Phone!Constrained(origin)
  \/ Phone!MediaOpened(origin)
  \/ Phone!Switched(origin)
  \/ Phone!ChangeFails(origin)

PageStep ==
  \/ SetupStep
  \/ StopStep
  \/ PulseStep
  \/ Phone!LocalChange /\ RequestsLeft
  \/ \E origin \in Phone!Origin : ChangeStep(origin)

\* A request or its response is lost: the page's fetch fails.
LoseCall ==
  /\ call.state \in {"sent", "accepted"}
  /\ call' = [call EXCEPT !.state = "refused"]
  /\ UNCHANGED <<offers, notice>>

LoseOffer ==
  /\ \E o \in offers :
       /\ o.state \in {"sent", "answered"}
       /\ Service!Move(o, "refused")
  /\ UNCHANGED <<call, notice>>

\* The page and everything it held are gone.
Vanish ==
  /\ present /\ present' = FALSE
  /\ page' = [Phone!NoPage EXCEPT !.starts = page.starts,
                                    !.changes = page.changes]
  /\ setups' = {} /\ closing' = {} /\ open' = {}
  /\ pulse' = [step |-> "idle", gen |-> 0]
  /\ change' = [o \in Phone!Origin |-> Phone!Idle]
  /\ UNCHANGED <<serviceVars, wireVars, tried>>

Serve(A) == A /\ UNCHANGED <<pageVars, present>>
Run(A)   == present /\ A /\ UNCHANGED <<serviceVars, present>>

Next ==
  \/ Serve(HttpStep)
  \/ Serve(MediaStep)
  \/ Run(PageStep)
  \/ (LoseCall \/ LoseOffer)
       /\ UNCHANGED <<serviceVars, pageVars, present>>
  \/ Vanish

\* Requests that arrive are handled, and the service's threads run.  A command
\* not answered falls due, and a phone whose page does not stream is not heard.
\* While the page is there, its timer and its promises do not stop.  The users,
\* the desktop's polls and the network owe nothing.
Fairness ==
  /\ WF_vars(Serve(Service!Heartbeat))
  /\ WF_vars(Serve(Service!Activate \/ Service!RunRtc))
  /\ WF_vars(Serve(Service!ExpireHeartbeat)
             /\ (~present \/ page.phase # "live"))
  /\ WF_vars(Serve(Service!ExpirePending))
  /\ WF_vars(Run(PulseStep))
  /\ WF_vars(Run(ChangeStep(Phone!Remote)))

Spec == Init /\ [][Next]_vars
FairSpec == Spec /\ Fairness

-------------------------------------------------------------------------------
(* Correctness *)

TypeOK ==
  /\ Service!TypeOK
  /\ Phone!TypeOK
  /\ present \in BOOLEAN

\* A session that was stopped, by whomever, never comes back: not by an offer
\* that was under way, nor by a late heartbeat (offer claims the code, and
\* activates the session, in two steps).
StoppedIsFinal ==
  [][session.status = "stopped" => session'.status = "stopped"]_vars

\* The revision stands for what the desktop is shown: a command whose expected
\* revision is accepted was made in view of the camera's present state
\* (enqueue_command against accept_heartbeat).
RevisionIdentifiesState ==
  desktop.shown.revision = session.revision
    => desktop.shown = Service!Snapshot(session)

\* A command is reported as applied or adjusted only if the page has tried that
\* very command and the camera has not refused it, whatever was lost, repeated
\* or given up in between (accept_heartbeat's check of the acknowledgement).
SuccessMeansTried ==
  session.outcome.result \in {"applied", "adjusted"}
    => session.outcome.id \in tried

\* What stands for a camera being wanted: the page's own stream, one a finish
\* is about to stop, and those a change is about to.
Held ==
  {page.stream : p \in {page.phase} \ {"stopped"}}
    \cup {c.stream : c \in closing}
    \cup UNION {{change[o].old, change[o].new} : o \in Phone!Origin}

\* Starting and stopping, in any order and however late the browser answers,
\* leaves no camera on that the page has lost hold of (prepare, _finishLocal).
\* Switching does: CameraIsReleased.
SetupLeavesNoCamera ==
  desktop.issued = 0 /\ page.changes = 0 => open \subseteq Held

\* Whatever became of the phone's acknowledgement, a command does not stay
\* pending, which would refuse every later one (expire_pending_if_needed).
CommandIsAnswered == session.pending # None ~> session.pending = None

\* A live session whose page has stopped or is gone is stopped too, even if
\* the page's Stop is lost or it never learnt of its session.
AbandonedSessionEnds ==
  session.status = "live" /\ (page.phase = "stopped" \/ ~present)
    ~> session.status = "stopped"

\* Once the session is over, so is the page's: the camera does not go on for
\* nobody (three failed heartbeats, _pulse).
PageFollowsSession ==
  session.status = "stopped" ~> page.phase # "live" \/ ~present

\* What a document says and the code does not keep: when a stopped page has
\* nothing under way any more, every camera is off (_switchCamera, phone.js;
\* docs/05-security-and-coexistence.md:41).
CameraIsReleased ==
  page.phase = "stopped" /\ setups = {} /\ closing = {}
    /\ pulse.step = "idle" /\ (\A o \in Phone!Origin : change[o] = Phone!Idle)
    => open = {}
===============================================================================
