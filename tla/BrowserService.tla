----------------------------- MODULE BrowserService -----------------------------
(***************************************************************************)
(* The browser provider's service (crates/omacam-daemon/src/browser): the  *)
(* camera session that HTTP handlers share under one lock (session.rs,     *)
(* http.rs) and the thread that receives the phone's media (rtc.rs).       *)
(*                                                                         *)
(* A handler holds the lock for its whole work, the offer's excepted: it   *)
(* claims the QR code, activates the session and starts the media thread   *)
(* in separate steps.  Times are not counted: the phone may have been       *)
(* silent for PHONE_HEARTBEAT_TIMEOUT, and a command may have outlived     *)
(* COMMAND_TIMEOUT, at any moment.                                         *)
(***************************************************************************)
EXTENDS BrowserCalls

VARIABLES
  session,  \* CameraSession
  claimed,  \* has the QR code been used?
  rtc,      \* the media thread
  desktop,  \* the desktop page: the snapshot it shows, the commands it issued
  offers,   \* offers and answers on their way
  call,     \* the page's heartbeat on its way
  notice    \* is a Stop of the page on its way?

Status == {"waiting", "live", "stopped"}

TypeOK ==
  /\ session \in [status: Status, revision: Nat, applied: Setting \cup {None},
                  pending: Command \cup {None},
                  outcome: [id: CommandId \cup {None},
                            result: {"none", "applied", "adjusted", "rejected"}]]
  /\ session.pending # None => session.status = "live"
  /\ claimed \in BOOLEAN
  /\ rtc \in {"none", "running", "ended"}
  /\ desktop \in [shown: [revision: Nat, applied: Setting \cup {None},
                          status: Status],
                  issued: 0..MaxCommands]
  /\ offers \subseteq Offer
  /\ call \in Call
  /\ notice \in BOOLEAN

Snapshot(s) ==
  [revision |-> s.revision, applied |-> s.applied, status |-> s.status]

NoOutcome == [id |-> None, result |-> "none"]

Init ==
  /\ session = [status |-> "waiting", revision |-> 0, applied |-> None,
                pending |-> None, outcome |-> NoOutcome]
  /\ claimed = FALSE
  /\ rtc = "none"
  /\ desktop = [shown |-> Snapshot(session), issued |-> 0]
  /\ offers = {}
  /\ call = NoCall
  /\ notice = FALSE

-------------------------------------------------------------------------------
(* CameraSession *)

\* Mutation: the pending command outlives the session.
StoppedKeepingPending(s) ==
  IF s.status = "stopped" THEN s
  ELSE [s EXCEPT !.status = "stopped", !.revision = @ + 1]

Stopped(s) ==
  IF s.status = "stopped" THEN s
  ELSE [s EXCEPT !.status = "stopped", !.pending = None, !.revision = @ + 1]

Activated(s, setting) ==
  [s EXCEPT !.status = "live", !.applied = setting, !.revision = @ + 1]

Expired(s) ==
  [s EXCEPT !.pending = None, !.revision = @ + 1,
            !.outcome = [id |-> s.pending.id, result |-> "rejected"]]

\* Every handler lets an overdue command expire first.
MaybeExpired ==
  {session} \cup (IF session.pending = None THEN {} ELSE {Expired(session)})

\* Mutation: whatever is acknowledged answers the pending command.
AcknowledgesAny(s, id) == s.pending # None

\* A heartbeat may acknowledge the pending command and nothing else.
Acknowledges(s, id) == s.pending # None /\ s.pending.id = id

Result(c, update) ==
  IF update.error THEN "rejected"
  ELSE IF c.setting = update.setting THEN "applied" ELSE "adjusted"

\* Mutation: only an acknowledgement counts as a change.
ChangedByAck(s, update) == update.ack # None

\* The revision is advanced when the reported state differs or a command ends.
Changed(s, update) == update.ack # None \/ update.setting # s.applied

\* accept_heartbeat of an update that is in order.
Heard(s, update) ==
  LET acked == update.ack # None
  IN  [s EXCEPT
         !.applied = update.setting,
         !.revision = IF Changed(s, update) THEN @ + 1 ELSE @,
         !.outcome = IF acked THEN [id |-> s.pending.id,
                                    result |-> Result(s.pending, update)]
                     ELSE @,
         !.pending = IF acked THEN None ELSE @]

-------------------------------------------------------------------------------
(* HTTP handlers *)

\* camera_state, polled by the desktop page.
CameraState ==
  /\ \E s \in MaybeExpired :
       /\ session' = s
       /\ desktop' = [desktop EXCEPT !.shown = Snapshot(s)]
  /\ UNCHANGED <<claimed, rtc, offers, call, notice>>

\* camera_command with the revision the desktop page shows.
CameraCommand ==
  /\ desktop.shown.status = "live"
  /\ desktop.issued < MaxCommands
  /\ \E s \in MaybeExpired, setting \in Setting :
       LET c == [id |-> desktop.issued + 1, setting |-> setting]
       IN  /\ session' =
                IF /\ s.status = "live" /\ s.pending = None
                   /\ s.revision = desktop.shown.revision
                  THEN [s EXCEPT !.pending = c, !.outcome = NoOutcome]
                ELSE s
           /\ desktop' = [desktop EXCEPT !.issued = c.id]
  /\ UNCHANGED <<claimed, rtc, offers, call, notice>>

\* stop, or a command that stops, from the desktop.
StopByDesktop ==
  /\ session.status # "stopped"
  /\ session' = Stopped(session)
  /\ UNCHANGED <<claimed, rtc, desktop, offers, call, notice>>

\* stop, from the phone's page.
StopByPage ==
  /\ notice
  /\ notice' = FALSE
  /\ session' = Stopped(session)
  /\ UNCHANGED <<claimed, rtc, desktop, offers, call>>

Heartbeat ==
  /\ call.state = "sent"
  /\ IF session.status # "live"
       THEN /\ call' = [call EXCEPT !.state = "refused"]
            /\ UNCHANGED session
       ELSE \E s \in MaybeExpired :
              IF call.ack = None \/ Acknowledges(s, call.ack)
                THEN /\ session' = Heard(s, call)
                     /\ call' = [call EXCEPT !.state = "accepted",
                                             !.pending = session'.pending]
                ELSE /\ session' = s
                     /\ call' = [call EXCEPT !.state = "refused"]
  /\ UNCHANGED <<claimed, rtc, desktop, offers, notice>>

Move(o, state) == offers' = (offers \ {o}) \cup {[o EXCEPT !.state = state]}

\* offer, first half: the code is claimed for good, whatever comes of it.
Claim ==
  /\ \E o \in offers :
       /\ o.state = "sent"
       /\ Move(o, IF claimed THEN "refused" ELSE "claimed")
  /\ claimed' = TRUE
  /\ UNCHANGED <<session, rtc, desktop, call, notice>>

\* Mutation: the session is activated whatever its status.
Activatable == TRUE

MayActivate == session.status = "waiting"

\* offer, second half: under the lock.  Before that the media binding is made,
\* or it cannot be and the session is stopped.
Activate ==
  /\ \E o \in offers :
       /\ o.state = "claimed"
       /\ \/ /\ MayActivate
             /\ session' = Activated(session, o.setting)
             /\ Move(o, "active")
          \/ /\ ~MayActivate
             /\ Move(o, "refused")
             /\ UNCHANGED session
          \/ /\ session' = Stopped(session)
             /\ Move(o, "refused")
  /\ UNCHANGED <<claimed, rtc, desktop, call, notice>>

\* run_rtc: the media thread starts, or cannot and the session is stopped.
RunRtc ==
  /\ \E o \in offers :
       /\ o.state = "active"
       /\ \/ /\ rtc' = "running"
             /\ Move(o, "answered")
             /\ UNCHANGED session
          \/ /\ session' = Stopped(session)
             /\ Move(o, "refused")
             /\ UNCHANGED rtc
  /\ UNCHANGED <<claimed, desktop, call, notice>>

-------------------------------------------------------------------------------
(* drive_rtc *)

\* Mutation: a phone that has no command to answer is not given up.
ExpireIdleHeartbeat ==
  /\ rtc = "running"
  /\ session.status = "live" /\ session.pending # None
  /\ session' = Stopped(session)
  /\ UNCHANGED <<claimed, rtc, desktop, offers, call, notice>>

\* The phone was not heard for PHONE_HEARTBEAT_TIMEOUT.
ExpireHeartbeat ==
  /\ rtc = "running"
  /\ session.status = "live"
  /\ session' = Stopped(session)
  /\ UNCHANGED <<claimed, rtc, desktop, offers, call, notice>>

\* Mutation: only the handlers give up an overdue command.
NoExpiry == FALSE

\* The pending command was not answered within COMMAND_TIMEOUT.
ExpirePending ==
  /\ rtc = "running"
  /\ session.pending # None
  /\ session' = Expired(session)
  /\ UNCHANGED <<claimed, rtc, desktop, offers, call, notice>>

\* The loop ends because the session was stopped, ICE disconnected or it met
\* an error, and the output thread has been joined.
RtcEnds ==
  /\ rtc = "running"
  /\ rtc' = "ended"
  /\ session' = Stopped(session)
  /\ UNCHANGED <<claimed, desktop, offers, call, notice>>
===============================================================================
