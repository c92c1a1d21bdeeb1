------------------------------- MODULE PhonePage -------------------------------
(***************************************************************************)
(* The phone's page (webapp/phone.js): PhoneSession and the asynchronous   *)
(* functions that work on it.  JavaScript runs one of them at a time, from *)
(* one await to the next; a step here is such a stretch.  A stream is an   *)
(* open camera, which stays open until its tracks are stopped.             *)
(*                                                                         *)
(* The server answers a heartbeat of a session that is over with an error, *)
(* so the page's handling of a "stopped" reply does not occur, nor does a  *)
(* remote command that stops: the service takes it itself.                 *)
(***************************************************************************)
EXTENDS BrowserCalls

CONSTANTS
  MaxStarts,   \* bound: times the user starts the camera
  MaxChanges   \* bound: settings the user changes on the phone

VARIABLES
  page,       \* PhoneSession
  setups,     \* start and prepare, one for each generation that was started
  pulse,      \* heartbeatPromise
  change,     \* the calls of _applyControls that are under way
  closing,    \* _finishLocal, while it waits for the wake lock
  open,       \* the streams that are open
  tried,      \* history: the commands tried on the camera that it did not refuse
  offers, call, notice   \* shared with the service

Stream == [id: Nat, lens: Nat]

\* _applyControls runs for the command of the desktop, one at a time, and for
\* each change by the phone's own user, which may overlap: the n-th is origin n.
Remote == 0
Origin == {Remote} \cup 1..MaxChanges

TypeOK ==
  /\ page \in [phase: {"stopped", "preparing", "connecting", "live"},
               gen: Nat, stream: Stream \cup {None},
               hasSession: BOOLEAN, applied: Setting \cup {None},
               pendingId: CommandId \cup {None}, pendingError: BOOLEAN,
               failures: 0..3, starts: 0..MaxStarts, changes: 0..MaxChanges,
               streams: Nat]
  /\ page.phase = "live" => page.hasSession
  /\ setups \subseteq [gen: Nat, setting: Setting,
                       step: {"permission", "modes", "answer", "remote"}]
  /\ pulse \in [step: {"idle", "heartbeat", "apply", "ack"}, gen: Nat]
  /\ change \in [Origin -> [step: {"idle", "constraints", "media", "replace"},
                            gen: Nat, setting: Setting \cup {None},
                            old: Stream \cup {None}, new: Stream \cup {None}]]
  /\ closing \subseteq [gen: Nat, stream: Stream \cup {None}, notify: BOOLEAN]
  /\ open \subseteq Stream
  /\ tried \subseteq CommandId

Idle == [step |-> "idle", gen |-> 0, setting |-> None, old |-> None,
         new |-> None]

NoPage ==
  [phase |-> "stopped", gen |-> 0, stream |-> None, hasSession |-> FALSE,
   applied |-> None, pendingId |-> None, pendingError |-> FALSE,
   failures |-> 0, starts |-> 0, changes |-> 0, streams |-> 0]

Init ==
  /\ page = NoPage
  /\ setups = {}
  /\ pulse = [step |-> "idle", gen |-> 0]
  /\ change = [o \in Origin |-> Idle]
  /\ closing = {}
  /\ open = {}
  /\ tried = {}

Current(gen) == gen = page.gen

\* _finishLocal up to its await; a second part closes peer and camera.
Finish(notify) ==
  /\ page' = [page EXCEPT !.phase = "stopped", !.gen = @ + 1, !.stream = None,
                          !.hasSession = FALSE, !.applied = None,
                          !.pendingId = None, !.pendingError = FALSE]
  /\ closing' = closing \cup {[gen |-> page.gen, stream |-> page.stream,
                               notify |-> notify /\ page.hasSession]}

CloseFinished ==
  /\ \E c \in closing :
       /\ closing' = closing \ {c}
       /\ open' = open \ {c.stream}
       /\ notice' = (notice \/ c.notify)
  /\ UNCHANGED <<page, setups, pulse, change, tried, offers, call>>

-------------------------------------------------------------------------------
(* start and prepare *)

Advance(s, step) == setups' = (setups \ {s}) \cup {[s EXCEPT !.step = step]}
Done(s) == setups' = setups \ {s}

Start ==
  /\ page.phase = "stopped"
  /\ page.starts < MaxStarts
  /\ page' = [page EXCEPT !.phase = "preparing", !.gen = @ + 1,
                          !.hasSession = FALSE, !.starts = @ + 1]
  /\ \E setting \in StartSetting :
       setups' = setups \cup {[gen |-> page'.gen, setting |-> setting,
                               step |-> "permission"]}
  /\ UNCHANGED <<pulse, change, closing, open, tried, offers, call, notice>>

\* An exception in a setup ends it, and the session if that is still its own.
SetupFails(s) ==
  /\ s \in setups
  /\ Done(s)
  /\ IF Current(s.gen) THEN Finish(TRUE) ELSE UNCHANGED <<page, closing>>
  /\ IF s.step = "answer"
       THEN \E o \in offers :
              /\ o.gen = s.gen /\ o.state = "refused"
              /\ offers' = offers \ {o}
       ELSE UNCHANGED offers
  /\ UNCHANGED <<pulse, change, open, tried, call, notice>>

\* Mutation: a camera that is granted late becomes the session's.
KeepsAnyStream(s) == TRUE

KeepsStream(s) == Current(s.gen)

\* getUserMedia returns; a stale setup stops the stream at once.
Permitted(s) ==
  LET stream == [id |-> page.streams + 1, lens |-> LensOf[s.setting]]
  IN  /\ s \in setups /\ s.step = "permission"
      /\ IF KeepsStream(s)
           THEN /\ page' = [page EXCEPT !.stream = stream, !.streams = @ + 1]
                /\ open' = open \cup {stream}
                /\ Advance(s, "modes")
           ELSE /\ Done(s)
                /\ UNCHANGED <<page, open>>
      /\ UNCHANGED <<pulse, change, closing, tried, offers, call, notice>>

\* The settings are known: prepare ends, start goes on and makes its offer.
SendOffer(s) ==
  /\ s \in setups /\ s.step = "modes"
  /\ IF Current(s.gen)
       THEN /\ page' = [page EXCEPT !.phase = "connecting",
                                    !.applied = s.setting]
            /\ offers' = offers \cup {[gen |-> s.gen, state |-> "sent",
                                       setting |-> s.setting]}
            /\ Advance(s, "answer")
       ELSE /\ Done(s)
            /\ UNCHANGED <<page, offers>>
  /\ UNCHANGED <<pulse, change, closing, open, tried, call, notice>>

\* The answer names the session, before the generation is looked at.
Answered(s) ==
  /\ s \in setups /\ s.step = "answer"
  /\ \E o \in offers :
       /\ o.gen = s.gen /\ o.state = "answered"
       /\ offers' = offers \ {o}
  /\ page' = [page EXCEPT !.hasSession = TRUE]
  /\ IF Current(s.gen)
       THEN /\ Advance(s, "remote")
            /\ UNCHANGED notice
       ELSE /\ Done(s)
            /\ notice' = TRUE
  /\ UNCHANGED <<pulse, change, closing, open, tried, call>>

GoLive(s) ==
  /\ s \in setups /\ s.step = "remote"
  /\ Done(s)
  /\ IF Current(s.gen)
       THEN /\ page' = [page EXCEPT !.phase = "live"]
            /\ UNCHANGED notice
       ELSE /\ notice' = TRUE
            /\ UNCHANGED page
  /\ UNCHANGED <<pulse, change, closing, open, tried, offers, call>>

\* stop, by the user; or the peer or the camera reports its end, which leads to
\* the same under a stronger guard (_connectionEnded).
Stop ==
  /\ page.phase # "stopped" \/ page.stream # None
  /\ Finish(TRUE)
  /\ UNCHANGED <<setups, pulse, change, open, tried, offers, call, notice>>

-------------------------------------------------------------------------------
(* _pulse: one heartbeat at a time *)

Send(ack, error) ==
  call' = [state |-> "sent", setting |-> page.applied, ack |-> ack,
           error |-> error, pending |-> None]

Pulse ==
  /\ page.phase = "live" /\ page.hasSession
  /\ pulse.step = "idle"
  /\ pulse' = [step |-> "heartbeat", gen |-> page.gen]
  /\ Send(None, FALSE)
  /\ UNCHANGED <<page, setups, change, closing, open, tried, offers, notice>>

PulseIsCurrent == Current(pulse.gen) /\ page.phase = "live"

PulseEnds == pulse' = [pulse EXCEPT !.step = "idle"]

\* _applyControls: a setting of another camera needs another stream.
Begin(origin, setting) ==
  change' = [change EXCEPT ![origin] =
               [step |-> IF LensOf[setting] = page.stream.lens
                           THEN "constraints" ELSE "media",
                gen |-> page.gen, setting |-> setting,
                old |-> page.stream, new |-> None]]

\* The heartbeat is answered (_heartbeatCycle); a command that came with it is
\* carried out, acknowledged again, or ignored while another one is pending.
HeartbeatAnswered ==
  /\ pulse.step = "heartbeat" /\ call.state = "accepted"
  /\ LET command == call.pending
     IN  CASE ~PulseIsCurrent ->
                PulseEnds /\ call' = NoCall /\ UNCHANGED <<page, change>>
           [] PulseIsCurrent /\ command # None /\ page.pendingId = None ->
                /\ page' = [page EXCEPT !.failures = 0,
                                        !.pendingId = command.id,
                                        !.pendingError = FALSE]
                /\ pulse' = [pulse EXCEPT !.step = "apply"]
                /\ Begin(Remote, command.setting)
                /\ call' = NoCall
           [] PulseIsCurrent /\ command # None /\ page.pendingId = command.id ->
                /\ page' = [page EXCEPT !.failures = 0]
                /\ pulse' = [pulse EXCEPT !.step = "ack"]
                /\ Send(command.id, page.pendingError)
                /\ UNCHANGED change
           [] OTHER ->
                /\ page' = [page EXCEPT !.failures = 0]
                /\ PulseEnds
                /\ call' = NoCall
                /\ UNCHANGED change
  /\ UNCHANGED <<setups, closing, open, tried, offers, notice>>

\* The acknowledgement is answered (_ackRemoteCommand).
AckAnswered ==
  /\ pulse.step = "ack" /\ call.state = "accepted"
  /\ page' = IF Current(pulse.gen)
               THEN [page EXCEPT !.pendingId = None, !.pendingError = FALSE]
             ELSE page
  /\ PulseEnds
  /\ call' = NoCall
  /\ UNCHANGED <<setups, change, closing, open, tried, offers, notice>>

\* Mutation: every failure is the first.
FirstFailure == 1

Failures == page.failures + 1

\* Either call fails; the third failure in a row ends the session.
PulseFails ==
  /\ pulse.step \in {"heartbeat", "ack"} /\ call.state = "refused"
  /\ CASE ~Current(pulse.gen) -> UNCHANGED <<page, closing>>
       [] Current(pulse.gen) /\ Failures < 3 ->
            /\ page' = [page EXCEPT !.failures = Failures]
            /\ UNCHANGED closing
       [] OTHER -> Finish(TRUE)
  /\ PulseEnds
  /\ call' = NoCall
  /\ UNCHANGED <<setups, change, open, tried, offers, notice>>

-------------------------------------------------------------------------------
(* _applyControls and _switchCamera *)

\* The user changes a setting on the phone, whatever else is under way.
LocalChange ==
  /\ page.phase = "live"
  /\ page.changes < MaxChanges
  /\ page' = [page EXCEPT !.changes = @ + 1]
  /\ \E setting \in Setting : Begin(page'.changes, setting)
  /\ UNCHANGED <<setups, pulse, closing, open, tried, offers, call, notice>>

\* What follows _applyControls: a remote command is acknowledged unless its
\* session is over, or the browser itself aborted (AbortError), which leaves the
\* command pending on the page; p is the page with what the camera now reports.
Conclude(origin, p, outcome) ==
  LET c == change[origin]
      live == c.gen = p.gen /\ p.phase = "live"
  IN  /\ change' = [change EXCEPT ![origin] = Idle]
      /\ CASE origin # Remote -> page' = p /\ UNCHANGED <<pulse, call, tried>>
           [] origin = Remote /\ ~live ->
                page' = p /\ PulseEnds /\ UNCHANGED <<call, tried>>
           [] OTHER ->
                LET failed == outcome = "rejected"
                IN  /\ page' = [p EXCEPT !.pendingError = failed]
                    /\ tried' = tried \cup (IF failed THEN {} ELSE {p.pendingId})
                    /\ IF outcome = "aborted"
                         THEN PulseEnds /\ UNCHANGED call
                         ELSE /\ pulse' = [pulse EXCEPT !.step = "ack"]
                              /\ call' = [state |-> "sent", setting |-> p.applied,
                                          ack |-> p.pendingId, error |-> failed,
                                          pending |-> None]

\* The camera in use reports a setting of its own.
Reported == {s \in Setting : LensOf[s] = page.stream.lens}

Constrained(origin) ==
  LET c == change[origin]
  IN  /\ c.step = "constraints"
      /\ IF Current(c.gen)
           THEN \E s \in Reported :
                  Conclude(origin, [page EXCEPT !.applied = s], "done")
           ELSE Conclude(origin, page, "rejected")
      /\ UNCHANGED <<setups, closing, open, offers, notice>>

\* The new camera is open and its modes are known: its track is to replace the
\* old one.  A stale change stops it.
MediaOpened(origin) ==
  LET c == change[origin]
      stream == [id |-> page.streams + 1, lens |-> LensOf[c.setting]]
  IN  /\ c.step = "media"
      /\ IF Current(c.gen)
           THEN /\ change' = [change EXCEPT ![origin].step = "replace",
                                            ![origin].new = stream]
                /\ page' = [page EXCEPT !.streams = @ + 1]
                /\ open' = open \cup {stream}
                /\ UNCHANGED <<pulse, call, tried>>
           ELSE /\ Conclude(origin, page, "rejected")
                /\ UNCHANGED open
      /\ UNCHANGED <<setups, closing, offers, notice>>

\* The peer of a generation is closed in the second part of _finishLocal.
PeerOpen(gen) == Current(gen) \/ \E c \in closing : c.gen = gen

\* replaceTrack settles while its peer is open, and never after.  The generation
\* is not looked at again: the new stream is the page's, the old one is
\* stopped, the new settings are read.
Switched(origin) ==
  LET c == change[origin]
  IN  /\ c.step = "replace" /\ PeerOpen(c.gen)
      /\ open' = open \ {c.old}
      /\ \E s \in {s \in Setting : LensOf[s] = c.new.lens} :
           Conclude(origin, [page EXCEPT !.stream = c.new, !.applied = s], "done")
      /\ UNCHANGED <<setups, closing, offers, notice>>

\* The camera refuses: what was opened for the change is stopped.  Only
\* getUserMedia may abort.
ChangeFails(origin) ==
  LET c == change[origin]
  IN  /\ c.step \in {"constraints", "media", "replace"}
      /\ c.step = "replace" => PeerOpen(c.gen)
      /\ open' = open \ {c.new}
      /\ \E outcome \in {"rejected", "aborted"} :
           /\ outcome = "aborted" => c.step = "media"
           /\ Conclude(origin, page, outcome)
      /\ UNCHANGED <<setups, closing, offers, notice>>
===============================================================================
