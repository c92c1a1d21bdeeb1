--------------------------- MODULE BrowserCameraProofs -------------------------
(***************************************************************************)
(* Proofs about BrowserCamera, for any cameras and settings and any bounds. *)
(*                                                                         *)
(* A step of the service leaves the page alone: what matters is what it    *)
(* makes of the session (Follows, Answers).  A step of the page leaves the *)
(* session alone and is shown to keep the rest (PageKept): one lemma for   *)
(* each kind of step, and FinishKeeps, SetupKeeps, TalkKeeps and           *)
(* ConcludeKeeps for what several of them do.                              *)
(***************************************************************************)
EXTENDS BrowserCamera, TLAPS

Outcome ==
  [id: CommandId \cup {None},
   result: {"none", "applied", "adjusted", "rejected"}]

Session ==
  [status: Service!Status, revision: Nat, applied: Setting \cup {None},
   pending: Command \cup {None}, outcome: Outcome]

Desktop ==
  [shown: [revision: Nat, applied: Setting \cup {None},
           status: Service!Status],
   issued: 0..MaxCommands]

Page ==
  [phase: {"stopped", "preparing", "connecting", "live"},
   gen: Nat, stream: Phone!Stream \cup {None},
   hasSession: BOOLEAN, applied: Setting \cup {None},
   pendingId: CommandId \cup {None}, pendingError: BOOLEAN,
   failures: 0..3, starts: 0..MaxStarts, changes: 0..MaxChanges,
   streams: Nat]

Setup ==
  [gen: Nat, setting: Setting,
   step: {"permission", "modes", "answer", "remote"}]

PulseState == [step: {"idle", "heartbeat", "apply", "ack"}, gen: Nat]

ChangeState ==
  [step: {"idle", "constraints", "media", "replace"},
   gen: Nat, setting: Setting \cup {None},
   old: Phone!Stream \cup {None}, new: Phone!Stream \cup {None}]

Closing == [gen: Nat, stream: Phone!Stream \cup {None}, notify: BOOLEAN]

Succeeded(s) == s.outcome.result \in {"applied", "adjusted"}

\* What the desktop shows is the session as it is or as it was.
Views ==
  /\ desktop.shown.revision <= session.revision
  /\ RevisionIdentifiesState

\* There is one setup for each generation, and the current one's is of a
\* session that is being set up.
Setups ==
  /\ \A s \in setups : s.gen <= page.gen
  /\ \A s, t \in setups : s.gen = t.gen => s = t
  /\ \A s \in setups : s.gen = page.gen =>
       /\ page.phase \in {"preparing", "connecting"}
       /\ s.step = "remote" => page.hasSession

\* The heartbeat waits for the change that its command has asked for; the page
\* keeps the command for as long as its session lives.  A change is to some
\* setting.
Applying ==
  /\ pulse.step = "apply" <=> change[Phone!Remote].step # "idle"
  /\ pulse.gen <= page.gen
  /\ pulse.step = "apply" =>
       /\ change[Phone!Remote].gen = pulse.gen
       /\ pulse.gen = page.gen <=> page.pendingId # None
  /\ page.pendingId # None => page.phase = "live"
  /\ \A o \in Phone!Origin :
       change[o].step # "idle" => change[o].setting \in Setting

\* A command that the page keeps, and one that it acknowledges, was tried on
\* the camera unless it is marked as an error.
Tried ==
  /\ page.pendingId # None /\ pulse.step # "apply" =>
       page.pendingError \/ page.pendingId \in tried
  /\ call.ack # None => call.error \/ call.ack \in tried
  /\ SuccessMeansTried

\* Nobody has asked for a command, or for a change.
NoCommand ==
  desktop.issued = 0 =>
    /\ session.pending = None /\ call.pending = None
    /\ change[Phone!Remote] = Phone!Idle
NoChange ==
  page.changes = 0 =>
    \A o \in Phone!Origin \ {Phone!Remote} : change[o] = Phone!Idle

\* Until somebody does, only setups open cameras, and each at most one.
OneCamera ==
  desktop.issued = 0 /\ page.changes = 0 =>
    /\ page.phase = "stopped" => page.stream = None
    /\ \A s \in setups :
         s.gen = page.gen /\ s.step = "permission" => page.stream = None

Untouched == NoCommand /\ NoChange /\ OneCamera /\ SetupLeavesNoCamera

IInv == TypeOK /\ Views /\ Setups /\ Applying /\ Tried /\ Untouched

-------------------------------------------------------------------------------
(* Types, and what every step is shown to do *)

\* The two components have the same definitions of what they exchange.
LEMMA Names ==
  /\ Service!Command = Command /\ Phone!Command = Command
  /\ Service!CommandId = CommandId /\ Phone!CommandId = CommandId
  /\ Service!Offer = Offer /\ Service!Call = Call
  /\ Service!NoCall = NoCall /\ Phone!NoCall = NoCall
BY DEF Service!Command, Phone!Command, Command, Service!CommandId,
       Phone!CommandId, CommandId, Service!Offer, Offer, Service!Call, Call,
       Service!NoCall, Phone!NoCall, NoCall

\* A command is no None.
LEMMA CommandFields ==
  /\ None \notin CommandId
  /\ \A c \in Command : c.id \in CommandId /\ c.setting \in Setting
BY BrowserConstantsOK DEF CommandId, Command

SessionOK(s) ==
  s \in Session /\ (s.pending # None => s.status = "live")

ServiceTyped ==
  /\ SessionOK(session) /\ claimed \in BOOLEAN
  /\ rtc \in {"none", "running", "ended"} /\ desktop \in Desktop

PageTyped ==
  /\ page \in Page /\ (page.phase = "live" => page.hasSession)
  /\ setups \subseteq Setup /\ pulse \in PulseState
  /\ change \in [Phone!Origin -> ChangeState]
  /\ closing \subseteq Closing /\ open \subseteq Phone!Stream
  /\ tried \subseteq CommandId

WireTyped == offers \subseteq Offer /\ call \in Call /\ notice \in BOOLEAN

\* The type invariant by its parts.
LEMMA Typing ==
  /\ TypeOK <=> ServiceTyped /\ PageTyped /\ WireTyped /\ present \in BOOLEAN
  /\ TypeOK' <=>
       ServiceTyped' /\ PageTyped' /\ WireTyped' /\ present' \in BOOLEAN
BY Names DEF TypeOK, Service!TypeOK, Phone!TypeOK, ServiceTyped, PageTyped,
     WireTyped, SessionOK, Session, Outcome, Desktop, Page, Setup, PulseState,
     ChangeState, Closing

-------------------------------------------------------------------------------
(* The session *)

\* What any step may make of the session: one that was stopped stays so, and
\* what the desktop is shown changes only with the revision.
Follows(s, t) ==
  /\ SessionOK(t)
  /\ s.status = "stopped" => t.status = "stopped"
  /\ s.revision <= t.revision
  /\ s.revision = t.revision => t.status = s.status /\ t.applied = s.applied

\* A step that gives no command, and does not claim that one was carried out.
Answers(s, t) ==
  /\ Follows(s, t)
  /\ t.pending \in {s.pending, None}
  /\ Succeeded(t) => t.outcome = s.outcome

\* The session may stay as it is.
LEMMA SameAnswers ==
  ASSUME NEW s, SessionOK(s)
  PROVE  Answers(s, s)
BY DEF Answers, Follows, SessionOK, Session

\* Two such steps in a row are one (expire, then answer).
LEMMA AnswersAgain ==
  ASSUME NEW s, NEW t, NEW u, SessionOK(s), Answers(s, t), Answers(t, u)
  PROVE  Answers(s, u)
<1>1. Follows(s, u)
  BY DEF Answers, Follows, SessionOK, Session
<1> QED BY <1>1 DEF Answers, Succeeded

\* stop_with, whoever calls it.
LEMMA StoppedAnswers ==
  ASSUME NEW s, SessionOK(s)
  PROVE  Answers(s, Service!Stopped(s))
<1>1. CASE s.status = "stopped"
  BY <1>1, SameAnswers DEF Service!Stopped
<1>2. CASE s.status # "stopped"
  <2> DEFINE n == s.revision + 1
             t == [s EXCEPT !.status = "stopped", !.pending = None,
                            !.revision = n]
  <2>1. s \in Session /\ n \in Nat /\ s.revision < n
    BY DEF SessionOK, Session
  <2>2. Service!Stopped(s) = t
    BY <1>2 DEF Service!Stopped
  <2> HIDE DEF n
  <2>3. /\ t \in Session /\ t.pending = None /\ t.revision = n
        /\ t.status = "stopped" /\ t.outcome = s.outcome
    BY <2>1 DEF Session, Service!Status
  <2> HIDE DEF t
  <2>4. Follows(s, t)
    BY <2>1, <2>3 DEF SessionOK, Session, Follows
  <2> QED BY <2>2, <2>3, <2>4 DEF Answers
<1> QED BY <1>1, <1>2

\* expire_pending_if_needed, when the command is overdue.
LEMMA ExpiredAnswers ==
  ASSUME NEW s, SessionOK(s), s.pending # None
  PROVE  Answers(s, Service!Expired(s)) /\ Service!Expired(s).pending = None
<1> DEFINE n == s.revision + 1
           o == [id |-> s.pending.id, result |-> "rejected"]
           t == [s EXCEPT !.pending = None, !.revision = n, !.outcome = o]
<1>1. s \in Session /\ n \in Nat /\ s.revision < n
  BY DEF SessionOK, Session
<1>2. o \in Outcome /\ o.result = "rejected"
  BY CommandFields DEF SessionOK, Session, Outcome
<1>3. Service!Expired(s) = t
  BY DEF Service!Expired
<1> HIDE DEF n, o
<1>4. /\ t \in Session /\ t.pending = None /\ t.outcome = o
      /\ t.status = s.status /\ t.revision = n
  BY <1>1, <1>2 DEF Session
<1> HIDE DEF t
<1>5. Follows(s, t)
  BY <1>1, <1>4 DEF SessionOK, Session, Follows
<1> QED BY <1>2, <1>3, <1>4, <1>5 DEF Answers, Succeeded

\* What every handler does first.
LEMMA ExpiryAnswers ==
  ASSUME SessionOK(session), NEW s \in Service!MaybeExpired
  PROVE  Answers(session, s)
BY SameAnswers, ExpiredAnswers DEF Service!MaybeExpired

\* activate, of a session that waits.
LEMMA ActivatedAnswers ==
  ASSUME NEW s, SessionOK(s), s.status = "waiting", NEW x \in Setting
  PROVE  Answers(s, Service!Activated(s, x))
<1> DEFINE n == s.revision + 1
           t == [s EXCEPT !.status = "live", !.applied = x, !.revision = n]
<1>1. s \in Session /\ n \in Nat /\ s.revision < n
  BY DEF SessionOK, Session
<1>2. Service!Activated(s, x) = t
  BY DEF Service!Activated
<1> HIDE DEF n
<1>3. /\ t \in Session /\ t.pending = s.pending /\ t.outcome = s.outcome
      /\ t.status = "live" /\ t.revision = n
  BY <1>1 DEF Session, Service!Status
<1> HIDE DEF t
<1>4. Follows(s, t)
  BY <1>1, <1>3 DEF SessionOK, Session, Follows
<1> QED BY <1>2, <1>3, <1>4 DEF Answers

\* A heartbeat: a command is answered, as the page says.
LEMMA HeardFollows ==
  ASSUME NEW s, SessionOK(s), NEW u \in Call,
         u.ack = None \/ Service!Acknowledges(s, u.ack)
  PROVE  LET t == Service!Heard(s, u)
         IN  /\ Follows(s, t) /\ t.pending \in {s.pending, None}
             /\ Succeeded(t) =>
                  \/ t.outcome = s.outcome
                  \/ u.ack # None /\ ~u.error /\ t.outcome.id = u.ack
<1> DEFINE t == Service!Heard(s, u)
           acked == u.ack # None
           revision == IF Service!Changed(s, u) THEN s.revision + 1
                       ELSE s.revision
           outcome == IF acked
                      THEN [id |-> s.pending.id,
                            result |-> Service!Result(s.pending, u)]
                      ELSE s.outcome
           pending == IF acked THEN None ELSE s.pending
<1>1. /\ s \in Session /\ u.setting \in Setting \cup {None}
      /\ acked =>
           s.pending # None /\ s.pending.id = u.ack /\ u.ack \in CommandId
  BY Names DEF SessionOK, Service!Acknowledges, Call
<1>2. Service!Result(s.pending, u) \in {"applied", "adjusted", "rejected"}
  BY DEF Service!Result
<1>3. Service!Result(s.pending, u) # "rejected" => ~u.error
  <2>1. u.error \in BOOLEAN
    BY DEF Call
  <2>2. CASE u.error
    BY <2>2 DEF Service!Result
  <2> QED BY <2>1, <2>2
<1>4. outcome \in Outcome /\ pending \in {s.pending, None}
  BY <1>1, <1>2 DEF Session, Outcome
<1>5. /\ revision \in Nat /\ s.revision <= revision
      /\ revision = s.revision => u.setting = s.applied
  BY <1>1 DEF Session, Service!Changed
<1>6. /\ outcome.result \in {"applied", "adjusted"} =>
           \/ outcome = s.outcome
           \/ acked /\ ~u.error /\ outcome.id = u.ack
  BY <1>1, <1>3
<1>7. t = [s EXCEPT !.applied = u.setting, !.revision = revision,
                    !.outcome = outcome, !.pending = pending]
  BY DEF Service!Heard
<1> HIDE DEF revision, outcome, pending, t
<1>8. /\ t \in Session /\ t.status = s.status /\ t.revision = revision
      /\ t.applied = u.setting /\ t.outcome = outcome /\ t.pending = pending
  BY <1>1, <1>4, <1>5, <1>7 DEF Session
<1>9. Follows(s, t)
  BY <1>4, <1>5, <1>8 DEF Follows, SessionOK
<1>10. Succeeded(t) => \/ t.outcome = s.outcome
                       \/ u.ack # None /\ ~u.error /\ t.outcome.id = u.ack
  BY <1>6, <1>8 DEF Succeeded
<1> QED BY <1>4, <1>8, <1>9, <1>10 DEF t

-------------------------------------------------------------------------------
(* Steps of the service, of the network, and the page's end *)

\* A step that leaves the page alone.
LEMMA ServiceKeeps ==
  ASSUME IInv, Follows(session, session'), UNCHANGED <<pageVars, present>>,
         ServiceTyped', WireTyped',
         \/ desktop'.shown = desktop.shown
         \/ desktop'.shown = Service!Snapshot(session'),
         call'.ack = call.ack, call'.error = call.error,
         Succeeded(session') => \/ session'.outcome = session.outcome
                                \/ session'.outcome.id \in tried,
         desktop'.issued = 0 =>
           /\ desktop.issued = 0
           /\ session'.pending \in {session.pending, None}
           /\ call'.pending \in {call.pending, session'.pending}
  PROVE  IInv'
<1>1. /\ UNCHANGED <<page, setups, pulse, change, closing, open, tried>>
      /\ UNCHANGED present
  BY DEF pageVars
<1>2. TypeOK'
  <2>1. PageTyped' /\ present' \in BOOLEAN
    BY <1>1, Typing DEF IInv, PageTyped
  <2> QED BY <2>1, Typing
<1>3. Views'
  <2>1. /\ session.revision \in Nat /\ session'.revision \in Nat
        /\ desktop.shown.revision \in Nat
        /\ desktop.shown.revision <= session.revision
    BY Typing DEF IInv, ServiceTyped, SessionOK, Session, Desktop, Views,
                  Follows
  <2>2. CASE desktop'.shown = Service!Snapshot(session')
    BY <2>1, <2>2 DEF Views, RevisionIdentifiesState, Service!Snapshot
  <2>3. CASE desktop'.shown = desktop.shown
    BY <2>1, <2>3 DEF IInv, Views, RevisionIdentifiesState, Service!Snapshot,
                      Follows
  <2> QED BY <2>2, <2>3
<1>4. Setups'
  BY <1>1 DEF IInv, Setups
<1>5. Applying'
  BY <1>1 DEF IInv, Applying
<1>6. Tried'
  BY <1>1 DEF IInv, Tried, SuccessMeansTried, Succeeded
<1>7. Untouched'
  BY <1>1 DEF IInv, Untouched, NoCommand, NoChange, OneCamera,
              SetupLeavesNoCamera, Held
<1> QED BY <1>2, <1>3, <1>4, <1>5, <1>6, <1>7 DEF IInv

\* A step that changes the session only, and asks for nothing.
LEMMA AnsweringKeeps ==
  ASSUME IInv, Answers(session, session'), UNCHANGED <<pageVars, present>>,
         claimed' \in BOOLEAN, rtc' \in {"none", "running", "ended"},
         desktop' \in Desktop, WireTyped', call' = call,
         \/ desktop'.shown = desktop.shown
         \/ desktop'.shown = Service!Snapshot(session'),
         desktop'.issued = desktop.issued
  PROVE  IInv' /\ Follows(session, session')
<1>1. Follows(session, session') /\ ServiceTyped'
  BY DEF Answers, Follows, ServiceTyped
<1>2. Succeeded(session') => session'.outcome = session.outcome
  BY DEF Answers
<1>3. session'.pending \in {session.pending, None}
  BY DEF Answers
<1> QED BY <1>1, <1>2, <1>3, ServiceKeeps

\* An offer that moves on is an offer.
LEMMA MoveTyped ==
  ASSUME offers \subseteq Offer, NEW o \in offers,
         NEW x \in {"sent", "claimed", "active", "answered", "refused"},
         Service!Move(o, x)
  PROVE  offers' \subseteq Offer
<1>1. [o EXCEPT !.state = x] \in Offer
  BY DEF Offer
<1> QED BY <1>1 DEF Service!Move

\* What the invariant says of types.
LEMMA InvTyped ==
  ASSUME IInv
  PROVE  ServiceTyped /\ PageTyped /\ WireTyped /\ present \in BOOLEAN
BY Typing DEF IInv

\* enqueue_command: the session follows, and a command was issued.
LEMMA CommandKeeps ==
  ASSUME IInv, Service!CameraCommand, UNCHANGED <<pageVars, present>>
  PROVE  IInv' /\ Follows(session, session')
<1>1. ServiceTyped /\ WireTyped
  BY InvTyped
<1>2. PICK s \in Service!MaybeExpired, x \in Setting :
        LET c == [id |-> desktop.issued + 1, setting |-> x]
        IN  /\ session' = IF /\ s.status = "live" /\ s.pending = None
                             /\ s.revision = desktop.shown.revision
                          THEN [s EXCEPT !.pending = c,
                                         !.outcome = Service!NoOutcome]
                          ELSE s
            /\ desktop' = [desktop EXCEPT !.issued = c.id]
  BY DEF Service!CameraCommand
<1> DEFINE c == [id |-> desktop.issued + 1, setting |-> x]
<1>3. /\ c \in Command /\ c.id = desktop.issued + 1 /\ c.id \in 0..MaxCommands
      /\ c.id # 0
  BY <1>1, BrowserConstantsOK
  DEF ServiceTyped, Desktop, Command, CommandId, Service!CameraCommand
<1>4. Answers(session, s) /\ SessionOK(session) /\ SessionOK(s)
  BY <1>1, ExpiryAnswers DEF ServiceTyped, Answers, Follows
<1> HIDE DEF c
<1>5. /\ Follows(session, session')
      /\ Succeeded(session') => session'.outcome = session.outcome
  <2>1. CASE session' = s
    BY <1>4, <2>1 DEF Answers
  <2>2. CASE /\ session' = [s EXCEPT !.pending = c,
                                     !.outcome = Service!NoOutcome]
             /\ s.status = "live"
    <3>1. Service!NoOutcome \in Outcome /\ Service!NoOutcome.result = "none"
      BY DEF Service!NoOutcome, Outcome
    <3>2. /\ session' \in Session /\ session'.status = s.status
          /\ session'.revision = s.revision /\ session'.applied = s.applied
          /\ session'.outcome = Service!NoOutcome
      BY <1>3, <1>4, <2>2, <3>1 DEF SessionOK, Session
    <3>3. Follows(session, session')
      BY <1>4, <2>2, <3>2 DEF Answers, Follows, SessionOK
    <3> QED BY <3>1, <3>2, <3>3 DEF Succeeded
  <2> QED BY <1>2, <2>1, <2>2 DEF c
<1>6. /\ desktop' \in Desktop /\ desktop'.shown = desktop.shown
      /\ desktop'.issued = c.id
  <2>1. desktop' = [desktop EXCEPT !.issued = c.id]
    BY <1>2 DEF c
  <2> QED BY <1>1, <1>3, <2>1 DEF ServiceTyped, Desktop
<1>7. ServiceTyped' /\ WireTyped' /\ call' = call
  BY <1>1, <1>5, <1>6
  DEF ServiceTyped, WireTyped, Follows, Service!CameraCommand
<1> QED BY <1>3, <1>5, <1>6, <1>7, ServiceKeeps

\* accept_heartbeat, refused or not.
LEMMA HeartbeatKeeps ==
  ASSUME IInv, Service!Heartbeat, UNCHANGED <<pageVars, present>>
  PROVE  IInv' /\ Follows(session, session')
<1>1. /\ ServiceTyped /\ WireTyped /\ SessionOK(session) /\ call \in Call
      /\ call.state = "sent"
      /\ UNCHANGED <<claimed, rtc, desktop, offers, notice>>
  BY InvTyped DEF ServiceTyped, WireTyped, Service!Heartbeat
<1>2. CASE call' = [call EXCEPT !.state = "refused"] /\ UNCHANGED session
  <2>1. /\ call' \in Call /\ call'.ack = call.ack /\ call'.error = call.error
        /\ call'.pending = call.pending
    BY <1>1, <1>2 DEF Call
  <2>2. Follows(session, session')
    BY <1>1, <1>2, SameAnswers DEF Answers
  <2>3. ServiceTyped' /\ WireTyped'
    BY <1>1, <1>2, <2>1 DEF ServiceTyped, WireTyped
  <2> QED BY <1>1, <1>2, <2>1, <2>2, <2>3, ServiceKeeps
<1>3. ASSUME NEW s \in Service!MaybeExpired, session' = s,
             call' = [call EXCEPT !.state = "refused"]
      PROVE  IInv' /\ Follows(session, session')
  <2>1. /\ call' \in Call /\ call'.ack = call.ack /\ call'.error = call.error
        /\ call'.pending = call.pending
    BY <1>1, <1>3 DEF Call
  <2>2. Answers(session, session')
    BY <1>1, <1>3, ExpiryAnswers
  <2>3. ServiceTyped' /\ WireTyped'
    BY <1>1, <2>1, <2>2 DEF ServiceTyped, WireTyped, Answers, Follows
  <2> QED BY <1>1, <2>1, <2>2, <2>3, ServiceKeeps DEF Answers
<1>4. ASSUME NEW s \in Service!MaybeExpired,
             call.ack = None \/ Service!Acknowledges(s, call.ack),
             session' = Service!Heard(s, call),
             call' = [call EXCEPT !.state = "accepted",
                                  !.pending = session'.pending]
      PROVE  IInv' /\ Follows(session, session')
  <2>1. Answers(session, s) /\ SessionOK(s)
    BY <1>1, ExpiryAnswers DEF Answers, Follows
  <2>2. /\ Follows(s, session') /\ session'.pending \in {s.pending, None}
        /\ Succeeded(session') =>
             \/ session'.outcome = s.outcome
             \/ call.ack # None /\ ~call.error /\ session'.outcome.id = call.ack
    BY <1>1, <1>4, <2>1, HeardFollows
  <2>3. /\ Follows(session, session')
        /\ session'.pending \in {session.pending, None}
    BY <1>1, <2>1, <2>2
    DEF Answers, Follows, SessionOK, Session
  <2>4. Succeeded(session') => \/ session'.outcome = session.outcome
                               \/ session'.outcome.id \in tried
    BY <2>1, <2>2 DEF Answers, Succeeded, IInv, Tried
  <2> DEFINE p == session'.pending
  <2>5. p \in Command \cup {None} /\ call' = [call EXCEPT !.state = "accepted",
                                                          !.pending = p]
    BY <1>4, <2>2 DEF Follows, SessionOK, Session
  <2> HIDE DEF p
  <2>6. /\ call' \in Call /\ call'.ack = call.ack /\ call'.error = call.error
        /\ call'.pending = p
    BY <1>1, <2>5, Names DEF Call
  <2>7. ServiceTyped' /\ WireTyped'
    BY <1>1, <2>3, <2>6 DEF ServiceTyped, WireTyped, Follows
  <2> QED BY <1>1, <2>3, <2>4, <2>6, <2>7, ServiceKeeps DEF p
<1> QED BY <1>2, <1>3, <1>4 DEF Service!Heartbeat

\* HTTP handlers.
LEMMA HttpKeeps ==
  ASSUME IInv, HttpStep, UNCHANGED <<pageVars, present>>
  PROVE  IInv' /\ Follows(session, session')
<1>1. /\ ServiceTyped /\ WireTyped /\ SessionOK(session) /\ call \in Call
      /\ desktop \in Desktop /\ claimed \in BOOLEAN
      /\ rtc \in {"none", "running", "ended"}
      /\ offers \subseteq Offer /\ notice \in BOOLEAN
  BY InvTyped DEF ServiceTyped, WireTyped
<1>2. CASE Service!CameraState
  <2>1. PICK s \in Service!MaybeExpired :
          /\ session' = s
          /\ desktop' = [desktop EXCEPT !.shown = Service!Snapshot(s)]
    BY <1>2 DEF Service!CameraState
  <2>2. Answers(session, session') /\ SessionOK(s)
    BY <1>1, <2>1, ExpiryAnswers DEF Answers, Follows
  <2>3. Service!Snapshot(s) \in [revision: Nat, applied: Setting \cup {None},
                                 status: Service!Status]
    BY <2>2 DEF SessionOK, Session, Service!Snapshot
  <2>4. /\ desktop' \in Desktop /\ desktop'.issued = desktop.issued
        /\ desktop'.shown = Service!Snapshot(session')
    BY <1>1, <2>1, <2>3 DEF Desktop
  <2>5. UNCHANGED <<claimed, rtc, offers, call, notice>>
    BY <1>2 DEF Service!CameraState
  <2>6. WireTyped'
    BY <1>1, <2>5 DEF WireTyped
  <2> QED BY <1>1, <2>2, <2>4, <2>5, <2>6, AnsweringKeeps
<1>3. CASE Service!CameraCommand
  BY <1>3, CommandKeeps
<1>4. CASE Service!StopByDesktop \/ Service!StopByPage
  <2>1. /\ session' = Service!Stopped(session)
        /\ UNCHANGED <<claimed, rtc, desktop, offers, call>>
        /\ notice' \in BOOLEAN
    BY <1>1, <1>4 DEF Service!StopByDesktop, Service!StopByPage
  <2>2. WireTyped'
    BY <1>1, <2>1 DEF WireTyped
  <2> QED BY <1>1, <2>1, <2>2, StoppedAnswers, AnsweringKeeps
<1>5. CASE Service!Heartbeat
  BY <1>5, HeartbeatKeeps
<1>6. CASE Service!Claim
  <2>1. /\ claimed' = TRUE /\ UNCHANGED <<session, rtc, desktop, call, notice>>
    BY <1>6 DEF Service!Claim
  <2>2. WireTyped'
    BY <1>1, <1>6, <2>1, MoveTyped DEF Service!Claim, WireTyped
  <2> QED BY <1>1, <2>1, <2>2, SameAnswers, AnsweringKeeps
<1>7. CASE Service!Activate
  <2>1. /\ UNCHANGED <<claimed, rtc, desktop, call, notice>>
    BY <1>7 DEF Service!Activate
  <2>2. PICK o \in offers :
          \/ /\ session.status = "waiting"
             /\ session' = Service!Activated(session, o.setting)
             /\ Service!Move(o, "active")
          \/ /\ session' \in {session, Service!Stopped(session)}
             /\ Service!Move(o, "refused")
    BY <1>7 DEF Service!Activate, Service!MayActivate
  <2>3. WireTyped'
    BY <1>1, <2>1, <2>2, MoveTyped DEF WireTyped
  <2>4. Answers(session, session')
    BY <1>1, <2>2, SameAnswers, StoppedAnswers, ActivatedAnswers
    DEF Offer
  <2> QED BY <1>1, <2>1, <2>3, <2>4, AnsweringKeeps
<1>8. CASE Service!RunRtc
  <2>1. /\ UNCHANGED <<claimed, desktop, call, notice>>
    BY <1>8 DEF Service!RunRtc
  <2>2. PICK o \in offers :
          \/ rtc' = "running" /\ Service!Move(o, "answered")
             /\ UNCHANGED session
          \/ session' = Service!Stopped(session) /\ Service!Move(o, "refused")
             /\ UNCHANGED rtc
    BY <1>8 DEF Service!RunRtc
  <2>3. WireTyped'
    BY <1>1, <2>1, <2>2, MoveTyped DEF WireTyped
  <2>4. Answers(session, session')
    BY <1>1, <2>2, SameAnswers, StoppedAnswers
  <2> QED BY <1>1, <2>1, <2>2, <2>3, <2>4, AnsweringKeeps
<1> QED BY <1>2, <1>3, <1>4, <1>5, <1>6, <1>7, <1>8 DEF HttpStep

\* The media thread.
LEMMA MediaKeeps ==
  ASSUME IInv, MediaStep, UNCHANGED <<pageVars, present>>
  PROVE  IInv' /\ Follows(session, session')
<1>1. /\ ServiceTyped /\ WireTyped /\ SessionOK(session)
      /\ desktop \in Desktop /\ claimed \in BOOLEAN
      /\ rtc \in {"none", "running", "ended"}
  BY InvTyped DEF ServiceTyped
<1>2. /\ UNCHANGED <<claimed, desktop, offers, call, notice>>
      /\ rtc' \in {rtc, "ended"}
      /\ \/ session' = Service!Stopped(session)
         \/ session.pending # None /\ session' = Service!Expired(session)
  BY DEF MediaStep, Service!ExpireHeartbeat, Service!ExpirePending,
         Service!RtcEnds
<1>3. Answers(session, session')
  BY <1>1, <1>2, StoppedAnswers, ExpiredAnswers
<1>4. WireTyped'
  BY <1>1, <1>2 DEF WireTyped
<1> QED BY <1>1, <1>2, <1>3, <1>4, AnsweringKeeps

\* A call or an offer that is lost.
LEMMA LossKeeps ==
  ASSUME IInv, LoseCall \/ LoseOffer,
         UNCHANGED <<serviceVars, pageVars, present>>
  PROVE  IInv' /\ Follows(session, session')
<1>1. /\ ServiceTyped /\ WireTyped /\ SessionOK(session)
      /\ UNCHANGED <<session, claimed, rtc, desktop>>
  BY InvTyped DEF ServiceTyped, serviceVars
<1>2. /\ ServiceTyped' /\ Follows(session, session')
      /\ Succeeded(session') => session'.outcome = session.outcome
  BY <1>1, SameAnswers DEF ServiceTyped, Answers
<1>3. WireTyped' /\ call'.ack = call.ack /\ call'.error = call.error
      /\ call'.pending = call.pending
  <2>1. CASE LoseCall
    <3>1. call \in Call /\ call' = [call EXCEPT !.state = "refused"]
      BY <1>1, <2>1 DEF LoseCall, WireTyped
    <3>2. /\ call' \in Call /\ call'.ack = call.ack /\ call'.error = call.error
          /\ call'.pending = call.pending
      BY <3>1 DEF Call
    <3> QED BY <1>1, <2>1, <3>2 DEF LoseCall, WireTyped
  <2>2. CASE LoseOffer
    BY <1>1, <2>2, MoveTyped DEF LoseOffer, WireTyped
  <2> QED BY <2>1, <2>2
<1> QED BY <1>1, <1>2, <1>3, ServiceKeeps

-------------------------------------------------------------------------------
(* Steps of the page *)

\* Who holds a camera.
LEMMA HeldBy ==
  \A x :
    /\ x \in Held <=>
         \/ page.phase # "stopped" /\ x = page.stream
         \/ \E c \in closing : x = c.stream
         \/ \E o \in Phone!Origin : x = change[o].old \/ x = change[o].new
    /\ x \in Held' <=>
         \/ page'.phase # "stopped" /\ x = page'.stream
         \/ \E c \in closing' : x = c.stream
         \/ \E o \in Phone!Origin : x = change'[o].old \/ x = change'[o].new
BY DEF Held

\* What every step of the page is shown to do.
PageKept ==
  PageTyped' /\ WireTyped' /\ Setups' /\ Applying' /\ Tried' /\ Untouched'

\* A step of the page that keeps this keeps the invariant.
LEMMA PageKeeps ==
  ASSUME IInv, UNCHANGED <<serviceVars, present>>, PageKept
  PROVE  IInv' /\ Follows(session, session')
<1>1. UNCHANGED <<session, claimed, rtc, desktop>> /\ present' = present
  BY DEF serviceVars
<1>2. ServiceTyped /\ present \in BOOLEAN
  BY InvTyped
<1>3. ServiceTyped' /\ Follows(session, session')
  BY <1>1, <1>2, SameAnswers DEF ServiceTyped, Answers
<1>4. Views'
  BY <1>1 DEF IInv, Views, RevisionIdentifiesState, Service!Snapshot
<1> QED BY <1>1, <1>2, <1>3, <1>4, Typing DEF IInv, PageKept

\* What the invariant says of the page.
LEMMA PageFacts ==
  ASSUME IInv
  PROVE  /\ PageTyped /\ WireTyped /\ Setups /\ Applying /\ Tried /\ Untouched
         /\ page \in Page /\ setups \subseteq Setup /\ pulse \in PulseState
         /\ call \in Call /\ page.gen \in Nat /\ pulse.gen \in Nat
         /\ Phone!Remote \in Phone!Origin
         /\ \A s \in setups : s.gen \in Nat
BY InvTyped DEF IInv, PageTyped, WireTyped, Page, PulseState, Setup,
                Phone!Origin

\* A session of the page ends, whatever else the step does to its setup, its
\* heartbeat and the messages.
LEMMA FinishKeeps ==
  ASSUME IInv, UNCHANGED serviceVars, Phone!Finish(TRUE),
         setups' \subseteq setups,
         \/ pulse' = pulse
         \/ pulse.step \in {"heartbeat", "ack"} /\ Phone!PulseEnds,
         UNCHANGED <<change, open, tried>>, call' \in {call, NoCall},
         offers' \subseteq Offer, notice' \in BOOLEAN
  PROVE  PageKept
<1> DEFINE n == page.gen + 1
           c == [gen |-> page.gen, stream |-> page.stream,
                 notify |-> TRUE /\ page.hasSession]
<1>1. /\ page \in Page /\ page.gen \in Nat /\ n \in Nat /\ page.gen < n
      /\ PageTyped /\ WireTyped /\ Setups /\ Applying /\ Tried /\ Untouched
      /\ pulse \in PulseState /\ setups \subseteq Setup
  BY PageFacts DEF Page
<1>2. /\ page' = [page EXCEPT !.phase = "stopped", !.gen = n, !.stream = None,
                              !.hasSession = FALSE, !.applied = None,
                              !.pendingId = None, !.pendingError = FALSE]
      /\ closing' = closing \cup {c}
  BY DEF Phone!Finish
<1>3. c \in Closing /\ c.stream = page.stream
  BY <1>1 DEF Page, Closing
<1> HIDE DEF n, c
<1>4. /\ page' \in Page /\ page'.phase = "stopped" /\ page'.gen = n
      /\ page'.stream = None /\ page'.pendingId = None
      /\ page'.changes = page.changes
  BY <1>1, <1>2 DEF Page
<1>5. /\ pulse' \in PulseState /\ pulse'.gen = pulse.gen
      /\ pulse'.step = "apply" <=> pulse.step = "apply"
  BY <1>1 DEF Phone!PulseEnds, PulseState
<1>6. /\ NoCall \in Call /\ NoCall.ack = None /\ NoCall.pending = None
      /\ call \in Call
  BY <1>1 DEF NoCall, Call, WireTyped
<1>7. PageTyped' /\ WireTyped'
  BY <1>1, <1>2, <1>3, <1>4, <1>5, <1>6 DEF PageTyped, WireTyped
<1>8. Setups'
  <2>1. \A s \in setups : s.gen \in Nat /\ s.gen <= page.gen
    BY <1>1 DEF Setups, Setup
  <2>2. \A s \in setups : s.gen <= n /\ s.gen # n
    BY <1>1, <2>1
  <2> QED BY <1>1, <1>4, <2>2 DEF Setups
<1>9. Applying'
  <2>1. pulse.gen \in Nat /\ pulse.gen <= page.gen
    BY <1>1 DEF Applying, PulseState
  <2>2. pulse.gen <= n /\ pulse.gen # n
    BY <1>1, <2>1
  <2> QED BY <1>1, <1>4, <1>5, <2>2 DEF Applying
<1>10. Tried'
  <2>1. session' = session
    BY DEF serviceVars
  <2> QED BY <1>1, <1>4, <1>6, <2>1 DEF Tried, SuccessMeansTried
<1>11. Untouched'
  <2>1. session' = session /\ desktop' = desktop
    BY DEF serviceVars
  <2>2. NoCommand' /\ NoChange' /\ OneCamera'
    BY <1>1, <1>4, <1>6, <1>8, <2>1
    DEF Untouched, NoCommand, NoChange, OneCamera, Setups
  <2>3. \A x : x \in Held => x \in Held'
    BY <1>2, <1>3, HeldBy
  <2> QED BY <1>1, <1>4, <2>1, <2>2, <2>3 DEF Untouched, SetupLeavesNoCamera
<1> QED BY <1>7, <1>8, <1>9, <1>10, <1>11 DEF PageKept

\* The user starts the camera.
LEMMA StartKeeps ==
  ASSUME IInv, Phone!Start, UNCHANGED serviceVars
  PROVE  PageKept
<1> DEFINE n == page.gen + 1
           k == page.starts + 1
<1>1. /\ page \in Page /\ page.gen \in Nat /\ n \in Nat /\ page.gen < n
      /\ PageTyped /\ WireTyped /\ Setups /\ Applying /\ Tried /\ Untouched
      /\ pulse \in PulseState /\ setups \subseteq Setup
      /\ page.phase = "stopped" /\ k \in 0..MaxStarts
      /\ session' = session /\ desktop' = desktop
  BY PageFacts, CameraConstantsOK DEF Page, Phone!Start, serviceVars
<1>2. page' = [page EXCEPT !.phase = "preparing", !.gen = n,
                           !.hasSession = FALSE, !.starts = k]
  BY DEF Phone!Start
<1>3. PICK x \in StartSetting :
        setups' = setups \cup {[gen |-> page'.gen, setting |-> x,
                                step |-> "permission"]}
  BY DEF Phone!Start
<1>4. UNCHANGED <<pulse, change, closing, open, tried, offers, call, notice>>
  BY DEF Phone!Start
<1> HIDE DEF n, k
<1>5. /\ page' \in Page /\ page'.phase = "preparing" /\ page'.gen = n
      /\ page'.stream = page.stream /\ page'.pendingId = page.pendingId
      /\ page'.changes = page.changes
  BY <1>1, <1>2 DEF Page
<1> DEFINE s == [gen |-> n, setting |-> x, step |-> "permission"]
<1>6. /\ s \in Setup /\ s.gen = n /\ s.step = "permission"
      /\ setups' = setups \cup {s}
  BY <1>1, <1>3, <1>5, BrowserConstantsOK DEF Setup
<1> HIDE DEF s
<1>7. PageTyped' /\ WireTyped'
  BY <1>1, <1>4, <1>5, <1>6 DEF PageTyped, WireTyped
<1>8. \A t \in setups : t.gen \in Nat /\ t.gen <= n /\ t.gen # n
  <2>1. \A t \in setups : t.gen \in Nat /\ t.gen <= page.gen
    BY <1>1 DEF Setups, Setup
  <2> QED BY <1>1, <2>1
<1>9. Setups'
  BY <1>1, <1>5, <1>6, <1>8 DEF Setups
<1>10. page.pendingId = None
  BY <1>1 DEF Applying
<1>11. Applying'
  <2>1. pulse.gen \in Nat /\ pulse.gen <= page.gen
    BY <1>1 DEF Applying, PulseState
  <2>2. pulse.gen <= n /\ pulse.gen # n
    BY <1>1, <2>1
  <2> QED BY <1>1, <1>4, <1>5, <1>10, <2>2 DEF Applying
<1>12. Tried'
  BY <1>1, <1>4, <1>5, <1>10 DEF Tried, SuccessMeansTried
<1>13. Untouched'
  <2>1. NoCommand' /\ NoChange' /\ OneCamera'
    BY <1>1, <1>4, <1>5, <1>6, <1>8
    DEF Untouched, NoCommand, NoChange, OneCamera
  <2>2. \A y : y \in Held => y \in Held'
    BY <1>1, <1>4, HeldBy
  <2> QED BY <1>1, <1>4, <1>5, <2>1, <2>2 DEF Untouched, SetupLeavesNoCamera
<1> QED BY <1>7, <1>9, <1>11, <1>12, <1>13 DEF PageKept

\* A setup moves on.
LEMMA AdvanceKeeps ==
  ASSUME Setups, setups \subseteq Setup, NEW s \in setups,
         NEW x \in {"permission", "modes", "answer", "remote"},
         Phone!Advance(s, x)
  PROVE  /\ setups' \subseteq Setup
         /\ \A t, u \in setups' : t.gen = u.gen => t = u
         /\ \A t \in setups' : \/ t \in setups /\ t.gen # s.gen
                               \/ t.gen = s.gen /\ t.step = x
<1> DEFINE v == [s EXCEPT !.step = x]
<1>1. v \in Setup /\ v.gen = s.gen /\ v.step = x
  BY DEF Setup
<1>2. setups' = (setups \ {s}) \cup {v}
  BY DEF Phone!Advance
<1> HIDE DEF v
<1>3. \A t \in setups \ {s} : t.gen # s.gen
  BY DEF Setups
<1> QED BY <1>1, <1>2, <1>3 DEF Setups

\* A step of a setup that is not its end for the page: the setup moves on or
\* is done, the page may get its stream.
LEMMA SetupKeeps ==
  ASSUME IInv, UNCHANGED serviceVars, NEW s \in setups,
         UNCHANGED <<pulse, change, closing, tried, call>>,
         offers' \subseteq Offer, notice' \in BOOLEAN,
         page' \in Page, page'.gen = page.gen, page'.changes = page.changes,
         page'.pendingId = page.pendingId,
         page'.pendingError = page.pendingError,
         \/ page'.phase = page.phase /\ page'.hasSession = page.hasSession
         \/ page'.hasSession /\ page'.phase = page.phase
         \/ s.gen = page.gen /\ page'.phase = "connecting"
         \/ s.gen = page.gen /\ page'.phase = "live" /\ page'.hasSession,
         page.hasSession => page'.hasSession,
         setups' \subseteq Setup,
         \A t, u \in setups' : t.gen = u.gen => t = u,
         \A t \in setups' :
           \/ t \in setups /\ t.gen # s.gen
           \/ /\ t.gen = s.gen /\ t.step # "permission"
              /\ s.gen = page.gen =>
                   /\ page'.phase \in {"preparing", "connecting"}
                   /\ t.step = "remote" => page'.hasSession,
         \/ page'.stream = page.stream /\ open' = open
         \/ /\ s.gen = page.gen /\ s.step = "permission"
            /\ page'.stream \in Phone!Stream
            /\ open' = open \cup {page'.stream}
            /\ page'.phase = page.phase
  PROVE  PageKept
<1>1. /\ page \in Page /\ PageTyped /\ WireTyped /\ Setups /\ Applying /\ Tried
      /\ Untouched /\ setups \subseteq Setup
      /\ session' = session /\ desktop' = desktop
  BY PageFacts DEF serviceVars
<1>2. s.gen = page.gen => page.phase \in {"preparing", "connecting"}
  BY <1>1 DEF Setups
<1>3. PageTyped' /\ WireTyped'
  BY <1>1, <1>2 DEF PageTyped, WireTyped
<1>4. Setups'
  <2>1. \A t \in setups' : t.gen <= page'.gen
    BY <1>1 DEF Setups
  <2>2. ASSUME NEW t \in setups', t.gen = page'.gen
        PROVE  /\ page'.phase \in {"preparing", "connecting"}
               /\ t.step = "remote" => page'.hasSession
    <3>1. CASE t \in setups /\ t.gen # s.gen
      BY <1>1, <2>2, <3>1 DEF Setups
    <3>2. CASE t.gen = s.gen
      BY <1>1, <2>2, <3>2 DEF Setups
    <3> QED BY <3>1, <3>2
  <2> QED BY <2>1, <2>2 DEF Setups
<1>5. page.pendingId # None => page'.phase = "live"
  BY <1>1, <1>2 DEF Applying
<1>6. Applying'
  BY <1>1, <1>5 DEF Applying
<1>7. Tried'
  BY <1>1 DEF Tried, SuccessMeansTried
<1>8. Untouched'
  <2>1. NoCommand' /\ NoChange'
    BY <1>1 DEF Untouched, NoCommand, NoChange
  <2>2. OneCamera'
    BY <1>1, <1>2 DEF Untouched, OneCamera
  <2>3. ASSUME desktop.issued = 0, page.changes = 0
        PROVE  open' \subseteq Held'
    <3>1. open \subseteq Held /\ None \notin open
      BY <1>1, <2>3, CameraConstantsOK
      DEF Untouched, SetupLeavesNoCamera, PageTyped
    <3>2. CASE page'.stream = page.stream /\ open' = open
      <4>1. page.phase # "stopped" => page'.phase # "stopped"
        BY <1>2
      <4> QED BY <3>1, <3>2, <4>1, HeldBy
    <3>3. CASE /\ s.gen = page.gen /\ s.step = "permission"
               /\ open' = open \cup {page'.stream}
               /\ page'.phase = page.phase
      <4>1. page.stream = None
        BY <1>1, <2>3, <3>3 DEF Untouched, OneCamera
      <4>2. page'.phase # "stopped"
        BY <1>2, <3>3
      <4> QED BY <3>1, <3>3, <4>1, <4>2, HeldBy
    <3> QED BY <3>2, <3>3
  <2> QED BY <1>1, <2>1, <2>2, <2>3 DEF Untouched, SetupLeavesNoCamera
<1> QED BY <1>3, <1>4, <1>6, <1>7, <1>8 DEF PageKept

\* A setup that is done.
LEMMA DoneKeeps ==
  ASSUME Setups, setups \subseteq Setup, NEW s \in setups, Phone!Done(s)
  PROVE  /\ setups' \subseteq Setup
         /\ \A t, u \in setups' : t.gen = u.gen => t = u
         /\ \A t \in setups' : t \in setups /\ t.gen # s.gen
BY DEF Setups, Phone!Done

\* The steps of start and prepare.
LEMMA SetupStepKeeps ==
  ASSUME IInv, UNCHANGED serviceVars, NEW s \in setups,
         \/ Phone!SetupFails(s) \/ Phone!Permitted(s) \/ Phone!SendOffer(s)
         \/ Phone!Answered(s) \/ Phone!GoLive(s)
  PROVE  PageKept
<1>1. /\ page \in Page /\ PageTyped /\ WireTyped /\ Setups /\ s \in Setup
      /\ setups \subseteq Setup /\ offers \subseteq Offer /\ notice \in BOOLEAN
      /\ s.gen \in Nat /\ s.setting \in Setting
  BY PageFacts DEF WireTyped, Setup
<1>2. CASE Phone!SetupFails(s)
  <2>1. /\ Phone!Done(s) /\ offers' \subseteq Offer /\ notice' \in BOOLEAN
        /\ UNCHANGED <<pulse, change, open, tried, call>>
        /\ \/ Phone!Finish(TRUE)
           \/ UNCHANGED <<page, closing>>
    BY <1>1, <1>2 DEF Phone!SetupFails
  <2>2. CASE Phone!Finish(TRUE)
    BY <1>1, <2>1, <2>2, FinishKeeps, DoneKeeps
  <2>3. CASE UNCHANGED <<page, closing>>
    BY <1>1, <2>1, <2>3, SetupKeeps, DoneKeeps
  <2> QED BY <2>1, <2>2, <2>3
<1>3. CASE Phone!Permitted(s)
  <2> DEFINE n == page.streams + 1
             stream == [id |-> n, lens |-> LensOf[s.setting]]
  <2>1. /\ s.step = "permission"
        /\ UNCHANGED <<pulse, change, closing, tried, offers, call, notice>>
    BY <1>3 DEF Phone!Permitted
  <2>2. CASE Phone!Done(s) /\ UNCHANGED <<page, open>>
    BY <1>1, <2>1, <2>2, SetupKeeps, DoneKeeps
  <2>3. CASE /\ s.gen = page.gen /\ Phone!Advance(s, "modes")
             /\ page' = [page EXCEPT !.stream = stream, !.streams = n]
             /\ open' = open \cup {stream}
    <3>1. n \in Nat /\ stream \in Phone!Stream
      BY <1>1, BrowserConstantsOK DEF Page, Phone!Stream
    <3> HIDE DEF n, stream
    <3>2. /\ page' \in Page /\ page'.gen = page.gen
          /\ page'.changes = page.changes /\ page'.pendingId = page.pendingId
          /\ page'.pendingError = page.pendingError
          /\ page'.phase = page.phase /\ page'.hasSession = page.hasSession
          /\ page'.stream = stream
      BY <1>1, <2>3, <3>1 DEF Page
    <3>3. page.phase \in {"preparing", "connecting"}
      BY <1>1, <2>3 DEF Setups
    <3> QED BY <1>1, <2>1, <2>3, <3>1, <3>2, <3>3, AdvanceKeeps, SetupKeeps
  <2> QED BY <1>3, <2>2, <2>3
          DEF Phone!Permitted, Phone!KeepsStream, Phone!Current
<1>4. CASE Phone!SendOffer(s)
  <2>1. UNCHANGED <<pulse, change, closing, open, tried, call, notice>>
    BY <1>4 DEF Phone!SendOffer
  <2>2. CASE Phone!Done(s) /\ UNCHANGED <<page, offers>>
    BY <1>1, <2>1, <2>2, SetupKeeps, DoneKeeps
  <2>3. CASE /\ s.gen = page.gen /\ Phone!Advance(s, "answer")
             /\ page' = [page EXCEPT !.phase = "connecting",
                                     !.applied = s.setting]
             /\ offers' = offers \cup {[gen |-> s.gen, state |-> "sent",
                                        setting |-> s.setting]}
    <3>1. /\ page' \in Page /\ page'.gen = page.gen
          /\ page'.changes = page.changes /\ page'.pendingId = page.pendingId
          /\ page'.pendingError = page.pendingError
          /\ page'.phase = "connecting" /\ page'.hasSession = page.hasSession
          /\ page'.stream = page.stream
      BY <1>1, <2>3 DEF Page
    <3>2. offers' \subseteq Offer
      BY <1>1, <2>3 DEF Offer
    <3> QED BY <1>1, <2>1, <2>3, <3>1, <3>2, AdvanceKeeps, SetupKeeps
  <2> QED BY <1>4, <2>2, <2>3 DEF Phone!SendOffer, Phone!Current
<1>5. CASE Phone!Answered(s)
  <2>1. /\ UNCHANGED <<pulse, change, closing, open, tried, call>>
        /\ offers' \subseteq Offer /\ notice' \in BOOLEAN
        /\ page' = [page EXCEPT !.hasSession = TRUE]
    BY <1>1, <1>5 DEF Phone!Answered
  <2>2. /\ page' \in Page /\ page'.gen = page.gen
        /\ page'.changes = page.changes /\ page'.pendingId = page.pendingId
        /\ page'.pendingError = page.pendingError
        /\ page'.phase = page.phase /\ page'.hasSession
        /\ page'.stream = page.stream
    BY <1>1, <2>1 DEF Page
  <2>3. CASE Phone!Done(s)
    BY <1>1, <2>1, <2>2, <2>3, SetupKeeps, DoneKeeps
  <2>4. CASE s.gen = page.gen /\ Phone!Advance(s, "remote")
    <3>1. page.phase \in {"preparing", "connecting"}
      BY <1>1, <2>4 DEF Setups
    <3>2. /\ setups' \subseteq Setup
          /\ \A t, u \in setups' : t.gen = u.gen => t = u
          /\ \A t \in setups' : \/ t \in setups /\ t.gen # s.gen
                                \/ t.gen = s.gen /\ t.step = "remote"
      BY <1>1, <2>4, AdvanceKeeps
    <3> QED BY <1>1, <2>1, <2>2, <2>4, <3>1, <3>2, SetupKeeps
  <2> QED BY <1>5, <2>3, <2>4 DEF Phone!Answered, Phone!Current
<1>6. CASE Phone!GoLive(s)
  <2>1. /\ UNCHANGED <<pulse, change, closing, open, tried, offers, call>>
        /\ Phone!Done(s) /\ notice' \in BOOLEAN /\ s.step = "remote"
    BY <1>1, <1>6 DEF Phone!GoLive
  <2>2. CASE UNCHANGED page
    BY <1>1, <2>1, <2>2, SetupKeeps, DoneKeeps
  <2>3. CASE s.gen = page.gen /\ page' = [page EXCEPT !.phase = "live"]
    <3>1. /\ page' \in Page /\ page'.gen = page.gen
          /\ page'.changes = page.changes /\ page'.pendingId = page.pendingId
          /\ page'.pendingError = page.pendingError
          /\ page'.phase = "live" /\ page'.hasSession = page.hasSession
          /\ page'.stream = page.stream
      BY <1>1, <2>3 DEF Page
    <3>2. page.hasSession
      BY <1>1, <2>1, <2>3 DEF Setups
    <3> QED BY <1>1, <2>1, <2>3, <3>1, <3>2, SetupKeeps, DoneKeeps
  <2> QED BY <1>6, <2>2, <2>3 DEF Phone!GoLive, Phone!Current
<1> QED BY <1>2, <1>3, <1>4, <1>5, <1>6

\* The page is stopped, or the second part of a finish stops its camera.
LEMMA StopStepKeeps ==
  ASSUME IInv, UNCHANGED serviceVars, StopStep
  PROVE  PageKept
<1>1. /\ page \in Page /\ PageTyped /\ WireTyped /\ Setups /\ Applying /\ Tried
      /\ Untouched /\ setups \subseteq Setup
      /\ session' = session /\ desktop' = desktop
  BY PageFacts DEF serviceVars
<1>2. CASE Phone!Stop
  BY <1>1, <1>2, FinishKeeps DEF Phone!Stop, WireTyped
<1>3. CASE Phone!CloseFinished
  <2>1. PICK c \in closing : /\ closing' = closing \ {c}
                             /\ open' = open \ {c.stream}
                             /\ notice' = (notice \/ c.notify)
    BY <1>3 DEF Phone!CloseFinished
  <2>2. UNCHANGED <<page, setups, pulse, change, tried, offers, call>>
    BY <1>3 DEF Phone!CloseFinished
  <2>3. PageTyped' /\ WireTyped'
    BY <1>1, <2>1, <2>2 DEF PageTyped, WireTyped
  <2>4. Setups' /\ Applying' /\ Tried'
    BY <1>1, <2>2 DEF Setups, Applying, Tried, SuccessMeansTried
  <2>5. NoCommand' /\ NoChange' /\ OneCamera'
    BY <1>1, <2>2 DEF Untouched, NoCommand, NoChange, OneCamera
  <2>6. \A x : x \in Held => x \in Held' \/ x = c.stream
    BY <2>1, <2>2, HeldBy
  <2>7. Untouched'
    BY <1>1, <2>1, <2>2, <2>5, <2>6 DEF Untouched, SetupLeavesNoCamera
  <2> QED BY <2>3, <2>4, <2>7 DEF PageKept
<1> QED BY <1>2, <1>3 DEF StopStep

-------------------------------------------------------------------------------
(* The page's heartbeats and its changes of the camera *)

\* A change begins.
LEMMA BeginTyped ==
  ASSUME page \in Page, change \in [Phone!Origin -> ChangeState],
         NEW o \in Phone!Origin, NEW x \in Setting, Phone!Begin(o, x)
  PROVE  /\ change' \in [Phone!Origin -> ChangeState]
         /\ change'[o].step # "idle" /\ change'[o].gen = page.gen
         /\ change'[o].setting = x
         /\ \A q \in Phone!Origin : q # o => change'[q] = change[q]
<1> DEFINE step == IF LensOf[x] = page.stream.lens THEN "constraints"
                   ELSE "media"
           c == [step |-> step, gen |-> page.gen, setting |-> x,
                 old |-> page.stream, new |-> None]
<1>1. step \in {"constraints", "media"}
  OBVIOUS
<1>2. change' = [change EXCEPT ![o] = c]
  BY DEF Phone!Begin
<1> HIDE DEF step
<1>3. /\ c \in ChangeState /\ c.step # "idle" /\ c.gen = page.gen
      /\ c.setting = x
  BY <1>1 DEF ChangeState, Page
<1> HIDE DEF c
<1> QED BY <1>2, <1>3

\* A message of the page.
LEMMA SendTyped ==
  ASSUME page \in Page, NEW a \in CommandId \cup {None}, NEW e \in BOOLEAN,
         Phone!Send(a, e)
  PROVE  /\ call' \in Call /\ call'.ack = a /\ call'.error = e
         /\ call'.pending = None
BY DEF Phone!Send, Call, Page

\* A step of the heartbeat: the page's session, setups and cameras stay.
LEMMA TalkKeeps ==
  ASSUME IInv,
         UNCHANGED <<serviceVars, setups, closing, open, tried, offers,
                     notice>>,
         page' \in Page, page'.gen = page.gen, page'.phase = page.phase,
         page'.hasSession = page.hasSession, page'.stream = page.stream,
         page'.changes = page.changes, pulse' \in PulseState, call' \in Call,
         change' \in [Phone!Origin -> ChangeState],
         \A q \in Phone!Origin \ {Phone!Remote} : change'[q] = change[q],
         Applying',
         page'.pendingId # None /\ pulse'.step # "apply" =>
           page'.pendingError \/ page'.pendingId \in tried,
         call'.ack # None => call'.error \/ call'.ack \in tried,
         desktop.issued = 0 => call'.pending = None /\ change' = change
  PROVE  PageKept
<1>1. /\ PageTyped /\ WireTyped /\ Setups /\ Tried /\ Untouched
      /\ session' = session /\ desktop' = desktop
      /\ UNCHANGED <<setups, closing, open, tried, offers, notice>>
  BY PageFacts DEF serviceVars
<1>2. PageTyped' /\ WireTyped'
  BY <1>1 DEF PageTyped, WireTyped
<1>3. Setups'
  BY <1>1 DEF Setups
<1>4. Tried'
  BY <1>1 DEF Tried, SuccessMeansTried
<1>5. NoCommand' /\ NoChange' /\ OneCamera'
  BY <1>1 DEF Untouched, NoCommand, NoChange, OneCamera
<1>6. desktop.issued = 0 => \A x : x \in Held => x \in Held'
  BY <1>1, HeldBy
<1>7. Untouched'
  BY <1>1, <1>5, <1>6 DEF Untouched, SetupLeavesNoCamera
<1> QED BY <1>2, <1>3, <1>4, <1>7 DEF PageKept

\* _heartbeatCycle, by what the answer brings.
LEMMA HeartbeatAnsweredKeeps ==
  ASSUME IInv, UNCHANGED serviceVars, Phone!HeartbeatAnswered
  PROVE  PageKept
<1>1. /\ page \in Page /\ PageTyped /\ WireTyped /\ Applying /\ Tried
      /\ Untouched /\ pulse \in PulseState /\ call \in Call
      /\ pulse.gen \in Nat /\ page.gen \in Nat
      /\ Phone!Remote \in Phone!Origin
      /\ pulse.step = "heartbeat" /\ change[Phone!Remote].step = "idle"
      /\ change \in [Phone!Origin -> ChangeState]
      /\ UNCHANGED <<setups, closing, open, tried, offers, notice>>
  BY PageFacts DEF Phone!HeartbeatAnswered, PageTyped, Applying
<1>2. desktop.issued = 0 => call.pending = None
  BY <1>1 DEF Untouched, NoCommand
<1>3. /\ NoCall \in Call /\ NoCall.ack = None /\ NoCall.pending = None
  BY DEF NoCall, Call
<1>4. call.pending \in Command \cup {None}
  BY <1>1 DEF Call
<1> DEFINE command == call.pending
           idle == pulse' = [pulse EXCEPT !.step = "idle"]
           heard == page' = [page EXCEPT !.failures = 0]
<1>5. \/ /\ idle /\ call' = NoCall /\ UNCHANGED change
         /\ page' = page \/ heard
      \/ /\ command # None /\ page.pendingId = None
         /\ pulse.gen = page.gen /\ page.phase = "live"
         /\ page' = [page EXCEPT !.failures = 0, !.pendingId = command.id,
                                 !.pendingError = FALSE]
         /\ pulse' = [pulse EXCEPT !.step = "apply"]
         /\ Phone!Begin(Phone!Remote, command.setting)
         /\ call' = NoCall
      \/ /\ command # None /\ page.pendingId = command.id
         /\ heard /\ pulse' = [pulse EXCEPT !.step = "ack"]
         /\ Phone!Send(command.id, page.pendingError)
         /\ UNCHANGED change
  BY <1>1, <1>4, CommandFields, Names
  DEF Phone!HeartbeatAnswered, Phone!PulseEnds, Phone!PulseIsCurrent,
      Phone!Current
<1>6. ASSUME idle, call' = NoCall, UNCHANGED change, page' = page \/ heard
      PROVE  PageKept
  <2>1. /\ page' \in Page /\ page'.gen = page.gen /\ page'.phase = page.phase
        /\ page'.hasSession = page.hasSession /\ page'.stream = page.stream
        /\ page'.changes = page.changes /\ page'.pendingId = page.pendingId
        /\ page'.pendingError = page.pendingError
    BY <1>1, <1>6 DEF Page
  <2>2. pulse' \in PulseState /\ pulse'.gen = pulse.gen /\ pulse'.step = "idle"
    BY <1>1, <1>6 DEF PulseState
  <2>3. Applying'
    BY <1>1, <1>6, <2>1, <2>2 DEF Applying
  <2>4. page'.pendingId # None /\ pulse'.step # "apply" =>
          page'.pendingError \/ page'.pendingId \in tried
    BY <1>1, <2>1 DEF Tried
  <2> QED BY <1>1, <1>3, <1>6, <2>1, <2>2, <2>3, <2>4, TalkKeeps
<1>7. ASSUME command # None, page.pendingId = None, pulse.gen = page.gen,
             page.phase = "live",
             page' = [page EXCEPT !.failures = 0, !.pendingId = command.id,
                                  !.pendingError = FALSE],
             pulse' = [pulse EXCEPT !.step = "apply"],
             Phone!Begin(Phone!Remote, command.setting), call' = NoCall
      PROVE  PageKept
  <2>1. command.id \in CommandId /\ command.setting \in Setting
    BY <1>4, <1>7, CommandFields
  <2>2. /\ page' \in Page /\ page'.gen = page.gen /\ page'.phase = page.phase
        /\ page'.hasSession = page.hasSession /\ page'.stream = page.stream
        /\ page'.changes = page.changes /\ page'.pendingId = command.id
    <3> DEFINE id == command.id
    <3>1. id \in CommandId /\ page' = [page EXCEPT !.failures = 0,
                             !.pendingId = id, !.pendingError = FALSE]
      BY <1>7, <2>1
    <3> HIDE DEF id
    <3> HIDE DEF command
    <3>2. page \in Page /\ 0 \in 0..3
      BY <1>1
    <3>3. page' \in Page
      BY <3>1, <3>2 DEF Page
    <3>4. /\ page'.gen = page.gen
          /\ page'.phase = page.phase /\ page'.hasSession = page.hasSession
          /\ page'.stream = page.stream /\ page'.changes = page.changes
          /\ page'.pendingId = id
      BY <3>1, <3>2 DEF Page
    <3> QED BY <3>3, <3>4 DEF id
  <2>3. pulse' \in PulseState /\ pulse'.gen = pulse.gen /\ pulse'.step = "apply"
    BY <1>1, <1>7 DEF PulseState
  <2>4. /\ change' \in [Phone!Origin -> ChangeState]
        /\ change'[Phone!Remote].step # "idle" /\ change'[Phone!Remote].gen = page.gen
        /\ \A q \in Phone!Origin \ {Phone!Remote} : change'[q] = change[q]
        /\ change'[Phone!Remote].setting \in Setting
    BY <1>1, <1>7, <2>1, BeginTyped
  <2>5. Applying'
    BY <1>1, <1>7, <2>1, <2>2, <2>3, <2>4, CommandFields
    DEF Applying
  <2> QED BY <1>1, <1>2, <1>3, <1>7, <2>2, <2>3, <2>4, <2>5, TalkKeeps
<1>8. ASSUME command # None, page.pendingId = command.id, heard,
             pulse' = [pulse EXCEPT !.step = "ack"],
             Phone!Send(command.id, page.pendingError), UNCHANGED change
      PROVE  PageKept
  <2>1. command.id \in CommandId /\ page.pendingError \in BOOLEAN
    BY <1>1, <1>4, <1>8, CommandFields DEF Page
  <2>2. /\ page' \in Page /\ page'.gen = page.gen /\ page'.phase = page.phase
        /\ page'.hasSession = page.hasSession /\ page'.stream = page.stream
        /\ page'.changes = page.changes /\ page'.pendingId = page.pendingId
        /\ page'.pendingError = page.pendingError
    BY <1>1, <1>8 DEF Page
  <2>3. pulse' \in PulseState /\ pulse'.gen = pulse.gen /\ pulse'.step = "ack"
    BY <1>1, <1>8 DEF PulseState
  <2>4. /\ call' \in Call /\ call'.ack = command.id
        /\ call'.error = page.pendingError /\ call'.pending = None
    BY <1>1, <1>8, <2>1, SendTyped
  <2>5. Applying'
    BY <1>1, <1>8, <2>2, <2>3 DEF Applying
  <2>6. page.pendingError \/ page.pendingId \in tried
    BY <1>1, <1>8, <2>1, CommandFields DEF Tried
  <2> QED BY <1>1, <1>8, <2>2, <2>3, <2>4, <2>5, <2>6, TalkKeeps
<1> QED BY <1>5, <1>6, <1>7, <1>8

\* The steps of _pulse.
LEMMA PulseStepKeeps ==
  ASSUME IInv, UNCHANGED serviceVars, PulseStep
  PROVE  PageKept
<1>1. /\ page \in Page /\ PageTyped /\ WireTyped /\ Applying /\ Tried
      /\ Untouched /\ pulse \in PulseState /\ call \in Call
      /\ pulse.gen \in Nat /\ page.gen \in Nat
      /\ change \in [Phone!Origin -> ChangeState]
      /\ setups \subseteq setups /\ offers \subseteq Offer /\ notice \in BOOLEAN
  BY PageFacts DEF PageTyped, WireTyped
<1>2. /\ NoCall \in Call /\ NoCall.ack = None /\ NoCall.pending = None
  BY DEF NoCall, Call
<1>3. CASE Phone!Pulse
  <2>1. /\ UNCHANGED <<page, setups, change, closing, open, tried, offers,
                       notice>>
        /\ pulse.step = "idle"
        /\ pulse' = [step |-> "heartbeat", gen |-> page.gen]
        /\ Phone!Send(None, FALSE)
    BY <1>3 DEF Phone!Pulse
  <2>2. call' \in Call /\ call'.ack = None /\ call'.pending = None
    BY <1>1, <2>1, SendTyped
  <2>3. /\ pulse' \in PulseState /\ pulse'.gen = page.gen
        /\ pulse'.step = "heartbeat"
    BY <1>1, <2>1 DEF PulseState
  <2>4. Applying'
    BY <1>1, <2>1, <2>3 DEF Applying
  <2>5. page.pendingId # None => page.pendingError \/ page.pendingId \in tried
    BY <1>1, <2>1 DEF Tried
  <2> QED BY <1>1, <2>1, <2>2, <2>3, <2>4, <2>5, TalkKeeps
<1>4. CASE Phone!HeartbeatAnswered
  BY <1>4, HeartbeatAnsweredKeeps
<1>5. CASE Phone!AckAnswered
  <2>1. /\ UNCHANGED <<setups, change, closing, open, tried, offers, notice>>
        /\ pulse.step = "ack" /\ pulse' = [pulse EXCEPT !.step = "idle"]
        /\ call' = NoCall
        /\ page' \in {page, [page EXCEPT !.pendingId = None,
                                         !.pendingError = FALSE]}
    BY <1>5, Names DEF Phone!AckAnswered, Phone!PulseEnds
  <2>2. /\ page' \in Page /\ page'.gen = page.gen /\ page'.phase = page.phase
        /\ page'.hasSession = page.hasSession /\ page'.stream = page.stream
        /\ page'.changes = page.changes
        /\ \/ page'.pendingId = None
           \/ page'.pendingId = page.pendingId
              /\ page'.pendingError = page.pendingError
    BY <1>1, <2>1 DEF Page
  <2>3. pulse' \in PulseState /\ pulse'.gen = pulse.gen /\ pulse'.step = "idle"
    BY <1>1, <2>1 DEF PulseState
  <2>4. Applying'
    BY <1>1, <2>1, <2>2, <2>3 DEF Applying
  <2>5. page'.pendingId # None =>
          page'.pendingError \/ page'.pendingId \in tried
    BY <1>1, <2>1, <2>2 DEF Tried
  <2> QED BY <1>1, <1>2, <2>1, <2>2, <2>3, <2>4, <2>5, TalkKeeps
<1>6. CASE Phone!PulseFails
  <2>1. /\ UNCHANGED <<setups, change, open, tried, offers, notice>>
        /\ pulse.step \in {"heartbeat", "ack"}
        /\ Phone!PulseEnds /\ call' = NoCall
    BY <1>6, Names DEF Phone!PulseFails
  <2>2. CASE Phone!Finish(TRUE)
    BY <1>1, <2>1, <2>2, FinishKeeps
  <2>3. CASE /\ UNCHANGED closing
             /\ \/ UNCHANGED page
                \/ /\ Phone!Failures < 3
                   /\ page' = [page EXCEPT !.failures = Phone!Failures]
    <3>1. page.failures \in 0..3 /\ Phone!Failures = page.failures + 1
      BY <1>1 DEF Page, Phone!Failures
    <3>2. /\ page' \in Page /\ page'.gen = page.gen /\ page'.phase = page.phase
          /\ page'.hasSession = page.hasSession /\ page'.stream = page.stream
          /\ page'.changes = page.changes /\ page'.pendingId = page.pendingId
          /\ page'.pendingError = page.pendingError
      BY <1>1, <2>3, <3>1 DEF Page
    <3>3. /\ pulse' \in PulseState /\ pulse'.gen = pulse.gen
          /\ pulse'.step = "idle"
      BY <1>1, <2>1 DEF PulseState, Phone!PulseEnds
    <3>4. Applying'
      BY <1>1, <2>1, <3>2, <3>3 DEF Applying
    <3>5. page.pendingId # None => page.pendingError \/ page.pendingId \in tried
      BY <1>1, <2>1 DEF Tried
    <3> QED BY <1>1, <1>2, <2>1, <2>3, <3>2, <3>3, <3>4, <3>5, TalkKeeps
  <2> QED BY <1>6, <2>2, <2>3 DEF Phone!PulseFails, Phone!Current
<1> QED BY <1>3, <1>4, <1>5, <1>6 DEF PulseStep

\* A change ends: whatever became of it, its heartbeat goes on.
LEMMA ConcludeKeeps ==
  ASSUME IInv, UNCHANGED <<serviceVars, setups, closing, offers, notice>>,
         NEW o \in Phone!Origin, change[o].step # "idle",
         NEW p \in Page, p.gen = page.gen, p.phase = page.phase,
         p.hasSession = page.hasSession, p.changes = page.changes,
         p.pendingId = page.pendingId, p.pendingError = page.pendingError,
         NEW x \in {"done", "rejected", "aborted"}, Phone!Conclude(o, p, x),
         open' \subseteq Phone!Stream
  PROVE  PageKept
<1>1. /\ page \in Page /\ PageTyped /\ WireTyped /\ Setups /\ Applying /\ Tried
      /\ Untouched /\ pulse \in PulseState /\ call \in Call
      /\ pulse.gen \in Nat /\ page.gen \in Nat
      /\ Phone!Remote \in Phone!Origin
      /\ change \in [Phone!Origin -> ChangeState]
      /\ tried \subseteq CommandId
      /\ session' = session /\ desktop' = desktop
  BY PageFacts DEF PageTyped, serviceVars
<1>2. /\ change' = [change EXCEPT ![o] = Phone!Idle]
      /\ Phone!Idle \in ChangeState /\ Phone!Idle.step = "idle"
  BY DEF Phone!Conclude, Phone!Idle, ChangeState
<1>3. /\ change' \in [Phone!Origin -> ChangeState]
      /\ change'[o] = Phone!Idle
      /\ \A q \in Phone!Origin : q # o => change'[q] = change[q]
  BY <1>1, <1>2
<1>4. ~(desktop.issued = 0 /\ page.changes = 0)
  BY <1>1, <1>2 DEF Untouched, NoCommand, NoChange
\* What is left to show of each way in which it ends.
<1> DEFINE Left ==
      /\ page' \in Page /\ page'.gen = page.gen /\ page'.phase = page.phase
      /\ page'.hasSession = page.hasSession /\ page'.changes = page.changes
      /\ pulse' \in PulseState /\ call' \in Call
      /\ tried \subseteq tried' /\ tried' \subseteq CommandId
      /\ Applying'
      /\ page'.pendingId # None /\ pulse'.step # "apply" =>
           page'.pendingError \/ page'.pendingId \in tried'
      /\ call'.ack # None => call'.error \/ call'.ack \in tried'
      /\ desktop.issued = 0 => call'.pending = None
<1>5. ASSUME o # Phone!Remote PROVE Left
  <2>1. page' = p /\ UNCHANGED <<pulse, call, tried>>
    BY <1>5 DEF Phone!Conclude
  <2>2. Applying'
    BY <1>1, <1>2, <1>3, <1>5, <2>1 DEF Applying
  <2> QED BY <1>1, <2>1, <2>2 DEF Tried, Untouched, NoCommand
<1>6. ASSUME o = Phone!Remote, ~(change[o].gen = p.gen /\ p.phase = "live")
      PROVE  Left
  <2>1. /\ page' = p /\ pulse' = [pulse EXCEPT !.step = "idle"]
        /\ UNCHANGED <<call, tried>>
    BY <1>6 DEF Phone!Conclude, Phone!PulseEnds
  <2>2. pulse' \in PulseState /\ pulse'.gen = pulse.gen /\ pulse'.step = "idle"
    BY <1>1, <2>1 DEF PulseState
  <2>3. page.pendingId = None
    BY <1>1, <1>6 DEF Applying
  <2>4. Applying'
    BY <1>1, <1>2, <1>3, <1>6, <2>1, <2>2 DEF Applying
  <2> QED BY <1>1, <2>1, <2>2, <2>3, <2>4 DEF Tried, Untouched, NoCommand
<1>7. ASSUME o = Phone!Remote, change[o].gen = p.gen, p.phase = "live"
      PROVE  Left
  <2> DEFINE failed == x = "rejected"
  <2>1. /\ page' = [p EXCEPT !.pendingError = failed]
        /\ tried' = tried \cup (IF failed THEN {} ELSE {p.pendingId})
        /\ \/ pulse' = [pulse EXCEPT !.step = "idle"] /\ call' = call
           \/ /\ pulse' = [pulse EXCEPT !.step = "ack"]
              /\ call' = [state |-> "sent", setting |-> p.applied,
                          ack |-> p.pendingId, error |-> failed,
                          pending |-> None]
    BY <1>7 DEF Phone!Conclude, Phone!PulseEnds
  <2>2. failed \in BOOLEAN
    OBVIOUS
  <2> HIDE DEF failed
  <2>3. page.pendingId # None /\ p.pendingId \in CommandId
    BY <1>1, <1>7 DEF Applying, Page
  <2>4. /\ page' \in Page /\ page'.gen = page.gen /\ page'.phase = page.phase
        /\ page'.hasSession = page.hasSession /\ page'.changes = page.changes
        /\ page'.pendingId = p.pendingId /\ page'.pendingError = failed
    BY <2>1, <2>2 DEF Page
  <2>5. /\ pulse' \in PulseState /\ pulse'.gen = pulse.gen
        /\ pulse'.step \in {"idle", "ack"}
    BY <1>1, <2>1 DEF PulseState
  <2>6. /\ tried \subseteq tried' /\ tried' \subseteq CommandId
        /\ failed \/ p.pendingId \in tried'
    BY <1>1, <2>1, <2>2, <2>3
  <2>7. \/ call' = call
        \/ /\ call' \in Call /\ call'.ack = p.pendingId /\ call'.error = failed
           /\ call'.pending = None
    BY <2>1, <2>2, <2>3 DEF Call, Page
  <2>8. /\ call' \in Call
        /\ call'.ack # None => call'.error \/ call'.ack \in tried'
    BY <1>1, <2>6, <2>7 DEF Tried
  <2>9. desktop.issued = 0 => call'.pending = None
    BY <1>1, <2>7 DEF Untouched, NoCommand
  <2>10. Applying'
    BY <1>1, <1>2, <1>3, <1>7, <2>3, <2>4, <2>5 DEF Applying
  <2> QED BY <2>4, <2>5, <2>6, <2>8, <2>9, <2>10
<1>8. Left
  BY <1>5, <1>6, <1>7
<1>9. PageTyped' /\ WireTyped'
  BY <1>1, <1>3, <1>8 DEF PageTyped, WireTyped
<1>10. Setups'
  BY <1>1, <1>8 DEF Setups
<1>11. Tried'
  BY <1>1, <1>8 DEF Tried, SuccessMeansTried
<1>12. Untouched'
  <2>1. NoCommand' /\ NoChange'
    BY <1>1, <1>3, <1>8 DEF Untouched, NoCommand, NoChange
  <2> QED BY <1>1, <1>4, <1>8, <2>1
          DEF Untouched, OneCamera, SetupLeavesNoCamera
<1> QED BY <1>8, <1>9, <1>10, <1>11, <1>12 DEF PageKept

\* The steps of _applyControls and _switchCamera.
LEMMA ChangeStepKeeps ==
  ASSUME IInv, UNCHANGED serviceVars, NEW o \in Phone!Origin, ChangeStep(o)
  PROVE  PageKept
<1> DEFINE c == change[o]
           n == page.streams + 1
           stream == [id |-> n, lens |-> LensOf[c.setting]]
<1>1. /\ page \in Page /\ PageTyped /\ WireTyped /\ Setups /\ Applying /\ Tried
      /\ Untouched /\ open \subseteq Phone!Stream /\ c \in ChangeState
      /\ change \in [Phone!Origin -> ChangeState] /\ n \in Nat
      /\ session' = session /\ desktop' = desktop
  BY PageFacts DEF PageTyped, Page, serviceVars
<1>2. UNCHANGED <<setups, closing, offers, notice>> /\ c.step # "idle"
  BY DEF ChangeStep, Phone!Constrained, Phone!MediaOpened, Phone!Switched,
         Phone!ChangeFails
<1>3. ASSUME NEW p \in Page, p.gen = page.gen, p.phase = page.phase,
             p.hasSession = page.hasSession, p.changes = page.changes,
             p.pendingId = page.pendingId, p.pendingError = page.pendingError,
             NEW x \in {"done", "rejected", "aborted"},
             Phone!Conclude(o, p, x), open' \subseteq Phone!Stream
      PROVE  PageKept
  BY <1>2, <1>3, ConcludeKeeps
<1>4. \A s \in Setting :
        LET p == [page EXCEPT !.applied = s]
        IN  /\ p \in Page /\ p.gen = page.gen /\ p.phase = page.phase
            /\ p.hasSession = page.hasSession /\ p.changes = page.changes
            /\ p.pendingId = page.pendingId
            /\ p.pendingError = page.pendingError
  BY <1>1 DEF Page
<1>5. CASE Phone!Constrained(o)
  <2>1. CASE Phone!Conclude(o, page, "rejected") /\ open' = open
    BY <1>1, <1>3, <2>1
  <2>2. CASE /\ open' = open
             /\ \E s \in Setting :
                  Phone!Conclude(o, [page EXCEPT !.applied = s], "done")
    <3>1. PICK s \in Setting :
            Phone!Conclude(o, [page EXCEPT !.applied = s], "done")
      BY <2>2
    <3> DEFINE p == [page EXCEPT !.applied = s]
    <3>2. /\ p \in Page /\ p.gen = page.gen /\ p.phase = page.phase
          /\ p.hasSession = page.hasSession /\ p.changes = page.changes
          /\ p.pendingId = page.pendingId
          /\ p.pendingError = page.pendingError
          /\ Phone!Conclude(o, p, "done")
      BY <1>4, <3>1
    <3> HIDE DEF p
    <3> QED BY <1>1, <1>3, <2>2, <3>2
  <2> QED BY <1>5, <2>1, <2>2 DEF Phone!Constrained, Phone!Reported
<1>6. CASE Phone!MediaOpened(o)
  <2>1. CASE Phone!Conclude(o, page, "rejected") /\ open' = open
    BY <1>1, <1>3, <2>1
  <2>2. CASE /\ change' = [change EXCEPT ![o].step = "replace",
                                         ![o].new = stream]
             /\ page' = [page EXCEPT !.streams = n]
             /\ UNCHANGED <<pulse, call, tried>>
             /\ open' = open \cup {stream} /\ c.step = "media"
    <3>1. stream \in Phone!Stream
      <4>1. c.setting \in Setting
        BY <1>1, <1>2 DEF Applying
      <4> QED BY <1>1, <4>1, BrowserConstantsOK DEF Phone!Stream
    <3> HIDE DEF stream
    <3> DEFINE d == [c EXCEPT !.step = "replace", !.new = stream]
    <3>2. /\ d \in ChangeState /\ d.step # "idle" /\ d.gen = c.gen
          /\ d.setting = c.setting
      BY <1>1, <3>1 DEF ChangeState
    <3>3. change' = [change EXCEPT ![o] = d]
      BY <1>1, <2>2
    <3> HIDE DEF d
    <3>4. /\ change' \in [Phone!Origin -> ChangeState]
          /\ \A q \in Phone!Origin : /\ change'[q].gen = change[q].gen
                                     /\ q # o => change'[q] = change[q]
                                     /\ change'[q].setting = change[q].setting
                                     /\ change'[q].step = "idle" <=>
                                          change[q].step = "idle"
      BY <1>1, <1>2, <3>2, <3>3
    <3>5. /\ page' \in Page /\ page'.gen = page.gen /\ page'.phase = page.phase
          /\ page'.hasSession = page.hasSession /\ page'.changes = page.changes
          /\ page'.pendingId = page.pendingId
          /\ page'.pendingError = page.pendingError
      BY <1>1, <2>2 DEF Page
    <3>6. /\ desktop.issued = 0 => o # Phone!Remote
          /\ page.changes = 0 => o = Phone!Remote
      BY <1>1, <1>2 DEF Untouched, NoCommand, NoChange, Phone!Idle
    <3>7. Phone!Remote \in Phone!Origin
      BY DEF Phone!Origin
    <3>8. PageTyped' /\ WireTyped'
      BY <1>1, <1>2, <2>2, <3>1, <3>4, <3>5 DEF PageTyped, WireTyped
    <3>9. Setups' /\ Applying' /\ Tried'
      BY <1>1, <1>2, <2>2, <3>4, <3>5, <3>7
      DEF Setups, Applying, Tried, SuccessMeansTried
    <3>10. NoCommand' /\ NoChange'
      BY <1>1, <2>2, <3>4, <3>5, <3>6, <3>7
      DEF Untouched, NoCommand, NoChange
    <3>11. Untouched'
      BY <1>1, <3>5, <3>6, <3>7, <3>10
      DEF Untouched, OneCamera, SetupLeavesNoCamera
    <3> QED BY <3>8, <3>9, <3>11 DEF PageKept
  <2> QED BY <1>6, <2>1, <2>2 DEF Phone!MediaOpened
<1>7. CASE Phone!Switched(o)
  <2>1. open' = open \ {c.old} /\ c.step = "replace"
    BY <1>7 DEF Phone!Switched
  <2>2. PICK s \in Setting :
          Phone!Conclude(o, [page EXCEPT !.stream = c.new, !.applied = s],
                         "done")
    BY <1>7 DEF Phone!Switched
  <2> DEFINE p == [page EXCEPT !.stream = c.new, !.applied = s]
  <2>3. c.new \in Phone!Stream \cup {None}
    BY <1>1 DEF ChangeState
  <2>4. Phone!Conclude(o, p, "done")
    BY <2>2
  <2> HIDE DEF c
  <2>5. /\ p \in Page /\ p.gen = page.gen /\ p.phase = page.phase
        /\ p.hasSession = page.hasSession /\ p.changes = page.changes
        /\ p.pendingId = page.pendingId
        /\ p.pendingError = page.pendingError
    BY <1>1, <2>3 DEF Page
  <2> HIDE DEF p
  <2> QED BY <1>1, <1>3, <2>1, <2>4, <2>5
<1>8. CASE Phone!ChangeFails(o)
  <2>1. open' \subseteq open
    BY <1>8 DEF Phone!ChangeFails
  <2>2. PICK x \in {"rejected", "aborted"} : Phone!Conclude(o, page, x)
    BY <1>8 DEF Phone!ChangeFails
  <2> QED BY <1>1, <1>3, <2>1, <2>2
<1> QED BY <1>5, <1>6, <1>7, <1>8 DEF ChangeStep

\* The user changes a setting on the phone.
LEMMA LocalChangeKeeps ==
  ASSUME IInv, UNCHANGED serviceVars, Phone!LocalChange
  PROVE  PageKept
<1> DEFINE k == page.changes + 1
<1>1. /\ page \in Page /\ PageTyped /\ WireTyped /\ Setups /\ Applying /\ Tried
      /\ Untouched /\ change \in [Phone!Origin -> ChangeState]
      /\ k \in 0..MaxChanges /\ k # 0
      /\ session' = session /\ desktop' = desktop
      /\ Phone!Remote \in Phone!Origin
      /\ k \in Phone!Origin /\ k # Phone!Remote
  BY PageFacts, CameraConstantsOK
  DEF PageTyped, Page, Phone!LocalChange, serviceVars, Phone!Origin, Phone!Remote
<1>2. /\ UNCHANGED <<setups, pulse, closing, open, tried, offers, call, notice>>
      /\ page' = [page EXCEPT !.changes = k]
  BY DEF Phone!LocalChange
<1>3. PICK x \in Setting : Phone!Begin(k, x)
  <2>1. page'.changes = k
    BY <1>1, <1>2 DEF Page
  <2> QED BY <2>1 DEF Phone!LocalChange
<1>4. /\ change' \in [Phone!Origin -> ChangeState]
      /\ \A q \in Phone!Origin : q # k => change'[q] = change[q]
      /\ change'[Phone!Remote] = change[Phone!Remote]
      /\ change'[k].setting \in Setting
  BY <1>1, <1>3, BeginTyped
<1> HIDE DEF k
<1>5. /\ page' \in Page /\ page'.gen = page.gen /\ page'.phase = page.phase
      /\ page'.hasSession = page.hasSession /\ page'.changes = k
      /\ page'.pendingId = page.pendingId
      /\ page'.pendingError = page.pendingError
  BY <1>1, <1>2 DEF Page
<1>6. PageTyped' /\ WireTyped'
  BY <1>1, <1>2, <1>4, <1>5 DEF PageTyped, WireTyped
<1>7. Setups' /\ Applying' /\ Tried'
  BY <1>1, <1>2, <1>4, <1>5
  DEF Setups, Applying, Tried, SuccessMeansTried
<1>8. Untouched'
  BY <1>1, <1>2, <1>4, <1>5
  DEF Untouched, NoCommand, NoChange, OneCamera, SetupLeavesNoCamera
<1> QED BY <1>6, <1>7, <1>8 DEF PageKept

\* The page is gone, and all it held with it.
LEMMA VanishKeeps ==
  ASSUME IInv, Vanish
  PROVE  IInv' /\ Follows(session, session')
<1>1. /\ page \in Page /\ PageTyped /\ WireTyped /\ Tried /\ Untouched
      /\ ServiceTyped /\ SessionOK(session)
      /\ page.starts \in 0..MaxStarts /\ page.changes \in 0..MaxChanges
  BY PageFacts, InvTyped DEF Page, ServiceTyped
<1>2. /\ present' = FALSE
      /\ setups' = {} /\ closing' = {} /\ open' = {} /\ tried' = tried
      /\ UNCHANGED <<session, claimed, rtc, desktop, offers, call, notice>>
      /\ pulse' = [step |-> "idle", gen |-> 0]
      /\ change' = [o \in Phone!Origin |-> Phone!Idle]
  BY DEF Vanish, serviceVars, wireVars
<1>3. page' = [phase |-> "stopped", gen |-> 0, stream |-> None,
               hasSession |-> FALSE, applied |-> None, pendingId |-> None,
               pendingError |-> FALSE, failures |-> 0, starts |-> page.starts,
               changes |-> page.changes, streams |-> 0]
  BY DEF Vanish, Phone!NoPage
<1>4. /\ page' \in Page /\ page'.phase = "stopped" /\ page'.gen = 0
      /\ page'.stream = None /\ page'.pendingId = None
      /\ page'.changes = page.changes
  BY <1>1, <1>3 DEF Page
<1>5. Phone!Idle \in ChangeState /\ Phone!Idle.step = "idle"
  BY DEF Phone!Idle, ChangeState
<1>6. Phone!Remote \in Phone!Origin
  BY DEF Phone!Origin
<1>7. PageTyped' /\ WireTyped'
  BY <1>1, <1>2, <1>4, <1>5 DEF PageTyped, WireTyped, PulseState
<1>8. Setups' /\ Applying' /\ Tried'
  BY <1>1, <1>2, <1>4, <1>5, <1>6
  DEF Setups, Applying, Tried, SuccessMeansTried
<1>9. NoCommand' /\ NoChange' /\ OneCamera' /\ SetupLeavesNoCamera'
  BY <1>1, <1>2, <1>4, <1>6
  DEF Untouched, NoCommand, NoChange, OneCamera, SetupLeavesNoCamera
<1>10. ServiceTyped' /\ Follows(session, session')
  BY <1>1, <1>2, SameAnswers DEF ServiceTyped, Answers
<1>11. Views'
  BY <1>2 DEF IInv, Views, RevisionIdentifiesState, Service!Snapshot
<1> QED BY <1>2, <1>7, <1>8, <1>9, <1>10, <1>11, Typing DEF IInv, Untouched

-------------------------------------------------------------------------------
(* The theorems *)

\* The initial state satisfies the invariant.
LEMMA InitInv == Init => IInv
<1> SUFFICES ASSUME Init PROVE IInv
  OBVIOUS
<1>1. /\ session = [status |-> "waiting", revision |-> 0, applied |-> None,
                    pending |-> None, outcome |-> Service!NoOutcome]
      /\ claimed = FALSE /\ rtc = "none" /\ offers = {} /\ call = NoCall
      /\ desktop = [shown |-> Service!Snapshot(session), issued |-> 0]
      /\ notice = FALSE /\ present = TRUE
      /\ page = Phone!NoPage /\ setups = {}
      /\ pulse = [step |-> "idle", gen |-> 0]
      /\ change = [o \in Phone!Origin |-> Phone!Idle]
      /\ closing = {} /\ open = {} /\ tried = {}
  BY Names DEF Init, Service!Init, Phone!Init
<1>2. Service!NoOutcome \in Outcome /\ Service!NoOutcome.result = "none"
  BY DEF Service!NoOutcome, Outcome
<1>3. /\ session \in Session /\ session.pending = None
      /\ session.outcome = Service!NoOutcome
  BY <1>1, <1>2 DEF Session, Service!Status
<1>4. /\ desktop \in Desktop /\ desktop.shown = Service!Snapshot(session)
      /\ Service!Snapshot(session).revision = session.revision
      /\ session.revision = 0
  BY <1>1, <1>3, BrowserConstantsOK DEF Desktop, Session, Service!Snapshot
<1>5. /\ page \in Page /\ page.phase = "stopped" /\ page.pendingId = None
      /\ page.stream = None /\ page.gen = 0
  BY <1>1, CameraConstantsOK DEF Page, Phone!NoPage
<1>6. Phone!Idle \in ChangeState /\ Phone!Idle.step = "idle"
  BY DEF Phone!Idle, ChangeState
<1>7. /\ NoCall \in Call /\ NoCall.ack = None /\ NoCall.pending = None
  BY DEF NoCall, Call
<1>8. Phone!Remote \in Phone!Origin
  BY DEF Phone!Origin
<1>9. ServiceTyped /\ PageTyped /\ WireTyped /\ present \in BOOLEAN
  BY <1>1, <1>3, <1>4, <1>5, <1>6, <1>7
  DEF ServiceTyped, SessionOK, PageTyped, WireTyped, PulseState
<1>10. Views
  BY <1>4 DEF Views, RevisionIdentifiesState
<1>11. Setups /\ Applying
  BY <1>1, <1>5, <1>6, <1>8 DEF Setups, Applying
<1>12. Tried
  BY <1>1, <1>2, <1>3, <1>5, <1>7 DEF Tried, SuccessMeansTried
<1>13. Untouched
  BY <1>1, <1>3, <1>5, <1>6, <1>7, <1>8
  DEF Untouched, NoCommand, NoChange, OneCamera, SetupLeavesNoCamera
<1> QED BY <1>9, <1>10, <1>11, <1>12, <1>13, Typing DEF IInv

\* Every step keeps the invariant, and a session that was stopped stays so.
LEMMA NextInv == IInv /\ [Next]_vars => IInv' /\ Follows(session, session')
<1> SUFFICES ASSUME IInv, [Next]_vars
             PROVE  IInv' /\ Follows(session, session')
  OBVIOUS
<1>1. CASE Serve(HttpStep)
  BY <1>1, HttpKeeps DEF Serve
<1>2. CASE Serve(MediaStep)
  BY <1>2, MediaKeeps DEF Serve
<1>3. CASE Run(PageStep)
  <2>1. UNCHANGED <<serviceVars, present>> /\ PageStep
    BY <1>3 DEF Run
  <2>2. CASE SetupStep
    BY <2>1, <2>2, StartKeeps, SetupStepKeeps, PageKeeps DEF SetupStep
  <2>3. CASE StopStep
    BY <2>1, <2>3, StopStepKeeps, PageKeeps
  <2>4. CASE PulseStep
    BY <2>1, <2>4, PulseStepKeeps, PageKeeps
  <2>5. CASE Phone!LocalChange
    BY <2>1, <2>5, LocalChangeKeeps, PageKeeps
  <2>6. CASE \E o \in Phone!Origin : ChangeStep(o)
    BY <2>1, <2>6, ChangeStepKeeps, PageKeeps
  <2> QED BY <2>1, <2>2, <2>3, <2>4, <2>5, <2>6 DEF PageStep
<1>4. CASE /\ LoseCall \/ LoseOffer
           /\ UNCHANGED <<serviceVars, pageVars, present>>
  BY <1>4, LossKeeps
<1>5. CASE Vanish
  BY <1>5, VanishKeeps
<1>6. CASE UNCHANGED vars
  <2>1. /\ UNCHANGED <<serviceVars, pageVars, wireVars, present>>
        /\ UNCHANGED <<session, claimed, rtc, desktop, offers, call, notice>>
    BY <1>6 DEF vars, serviceVars, wireVars
  <2>2. ServiceTyped /\ WireTyped /\ SessionOK(session)
    BY InvTyped DEF ServiceTyped
  <2>3. ServiceTyped' /\ WireTyped'
    BY <2>1, <2>2 DEF ServiceTyped, WireTyped
  <2> QED BY <2>1, <2>2, <2>3, SameAnswers, ServiceKeeps DEF Answers
<1> QED BY <1>1, <1>2, <1>3, <1>4, <1>5, <1>6 DEF Next

\* The invariant holds in every reachable state, for any cameras and settings
\* and any bounds.
THEOREM BrowserInvariant == Spec => []IInv
BY InitInv, NextInv, PTL DEF Spec

\* Type correctness: TypeOK, which says among the rest that only a live session
\* has a command pending (CameraSession), and that a page which is live knows
\* its session (PhoneSession.start).
THEOREM BrowserTypes == Spec => []TypeOK
<1>1. IInv => TypeOK
  BY DEF IInv
<1> QED BY <1>1, BrowserInvariant, PTL

\* RevisionIdentifiesState: a command whose expected revision is accepted was
\* made in view of what the camera is (enqueue_command).
THEOREM RevisionsIdentify == Spec => []RevisionIdentifiesState
<1>1. IInv => RevisionIdentifiesState
  BY DEF IInv, Views
<1> QED BY <1>1, BrowserInvariant, PTL

\* SuccessMeansTried: what the desktop is told was applied or adjusted, the page
\* has tried on the camera (accept_heartbeat, _ackRemoteCommand).
THEOREM SuccessIsTrue == Spec => []SuccessMeansTried
<1>1. IInv => SuccessMeansTried
  BY DEF IInv, Tried
<1> QED BY <1>1, BrowserInvariant, PTL

\* SetupLeavesNoCamera: however starts and stops follow each other, a camera
\* that is on is held by the page (prepare, _finishLocal).
THEOREM SetupsRelease == Spec => []SetupLeavesNoCamera
<1>1. IInv => SetupLeavesNoCamera
  BY DEF IInv, Untouched
<1> QED BY <1>1, BrowserInvariant, PTL

\* StoppedIsFinal: nothing brings a stopped session back (activate).
THEOREM StoppedStays == Spec => StoppedIsFinal
<1>1. IInv /\ [Next]_vars =>
        [session.status = "stopped" => session'.status = "stopped"]_vars
  BY NextInv DEF Follows
<1> QED BY <1>1, BrowserInvariant, PTL DEF Spec, StoppedIsFinal
===============================================================================
