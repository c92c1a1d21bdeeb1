--------------------------- MODULE CameraStateProofs ---------------------------
(***************************************************************************)
(* Proofs about what CameraStreamer shows, for any cameras and controls:   *)
(* between two controls the service knows what the camera does, and a      *)
(* control that succeeded did what it asked for and nothing else.          *)
(*                                                                         *)
(* Four states have to agree: what the service knows or is about to read,  *)
(* what the streamer takes for applied, what it tells the camera, and what *)
(* the camera does.  They differ only in what the pending control asks     *)
(* for, or while a camera is being switched to; a result is told from one  *)
(* of an earlier request because a command is used once.                   *)
(***************************************************************************)
EXTENDS CameraControlProofs

\* What the service knows, or will know once it has read every report.
Last == IF reports = <<>> THEN known ELSE reports[Len(reports)]

\* Nothing has been done for a command yet.
Unused(c) ==
  /\ device[c] = "none" /\ pending # c
  /\ request # None => request.tag # c
  /\ shot # None => shot.tag # c

\* A command comes once, and is unused until it is taken from the queue.
UsedOnce ==
  /\ \A i, j \in DOMAIN commands : commands[i] = commands[j] => i = j
  /\ handler.at = "apply" => ~Queued(handler.command)
  /\ \A c \in Command :
       /\ op[c] = "none" => Unused(c) /\ ~ReportedFor(c)
       /\ Queued(c) \/ (handler.at = "apply" /\ handler.command = c)
            => Unused(c)

\* Before the first result the camera was told nothing, or to be as it is.
Before ==
  {"acquire", "publish", "open", "opening", "configure", "configuring", "repeat"}
Beginning ==
  /\ at["run"] \in Before =>
       request = None /\ builder = None /\ shot = None /\ applied = None
  /\ statePublished = (applied # None)
  /\ applied = None =>
       /\ ~dimmed
       /\ request = None => builder = None /\ shot = None
       /\ request # None =>
            builder = Unset(selected) /\ request = Repeating(builder, None)
       /\ shot # None => shot = request

\* What a camera can be set to.
Within(id, settings) ==
  /\ Info[id].zoom # None => Contains(Info[id].zoom, settings.zoom)
  /\ Info[id].exposure # None => Contains(Info[id].exposure, settings.exposure)
  /\ settings.torch => Info[id].torch

\* A state that a camera of the phone can be in.
Sound(state) ==
  /\ state.width = 1280 /\ state.height = 720 /\ state.previewMirrored = FALSE
  /\ Within(state.cameraId, state)

SaidIsSound ==
  /\ active /\ applied # None =>
       /\ Last.applied \in AppliedType /\ Sound(Last.applied)
       /\ Sound(applied)
  /\ active =>
       /\ builder # None => Within(selected, builder)
       /\ request # None => Within(selected, request)
       /\ shot # None => Within(selected, shot)

\* What the service knows when it reads a report.
Said(i) == IF i = 1 THEN known ELSE reports[i - 1]

\* A report of success says that what was asked for was done, and no more.
Chain ==
  \A i \in DOMAIN reports : \A c \in Command :
    reports[i].command = c /\ ~reports[i].error =>
      Done(asked[c], Said(i).applied, reports[i].applied)

\* A camera is being switched to.
Switching == pending # None /\ device[pending] # "none"

AskedFor(field) == pending # None /\ asked[pending][field] # None
Wanted(field) ==
  IF AskedFor(field) THEN asked[pending][field] ELSE Last.applied[field]

\* The camera was told to do what it does, or what the pending control asks for.
ToldAll ==
  /\ builder # None /\ request # None /\ shot # None
  /\ pending # None => request.tag = pending

CameraShown ==
  /\ selected = Last.applied.cameraId /\ selected = applied.cameraId
  /\ pending = None => Last.caps = Capabilities(selected)
  /\ AskedFor("cameraId") => asked[pending].cameraId = selected

Levels == {"exposure", "torch"}
LevelsShown ==
  \A level \in Levels :
    /\ applied[level] = Last.applied[level]
    /\ pending = None => request[level] = Last.applied[level]
    /\ shot[level] = IF pending # None /\ shot.tag = pending
                     THEN request[level] ELSE Last.applied[level]

ScreenShown ==
  /\ dimmed = Wanted("screenDimmed")
  /\ ~AskedFor("screenDimmed") =>
       applied.screenDimmed = Last.applied.screenDimmed

\* Some zooms are one that was asked for and one within its tolerance.
Together(zooms) ==
  \E a, b \in Int : Near(a, b, Tolerance("zoom", b)) /\ zooms \subseteq {a, b}

ZoomShown ==
  IF AskedFor("zoom")
  THEN builder.zoom = asked[pending].zoom /\ request.zoom = asked[pending].zoom
  ELSE Together({Last.applied.zoom, applied.zoom, builder.zoom, request.zoom,
                 shot.zoom})

\* What was not asked for stays, on a camera whose request can be restored.
RestStays ==
  Restorable(selected) =>
    /\ ZoomShown
    /\ \A level \in Levels :
         builder[level] = Wanted(level) /\ request[level] = Wanted(level)

Agree == ToldAll /\ CameraShown /\ LevelsShown /\ ScreenShown /\ RestStays

Shown == active /\ applied # None /\ ~Switching => Agree

\* The camera in use was closed, and the next one is told nothing yet.
Between ==
  /\ builder = None /\ request = None /\ shot = None
  /\ selected = applied.cameraId

\* The next camera is told what the control asks for, from where it starts.
Switched ==
  /\ selected = asked[pending].cameraId /\ selected # applied.cameraId
  /\ builder = Applying(asked[pending], Unset(selected))
  /\ request = Repeating(builder, pending)
  /\ shot # None =>
       \E zoom \in {request.zoom, Thousand} : shot = [request EXCEPT !.zoom = zoom]

Awaited(c) ==
  \/ device[c] \in {"opening", "configuring"}
  \/ handler.at \in {"publishCamera", "publishSession"} /\ handler.command = c

SwitchBegins == \A c \in Command : Awaited(c) => pending = c /\ Between

SwitchGoesOn ==
  Switching =>
    /\ applied # None /\ Last.applied.cameraId = applied.cameraId
    /\ asked[pending].cameraId # applied.cameraId
    /\ Between \/ Switched

SwitchShown == active => SwitchBegins /\ SwitchGoesOn

SInv == UsedOnce /\ Beginning /\ SaidIsSound /\ Chain /\ Shown /\ SwitchShown

\* Another thread ends the capture while a result is taken.
Overtaken == \E t \in Thread : CaptureOvertaken(t)

\* None is none of the values that it stands in for.
LEMMA Nones ==
  /\ None \notin Command /\ None \notin CameraId
  /\ None \notin AppliedType /\ None \notin Settings /\ None \notin ShotType
BY StreamerOK, DataOK DEF StreamerOK, DataOK, Device

\* A tolerance is a number that is not negative, ...
LEMMA ToleranceIs ==
  ASSUME NEW x \in Int
  PROVE  Tolerance("zoom", x) \in Nat
BY SMT DEF Tolerance, Thousand

\* ... so that a zoom is within it, ...
LEMMA NearItself ==
  ASSUME NEW x \in Int
  PROVE  Near(x, x, Tolerance("zoom", x))
BY ToleranceIs, SMT DEF Near

\* ... and nearness goes both ways.
LEMMA NearBack ==
  ASSUME NEW x \in Int, NEW y \in Int, NEW n \in Nat, Near(x, y, n)
  PROVE  Near(y, x, n)
BY SMT DEF Near

\* One zoom is together with itself, and with one that it was acknowledged with.
LEMMA TogetherIf ==
  ASSUME NEW a \in Int, NEW b \in Int, Near(a, b, Tolerance("zoom", b)),
         NEW zooms \in SUBSET {a, b}
  PROVE  Together(zooms)
BY DEF Together

\* Zooms that are together stay so when some are left out.
LEMMA TogetherLess ==
  ASSUME NEW zooms, Together(zooms), NEW fewer \in SUBSET zooms
  PROVE  Together(fewer)
BY Zenon DEF Together

\* Each two of them are the same to the service's user.
LEMMA TogetherSame ==
  ASSUME NEW zooms, Together(zooms), NEW x \in zooms, NEW y \in zooms
  PROVE  SameZoom(x, y)
<1>1. PICK a \in Int, b \in Int :
        Near(a, b, Tolerance("zoom", b)) /\ zooms \subseteq {a, b}
  BY Zenon DEF Together
<1>2. x \in Int /\ x \in {a, b} /\ y \in {a, b}
  BY <1>1
<1>3. CASE x = y
  BY <1>2, <1>3, NearItself DEF SameZoom
<1>4. CASE x = a /\ y = b
  BY <1>1, <1>4 DEF SameZoom
<1>5. CASE x = b /\ y = a
  <2>1. Near(b, a, Tolerance("zoom", b))
    BY <1>1, ToleranceIs, NearBack
  <2> QED BY <1>5, <2>1 DEF SameZoom
<1> QED BY <1>2, <1>3, <1>4, <1>5

\* What a request sets is what it was made from.
LEMMA RepeatingSets ==
  ASSUME NEW settings, NEW tag
  PROVE  /\ Repeating(settings, tag).zoom = settings.zoom
         /\ \A level \in Levels :
              Repeating(settings, tag)[level] = settings[level]
         /\ Repeating(settings, tag).tag = tag
BY SMT DEF Repeating, Levels

\* What was asked for is set, and the rest is left.
LEMMA ApplyingSets ==
  ASSUME NEW controls, NEW settings \in Settings
  PROVE  \A field \in Levels \cup {"zoom"} :
           Applying(controls, settings)[field] =
             IF controls[field] = None THEN settings[field] ELSE controls[field]
<1>1. DOMAIN settings = {"zoom", "exposure", "torch", "fps"}
  BY SMT DEF Settings
<1> QED BY <1>1, SMT DEF Applying, Levels

\* The camera may take up everything but the zoom.
LEMMA TakingUp ==
  ASSUME NEW told \in ShotType, NEW zoom \in Int
  PROVE  LET does == [told EXCEPT !.zoom = zoom]
         IN  /\ does \in ShotType /\ does.zoom = zoom /\ does.tag = told.tag
             /\ \A level \in Levels : does[level] = told[level]
BY SMT DEF ShotType, Levels

\* A result says what the camera does.
LEMMA NowSays ==
  /\ Now.cameraId = selected /\ Now.zoom = shot.zoom /\ Now.screenDimmed = dimmed
  /\ \A level \in Levels : Now[level] = shot[level]
  /\ Now.width = 1280 /\ Now.height = 720 /\ Now.previewMirrored = FALSE
BY SMT DEF Now, Levels

\* A camera starts within its ranges.
LEMMA UnsetWithin ==
  ASSUME NEW id \in CameraId
  PROVE  Within(id, Unset(id))
BY CamerasOK, SMT DEF CamerasOK, Within, Unset

\* Settings that were validated are within them, too.
LEMMA ApplyingWithin ==
  ASSUME NEW id \in CameraId, NEW controls \in ControlsType,
         NEW settings \in Settings, Within(id, settings),
         SettingsOK(controls, id)
  PROVE  Within(id, Applying(controls, settings))
<1>1. \A field \in {"exposure", "torch", "zoom"} :
        Applying(controls, settings)[field] =
          IF controls[field] = None THEN settings[field] ELSE controls[field]
  BY ApplyingSets DEF Levels
<1> DEFINE set == Applying(controls, settings)
<1>2. Info[id].zoom # None => Contains(Info[id].zoom, set.zoom)
  BY <1>1, SMT DEF Within, SettingsOK
<1>3. Info[id].exposure # None => Contains(Info[id].exposure, set.exposure)
  BY <1>1, SMT DEF Within, SettingsOK
<1>4. set.torch => Info[id].torch
  BY <1>1, SMT DEF Within, SettingsOK
<1> QED BY <1>2, <1>3, <1>4 DEF Within

\* A report that is appended is the last one, ...
LEMMA LastIsAppended ==
  ASSUME NEW r \in ReportType, reports \in Seq(ReportType),
         reports' = Append(reports, r)
  PROVE  /\ Last' = r /\ reports' # <<>> /\ DOMAIN reports' = 1 .. Len(reports) + 1
         /\ DOMAIN reports = 1 .. Len(reports) /\ Len(reports) \in Nat
         /\ \A i \in DOMAIN reports : reports'[i] = reports[i]
         /\ reports'[Len(reports) + 1] = r
<1>1. /\ reports' # <<>> /\ Len(reports') = Len(reports) + 1
      /\ DOMAIN reports' = 1 .. Len(reports) + 1
      /\ DOMAIN reports = 1 .. Len(reports) /\ Len(reports) \in Nat
      /\ \A i \in DOMAIN reports : reports'[i] = reports[i]
      /\ reports'[Len(reports) + 1] = r
  BY SMT
<1> QED BY <1>1 DEF Last

\* ... and reading the first one does not change what the last one says.
LEMMA LastIsRead ==
  ASSUME reports \in Seq(ReportType), CameraState
  PROVE  /\ Last'.applied = Last.applied /\ Last'.caps = Last.caps
         /\ Head(reports) = reports[1] /\ 1 \in DOMAIN reports
         /\ known' = [caps |-> reports[1].caps, applied |-> reports[1].applied]
         /\ \A i \in DOMAIN reports' :
              /\ i \in Nat \ {0} /\ i + 1 \in DOMAIN reports
              /\ reports'[i] = reports[i + 1]
<1>1. reports # <<>> /\ reports' = Tail(reports)
  BY DEF CameraState
<1>2. Head(reports) = reports[1] /\ 1 \in DOMAIN reports
  BY <1>1, SMT
<1>3. known' = [caps |-> reports[1].caps, applied |-> reports[1].applied]
  BY <1>2 DEF CameraState
<1>4. \A i \in DOMAIN reports' :
        /\ i \in Nat \ {0} /\ i + 1 \in DOMAIN reports
        /\ reports'[i] = reports[i + 1]
  BY <1>1, SMT
<1>5. CASE reports' = <<>>
  <2>1. Len(reports) = 1
    <3>1. Len(Tail(reports)) = Len(reports) - 1 /\ Len(reports) \in Nat
      BY <1>1, SMT
    <3>2. \A q : q = <<>> => Len(q) = 0
      BY SMT
    <3>3. Len(Tail(reports)) = 0
      BY <1>1, <1>5, <3>2, Zenon
    <3> QED BY <3>1, <3>3, SMT
  <2>2. Last = reports[1] /\ Last' = known'
    BY <1>1, <1>5, <2>1 DEF Last
  <2> QED BY <1>2, <1>3, <1>4, <2>2
<1>6. CASE reports' # <<>>
  <2>1. Len(reports') \in DOMAIN reports' /\ Len(reports') + 1 = Len(reports)
    BY <1>1, <1>6, SMT
  <2>2. Last' = Last
    BY <1>1, <1>4, <1>6, <2>1 DEF Last
  <2> QED BY <1>2, <1>3, <1>4, <2>2
<1> QED BY <1>5, <1>6

\* A step that has nothing to do with what the camera shows.
Quiet ==
  /\ UNCHANGED <<looper, service, commands, reports>>
  /\ at'["run"] \in Before => at["run"] \in Before
  /\ \A c \in Command : device[c] = "none" => device'[c] = "none"
  /\ active' => active /\ \A c \in Command : device'[c] = device[c]

\* So are most steps of the threads, and the callbacks of the start.
LEMMA QuietSteps ==
  ASSUME CInv,
         \/ RunStep /\ ~StartRepeating
         \/ Stop \/ HangUp \/ \E t \in Thread : EndStep(t)
         \/ CameraOpened \/ SessionConfigured \/ TerminalFailure
         \/ UNCHANGED vars
  PROVE  Quiet
<1> USE DEF life, wire, threads, held, service, Quiet
<1>1. /\ "startup" \notin Command /\ Command \subseteq Device
      /\ at \in [Thread -> Step] /\ device \in [Device -> DeviceState]
      /\ active \in BOOLEAN
  BY Names DEF Device, CInv, IInv, Types, Flags
<1>2. \A places : UNCHANGED at => (at'["run"] \in places => at["run"] \in places)
  OBVIOUS
<1>3. ASSUME NEW d, device' = [device EXCEPT !["startup"] = d]
      PROVE  \A c \in Command : device'[c] = device[c]
  BY <1>1, <1>3
<1>4. ASSUME device' = ClosedCameras({"startup"})
      PROVE  \A c \in Command : device'[c] = device[c]
  BY <1>1, <1>4 DEF ClosedCameras
<1>5. CASE RunStep /\ ~StartRepeating
  <2>1. at'["run"] \in Before => at["run"] \in Before
    BY <1>1, <1>5, SMT
    DEF RunStep, Finally, Acquire, Publish, OpenCamera, CameraAwaited,
        CreateSession, SessionAwaited, Drain, WriteMediaRecord, Goto, Before,
        Thread
  <2>2. UNCHANGED <<active, looper, service, commands, reports>>
    BY <1>5, Zenon
    DEF RunStep, Finally, Acquire, Publish, OpenCamera, CameraAwaited,
        CreateSession, SessionAwaited, Drain, WriteMediaRecord
  <2>3. \A c \in Command : device'[c] = device[c]
    <3>1. \/ UNCHANGED device
          \/ \E d : device' = [device EXCEPT !["startup"] = d]
      BY <1>5, Zenon
      DEF RunStep, Finally, Acquire, Publish, OpenCamera, CameraAwaited,
          CreateSession, SessionAwaited, Drain, WriteMediaRecord
    <3> QED BY <1>3, <3>1, Zenon
  <2> QED BY <2>1, <2>2, <2>3, Zenon
<1>6. CASE Stop \/ HangUp
  <2>1. at'["run"] = at["run"]
    BY <1>1, <1>6, SMT DEF Stop, HangUp, Goto, Thread
  <2>2. UNCHANGED <<active, device, looper, service, commands, reports>>
    BY <1>6, Zenon DEF Stop, HangUp
  <2> QED BY <2>1, <2>2, Zenon
<1>7. ASSUME NEW t \in Thread, EndStep(t) PROVE Quiet
  <2>1. at'["run"] \in Before => at["run"] \in Before
    BY <1>1, <1>7, SMT
    DEF EndStep, Invalidate, EndsCapture, CloseGate, SendTerminalStop, Take, Close, Quit,
        Goto, Before, Thread
  <2>2. UNCHANGED <<looper, service, commands, reports>>
    BY <1>7, Zenon
    DEF EndStep, Invalidate, EndsCapture, CloseGate, SendTerminalStop, Take, Close, Quit
  <2>3. active' => active /\ ~Close(t)
    <3>1. Close(t) => ~active
      BY DEF Close, CInv, IInv, EndsInvalidated, Ended
    <3> QED
      BY <1>7, <3>1, Zenon
      DEF EndStep, Invalidate, EndsCapture, CloseGate, SendTerminalStop, Take, Close, Quit
  <2>4. CASE ~Close(t)
    <3>1. UNCHANGED device
      BY <1>7, <2>4, Zenon
      DEF EndStep, Invalidate, EndsCapture, CloseGate, SendTerminalStop, Take, Quit
    <3> QED BY <2>1, <2>2, <2>3, <3>1, Zenon
  <2>5. CASE Close(t)
    <3>1. \A c \in Command : device[c] = "none" => device'[c] = "none"
      BY <1>1, <2>5, SMT DEF Close, ClosedCameras, CInv, Named
    <3> QED BY <2>1, <2>2, <2>3, <2>5, <3>1, Zenon
  <2> QED BY <2>4, <2>5
<1>8. CASE CameraOpened \/ SessionConfigured
  <2>1. \/ \E d : device' = [device EXCEPT !["startup"] = d]
        \/ device' = ClosedCameras({"startup"})
    BY <1>8, Zenon DEF CameraOpened, SessionConfigured
  <2>2. UNCHANGED <<at, active, looper, service, commands, reports>>
    BY <1>8, Zenon DEF CameraOpened, SessionConfigured
  <2> QED BY <1>2, <1>3, <1>4, <2>1, <2>2, Zenon
<1>9. CASE TerminalFailure
  <2>1. \/ \E d : device' = [device EXCEPT !["startup"] = d]
        \/ device' = ClosedCameras({"startup"})
    BY <1>9, Zenon DEF TerminalFailure
  <2>2. (active' => active) /\ UNCHANGED <<at, looper, service, commands, reports>>
    BY <1>9, Zenon DEF TerminalFailure
  <2> QED BY <1>2, <1>3, <1>4, <2>1, <2>2, Zenon
<1>10. CASE UNCHANGED vars
  BY <1>10, Zenon DEF vars
<1> QED BY <1>5, <1>6, <1>7, <1>8, <1>9, <1>10

\* What agrees goes on to agree, as long as nothing is done to it.
LEMMA AgreeStays ==
  ASSUME Agree,
         UNCHANGED <<builder, request, shot, pending, selected, applied, dimmed>>,
         pending # None => asked'[pending] = asked[pending],
         Last'.applied = Last.applied, Last'.caps = Last.caps
  PROVE  Agree'
<1>1. /\ \A field : AskedFor(field)' <=> AskedFor(field)
      /\ \A field : Wanted(field)' = Wanted(field)
      /\ pending # None => asked'[pending] = asked[pending]
  BY Zenon DEF AskedFor, Wanted
<1>2. ToldAll'
  BY Zenon DEF Agree, ToldAll
<1>3. CameraShown'
  BY Zenon DEF Agree, CameraShown, AskedFor
<1>4. LevelsShown'
  BY Zenon DEF Agree, LevelsShown
<1>5. ScreenShown'
  BY <1>1, Zenon DEF Agree, ScreenShown
<1>6. ZoomShown => ZoomShown'
  BY <1>1, SMT DEF ZoomShown, AskedFor
<1>7. RestStays'
  BY <1>1, <1>6, Zenon DEF Agree, RestStays
<1> QED BY <1>2, <1>3, <1>4, <1>5, <1>7 DEF Agree

\* A switch goes on as it is while nothing that it needs changes.
LEMMA SwitchStays ==
  ASSUME SwitchBegins, SwitchGoesOn,
         UNCHANGED <<builder, request, shot, pending, selected, applied>>,
         Last'.applied = Last.applied \/ Last'.applied = applied,
         pending # None => asked'[pending] = asked[pending],
         Switching' => Switching,
         \A c \in Command : Awaited(c)' => Awaited(c)
  PROVE  SwitchBegins' /\ SwitchGoesOn'
<1>1. Between' = Between
  BY Zenon DEF Between
<1>2. SwitchBegins'
  BY <1>1, Zenon DEF SwitchBegins
<1>3. ASSUME Switching' PROVE Between' \/ Switched'
  <2>1. Switching /\ asked'[pending] = asked[pending] /\ (Between \/ Switched)
    BY <1>3, Zenon DEF SwitchGoesOn, Switching
  <2>2. Switched => Switched'
    BY <2>1, Zenon DEF Switched
  <2> QED BY <1>1, <2>1, <2>2
<1>4. ASSUME Switching'
      PROVE  /\ applied' # None /\ Last'.applied.cameraId = applied'.cameraId
             /\ asked'[pending'].cameraId # applied'.cameraId
  <2>1. Switching /\ asked'[pending] = asked[pending]
    BY <1>4, Zenon DEF Switching
  <2> QED BY <2>1, Zenon DEF SwitchGoesOn
<1> QED BY <1>2, <1>3, <1>4, Zenon DEF SwitchGoesOn

\* A quiet step keeps everything.
LEMMA QuietKept == CInv /\ SInv /\ Quiet => SInv'
<1> SUFFICES ASSUME CInv, SInv, Quiet PROVE SInv'
  OBVIOUS
<1>1. /\ UNCHANGED <<handler, pending, selected, builder, applied,
                     statePublished, dimmed, request, shot>>
      /\ UNCHANGED <<known, op, asked, commands, reports>>
      /\ Last' = Last
  BY DEF Quiet, looper, service, Last
<1>2. pending \in Command \cup {None}
  BY DEF CInv, IInv, Types
<1>3. active' => active /\ (Switching' <=> Switching)
  BY <1>1, <1>2, Zenon DEF Quiet, Switching
<1>4. UsedOnce'
  <2>1. \A c \in Command : Unused(c) => Unused(c)'
    BY <1>1, Zenon DEF Unused, Quiet
  <2> QED BY <1>1, <2>1, Zenon DEF SInv, UsedOnce, Queued, ReportedFor
<1>5. Beginning'
  BY <1>1, Zenon DEF SInv, Beginning, Quiet
<1>6. SaidIsSound'
  BY <1>1, Zenon DEF SInv, SaidIsSound, Quiet
<1>7. Chain'
  BY <1>1, Zenon DEF SInv, Chain, Said
<1>8. Shown'
  <2>1. Agree => Agree'
    BY <1>1, AgreeStays
  <2> QED BY <1>1, <1>3, <2>1, Zenon DEF SInv, Shown
<1>9. SwitchShown'
  <2> SUFFICES ASSUME active' PROVE SwitchBegins' /\ SwitchGoesOn'
    BY DEF SwitchShown
  <2>1. SwitchBegins /\ SwitchGoesOn /\ \A c \in Command : device'[c] = device[c]
    BY <1>3 DEF SInv, SwitchShown, Quiet
  <2>2. \A c \in Command : Awaited(c)' => Awaited(c)
    BY <1>1, <2>1, Zenon DEF Awaited
  <2> QED BY <1>1, <1>3, <2>1, <2>2, SwitchStays, Zenon
<1> QED BY <1>4, <1>5, <1>6, <1>7, <1>8, <1>9 DEF SInv

\* What is taken from the request is a request, with its tag.
LEMMA TakeUpSays ==
  ASSUME Data, TakeUpRequest
  PROVE  /\ request \in ShotType /\ session # None
         /\ \E zoom \in {request.zoom, IF shot = None THEN Thousand ELSE shot.zoom} :
              /\ zoom \in Int /\ shot' = [request EXCEPT !.zoom = zoom]
              /\ shot' \in ShotType /\ shot'.tag = request.tag /\ shot'.zoom = zoom
              /\ \A level \in Levels : shot'[level] = request[level]
<1>1. request \in ShotType /\ session # None
  BY DEF TakeUpRequest, Data
<1>2. PICK zoom \in {request.zoom, IF shot = None THEN Thousand ELSE shot.zoom} :
        shot' = [request EXCEPT !.zoom = zoom]
  BY DEF TakeUpRequest
<1>3. zoom \in Int
  <2>1. shot # None => shot \in ShotType
    BY DEF Data
  <2> QED BY <1>1, <2>1, SMT DEF ShotType, Thousand
<1>4. /\ shot' \in ShotType /\ shot'.tag = request.tag /\ shot'.zoom = zoom
      /\ \A level \in Levels : shot'[level] = request[level]
  BY <1>1, <1>2, <1>3, TakingUp
<1> QED BY <1>1, <1>2, <1>3, <1>4

\* A command that nothing has been done for stays so until it is applied.
LEMMA UnusedStays ==
  ASSUME CInv, Next, NEW c \in Command, Unused(c),
         ~((Apply \/ SwitchCamera) /\ handler.command = c)
  PROVE  Unused(c)'
<1> USE DEF life, wire, threads, held, looper, service
<1>0. /\ None # c /\ c # "startup" /\ c \in Device
      /\ device \in [Device -> DeviceState] /\ device[c] = "none"
      /\ ~Idle => handler.command \in Command
      /\ handler.at \in {"publishCamera", "publishSession"} =>
           handler.command # c
  BY Names, Nones DEF Device, CInv, IInv, Types, Named, Unused
<1>1. ASSUME UNCHANGED <<pending, request, shot>>, device'[c] = "none"
      PROVE  Unused(c)'
  BY <1>1 DEF Unused
<1>2. ASSUME pending' \in {pending, None}, UNCHANGED <<request, shot>>,
             device'[c] = "none"
      PROVE  Unused(c)'
  BY <1>0, <1>2, Zenon DEF Unused
<1>3. ASSUME NEW d \in Device, d # c, device' = ClosedCameras({d})
      PROVE  device'[c] = "none"
  BY <1>0, <1>3 DEF ClosedCameras
<1>4. ASSUME NEW d \in Device, d # c, NEW s, device' = [device EXCEPT ![d] = s]
      PROVE  device'[c] = "none"
  BY <1>0, <1>4
<1>5. CASE Quiet
  BY <1>1, <1>5 DEF Quiet, Unused
<1>6. CASE StartRepeating
  <2>1. request'.tag = None
    BY <1>6, RepeatingSets DEF StartRepeating
  <2> QED BY <1>0, <1>6, <2>1, Zenon DEF StartRepeating, Unused
<1>7. ASSUME NEW d \in Command, SwitchOpened(d) \/ SwitchConfigured(d)
      PROVE  Unused(c)'
  <2>1. d \in Device /\ d # c
    BY <1>0, <1>7 DEF SwitchOpened, SwitchConfigured, Device
  <2> QED
    BY <1>0, <1>1, <1>3, <1>7, <2>1, Zenon DEF SwitchOpened, SwitchConfigured
<1>8. ASSUME NEW id, NEW d, FailCameraCommand(id, d)
      PROVE  pending' \in {pending, None}
  BY <1>8, Zenon DEF FailCameraCommand
<1>9. ASSUME NEW d \in Command, SwitchFails(d) PROVE Unused(c)'
  <2>1. d \in Device /\ d # c
    BY <1>0, <1>9 DEF SwitchFails, Device
  <2> QED BY <1>2, <1>3, <1>8, <1>9, <2>1, Zenon DEF SwitchFails
<1>10. CASE PublishCamera
  <2>1. handler.command \in Device /\ handler.command # c
    BY <1>0, <1>10 DEF PublishCamera, Idle, Device
  <2>2. pending' \in {pending, None} /\ UNCHANGED <<request, shot>>
    BY <1>8, <1>10, Zenon DEF PublishCamera
  <2> QED BY <1>2, <1>3, <1>4, <1>10, <2>1, <2>2, Zenon DEF PublishCamera
<1>11. CASE PublishSession
  <2>1. handler.command \in Device /\ handler.command # c
    BY <1>0, <1>11 DEF PublishSession, Idle, Device
  <2>2. pending' \in {pending, None} /\ UNCHANGED shot
    BY <1>8, <1>11, Zenon DEF PublishSession
  <2>3. device'[c] = "none"
    BY <1>3, <1>4, <1>11, <2>1, Zenon DEF PublishSession
  <2>4. UNCHANGED request \/ request'.tag = handler.command
    <3>1. UNCHANGED request \/ \E s : request' = Repeating(s, handler.command)
      BY <1>11, Zenon DEF PublishSession, SetRepeating
    <3> QED BY <3>1, RepeatingSets
  <2> QED BY <1>0, <2>1, <2>2, <2>3, <2>4, Zenon DEF Unused
<1>12. CASE TakeControl \/ CaptureCompleted \/ AcknowledgementTimeout \/ Overtaken
  BY <1>0, <1>2, <1>12, Zenon
  DEF TakeControl, CaptureCompleted, AcknowledgementTimeout, Overtaken,
      CaptureOvertaken
<1>13. CASE Apply
  <2>1. handler.command # c /\ UNCHANGED <<device, shot>>
    BY <1>13, Zenon DEF Apply
  <2>2. pending' \in {pending, handler.command}
    BY <1>13, Zenon DEF Apply, ApplyCurrent, Refuse
  <2>3. UNCHANGED request \/ request'.tag \in {None, handler.command}
    <3>1. \/ UNCHANGED request
          \/ \E s : request' = Repeating(s, handler.command)
          \/ \E s : request' = Repeating(s, None)
      BY <1>13, Zenon
      DEF Apply, ApplyCurrent, RebuildConfirmedRequest, SetRepeating
    <3> QED BY <3>1, RepeatingSets
  <2> QED BY <1>0, <2>1, <2>2, <2>3, Zenon DEF Unused
<1>14. CASE SwitchCamera
  <2>1. handler.command # c /\ handler.command \in Device
    BY <1>0, <1>14 DEF SwitchCamera, Idle, Device
  <2>2. pending' \in {pending, handler.command}
    BY <1>14, Zenon DEF SwitchCamera, Refuse
  <2>3. UNCHANGED <<request, shot>> \/ (request' = None /\ shot' = None)
    BY <1>14, Zenon DEF SwitchCamera
  <2>4. device'[c] = "none"
    <3>1. camera # c
      BY <1>0 DEF CInv, Named
    <3>2. CASE UNCHANGED device
      BY <1>0, <3>2
    <3>3. CASE device' = ClosedCameras({camera})
      BY <1>0, <3>1, <3>3 DEF ClosedCameras
    <3>4. CASE device' = [ClosedCameras({camera}) EXCEPT
                            ![handler.command] = "opening"]
      BY <1>0, <2>1, <3>1, <3>4 DEF ClosedCameras
    <3> QED BY <1>14, <3>2, <3>3, <3>4, Zenon DEF SwitchCamera
  <2> QED BY <1>0, <2>1, <2>2, <2>3, <2>4, Zenon DEF Unused
<1>15. CASE TakeUpRequest
  <2>1. shot'.tag = request.tag /\ UNCHANGED <<pending, request, device>>
    BY <1>15, TakeUpSays, Zenon DEF TakeUpRequest, CInv
  <2>2. request # None
    BY <1>15, Zenon DEF TakeUpRequest
  <2> QED BY <2>1, <2>2, Zenon DEF Unused
<1>16. CASE ServiceStep
  BY <1>0, <1>1, <1>16, Zenon DEF ServiceStep, CameraControl, CameraState
<1> QED
  BY <1>5, <1>6, <1>7, <1>9, <1>10, <1>11, <1>12, <1>13, <1>14, <1>15, <1>16,
     QuietSteps, Zenon
  DEF Next, LooperStep, Overtaken

\* A failure is reported, with what is applied: of a control that was asked for,
\* or of none.
Refuses ==
  /\ active /\ applied # None
  /\ \E id \in CameraId, c \in Command \cup {None} :
       /\ c # None => op[c] # "none"
       /\ reports' = Append(reports, Published(id, c, TRUE))
       /\ Published(id, c, TRUE) \in ReportType

\* publishState does so, or nothing.
LEMMA StateRefuses ==
  ASSUME Data, NEW id \in CameraId, NEW c \in Command \cup {None},
         c # None => op[c] # "none", PublishStateOf(id, c, TRUE)
  PROVE  UNCHANGED reports \/ Refuses
<1>1. CASE active /\ applied # None
  <2>1. reports' = Append(reports, Published(id, c, TRUE))
    BY <1>1, Zenon DEF PublishStateOf
  <2>2. Published(id, c, TRUE) \in ReportType
    BY <1>1, PublishedTyped, Zenon DEF Data
  <2> QED BY <1>1, <2>1, <2>2, Zenon DEF Refuses
<1>2. CASE ~(active /\ applied # None)
  BY <1>2, Zenon DEF PublishStateOf
<1> QED BY <1>1, <1>2

\* Only a result is reported otherwise, and only the service reads.
LEMMA Reporting ==
  ASSUME CInv, UsedOnce, Next
  PROVE  \/ CameraState
         \/ CaptureCompleted
         \/ UNCHANGED known /\ (UNCHANGED reports \/ Refuses)
<1> USE DEF life, wire, threads, held, looper, service
<1>0. /\ None \notin Command /\ Data /\ pending \in Command \cup {None}
      /\ ~Idle => handler.command \in Command /\ op[handler.command] # "none"
      /\ pending # None => op[pending] # "none"
  <2>1. /\ ~Idle => handler.command \in Command
        /\ pending \in Command \cup {None} /\ Data
    BY DEF CInv, IInv, Types
  <2>2. ~Idle => op[handler.command] # "none"
    BY <2>1, Zenon DEF CInv, Named
  <2>3. pending # None => op[pending] # "none"
    BY <2>1, Zenon DEF UsedOnce, Unused
  <2> QED BY <2>1, <2>2, <2>3, Nones
<1>1. selected \in CameraId
  BY <1>0 DEF Data
<1>2. ASSUME NEW id \in CameraId, NEW c, FailCameraCommand(id, c)
      PROVE  UNCHANGED reports \/ Refuses
  <2>1. \/ UNCHANGED reports
        \/ PublishStateOf(id, None, TRUE)
        \/ pending = c /\ PublishStateOf(id, c, TRUE)
    BY <1>2, Zenon DEF FailCameraCommand
  <2>2. CASE pending = c /\ PublishStateOf(id, pending, TRUE)
    BY <1>0, <1>2, <2>2, StateRefuses
  <2>3. CASE PublishStateOf(id, None, TRUE)
    BY <1>0, <1>2, <2>3, StateRefuses
  <2> QED BY <2>1, <2>2, <2>3
<1>3. CASE Quiet
  BY <1>3 DEF Quiet
<1>4. CASE StartRepeating \/ TakeUpRequest
  BY <1>4, Zenon DEF StartRepeating, TakeUpRequest
<1>5. ASSUME NEW c \in Command, SwitchOpened(c) \/ SwitchConfigured(c)
      PROVE  UNCHANGED <<known, reports>>
  BY <1>5, Zenon DEF SwitchOpened, SwitchConfigured
<1>6. ASSUME NEW c \in Command, SwitchFails(c)
      PROVE  UNCHANGED known /\ (UNCHANGED reports \/ Refuses)
  BY <1>1, <1>2, <1>6, Zenon DEF SwitchFails
<1>7. CASE PublishCamera
  BY <1>1, <1>2, <1>7, Zenon DEF PublishCamera
<1>8. CASE PublishSession
  <2>1. handler.command \in Command /\ asked[handler.command].cameraId \in CameraId
    BY <1>0, <1>8 DEF PublishSession, Idle, CInv, Named
  <2>2. selected' \in CameraId
    BY <1>1, <1>8, <2>1, Zenon DEF PublishSession
  <2> QED BY <1>2, <1>8, <2>2, Zenon DEF PublishSession
<1>9. CASE Overtaken
  BY <1>9, Zenon DEF Overtaken, CaptureOvertaken
<1>10. CASE TakeControl
  <2>1. Head(commands) \in Command /\ Queued(Head(commands))
    BY <1>10, SMT DEF TakeControl, CInv, IInv, Types, Queued
  <2>2. op[Head(commands)] # "none"
    BY <2>1, Zenon DEF CInv, Named
  <2>3. UNCHANGED reports \/ PublishState(Head(commands), TRUE)
    BY <1>10, Zenon DEF TakeControl
  <2>4. UNCHANGED reports \/ Refuses
    BY <1>0, <1>1, <2>1, <2>2, <2>3, StateRefuses DEF PublishState
  <2> QED BY <1>10, <2>4, Zenon DEF TakeControl
<1>11. CASE Apply \/ SwitchCamera
  <2>1. /\ UNCHANGED known /\ ~Idle
        /\ UNCHANGED reports \/ PublishState(handler.command, TRUE)
    <3>1. handler.at = "apply"
      BY <1>11 DEF Apply, SwitchCamera
    <3> QED
      BY <1>11, <3>1, Zenon DEF Apply, ApplyCurrent, SwitchCamera, Refuse, Idle
  <2> QED BY <1>0, <1>1, <2>1, StateRefuses DEF PublishState
<1>12. CASE AcknowledgementTimeout
  <2>1. PublishState(pending, TRUE) /\ UNCHANGED known
    BY <1>12, Zenon DEF AcknowledgementTimeout
  <2> QED BY <1>0, <1>1, <2>1, StateRefuses DEF PublishState
<1>13. ASSUME NEW c \in Command, NEW controls \in Requests,
              CameraControl(c, controls)
       PROVE  UNCHANGED <<known, reports>>
  BY <1>13, Zenon DEF CameraControl
<1> QED
  BY <1>3, <1>4, <1>5, <1>6, <1>7, <1>8, <1>9, <1>10, <1>11, <1>12, <1>13,
     QuietSteps, Zenon
  DEF Next, LooperStep, ServiceStep, Overtaken

\* A result of which nothing is said, because the capture ends.
LEMMA OvertakenEnds ==
  ASSUME CInv, Overtaken
  PROVE  /\ Now \in AppliedType /\ applied' = Now /\ shot \in ShotType
         /\ UNCHANGED <<known, op, asked, commands, reports, handler, device,
                        selected, builder, dimmed, request, shot>>
         /\ active /\ ~active' /\ Idle /\ shot # None /\ statePublished' = TRUE
         /\ pending' \in {pending, None}
         /\ at'["run"] \in Before => at["run"] \in Before
<1> USE DEF life, wire, threads, held, looper, service
<1>1. PICK t \in Thread : CaptureOvertaken(t)
  BY DEF Overtaken
<1>2. /\ applied' = Now /\ active /\ ~active' /\ Idle /\ shot # None
      /\ statePublished' = TRUE /\ pending' \in {pending, None}
      /\ UNCHANGED <<known, op, asked, commands, reports, handler, device,
                     selected, builder, dimmed, request, shot>>
      /\ at' = [at EXCEPT ![t] = "gate"]
  BY <1>1, Zenon DEF CaptureOvertaken, Completes, EndsCapture, Goto, Running
<1>3. selected \in CameraId /\ shot \in ShotType /\ dimmed \in BOOLEAN
  BY <1>2 DEF CInv, Data
<1>4. at'["run"] \in Before => at["run"] \in Before
  BY <1>1, <1>2 DEF CInv, IInv, Types, Thread, Before
<1> QED BY <1>2, <1>3, <1>4, NowTyped

\* What a result of the camera reports.
LEMMA Completing ==
  ASSUME CInv, CaptureCompleted
  PROVE  /\ Now \in AppliedType /\ applied' = Now /\ shot \in ShotType
         /\ UNCHANGED <<known, op, asked, commands, handler, device, at, selected,
                        builder, dimmed, request, shot>>
         /\ active /\ Idle /\ shot # None /\ statePublished' = TRUE
         /\ \/ /\ pending # None /\ shot.tag = pending /\ pending' = None
               /\ \E error \in BOOLEAN :
                    /\ error = AppliedControlError(asked[pending], Now)
                    /\ reports' = Append(reports, Reported(pending, error))
                    /\ Reported(pending, error) \in ReportType
                    /\ active' = ~error
            \/ /\ ~(pending # None /\ shot.tag = pending)
               /\ UNCHANGED <<active, pending>>
               /\ \/ statePublished /\ UNCHANGED reports
                  \/ /\ ~statePublished
                     /\ reports' = Append(reports, Reported(None, FALSE))
                     /\ Reported(None, FALSE) \in ReportType
<1> USE DEF life, wire, threads, held, looper, service
<1>1. /\ applied' = Now /\ active /\ Idle /\ shot # None /\ statePublished' = TRUE
      /\ UNCHANGED <<known, op, asked, commands, handler, device, at, selected,
                     builder, dimmed, request, shot>>
  BY Zenon DEF CaptureCompleted, Completes, Running
<1>2. /\ selected \in CameraId /\ shot \in ShotType /\ dimmed \in BOOLEAN
      /\ pending \in Command \cup {None} /\ statePublished \in BOOLEAN
  BY <1>1 DEF CInv, Data, IInv, Types, Flags
<1>3. Now \in AppliedType
  BY <1>2, NowTyped
<1>4. CASE IsAcknowledgement
  <2> DEFINE error == AppliedControlError(asked[pending], Now)
  <2>1. error \in BOOLEAN
    BY DEF AppliedControlError
  <2>2. /\ reports' = Append(reports, Reported(pending, error))
        /\ active' = ~error /\ pending' = None
    BY <1>4, Zenon DEF CaptureCompleted
  <2>3. Reported(pending, error) \in ReportType
    BY <1>2, <1>3, <2>1, ReportedTyped
  <2> HIDE DEF error
  <2>4. pending # None /\ shot.tag = pending
    BY <1>4 DEF IsAcknowledgement
  <2> QED
    BY <1>1, <1>2, <1>3, <2>1, <2>2, <2>3, <2>4, Zenon DEF error
<1>5. CASE ~IsAcknowledgement
  <2>1. /\ UNCHANGED <<active, pending>>
        /\ reports' = IF statePublished THEN reports
                      ELSE Append(reports, Reported(None, FALSE))
    BY <1>5, Zenon DEF CaptureCompleted
  <2>2. Reported(None, FALSE) \in ReportType
    BY <1>2, <1>3, ReportedTyped
  <2>3. ~(pending # None /\ shot.tag = pending)
    BY <1>5 DEF IsAcknowledgement
  <2> QED BY <1>1, <1>2, <1>3, <2>1, <2>2, <2>3, Zenon
<1> QED BY <1>4, <1>5

\* What is reported now and was not before was asked for.
LEMMA ReportedWasAsked ==
  ASSUME CInv, UsedOnce, Next, NEW c \in Command, op[c] = "none",
         ReportedFor(c)'
  PROVE  ReportedFor(c)
<1>0. reports \in Seq(ReportType) /\ None \notin Command
  BY Nones DEF CInv, Data
<1>1. ASSUME NEW r \in ReportType, r.command # c, reports' = Append(reports, r)
      PROVE  ReportedFor(c)
  <2>1. PICK i \in DOMAIN reports' : reports'[i].command = c
    BY Zenon DEF ReportedFor
  <2>2. /\ DOMAIN reports' = 1 .. Len(reports) + 1
        /\ DOMAIN reports = 1 .. Len(reports) /\ Len(reports) \in Nat
        /\ \A j \in DOMAIN reports : reports'[j] = reports[j]
        /\ reports'[Len(reports) + 1] = r
    BY <1>0, <1>1, LastIsAppended
  <2>3. i # Len(reports) + 1
    BY <1>1, <2>1, <2>2
  <2>4. i \in DOMAIN reports
    BY <2>1, <2>2, <2>3, SMT
  <2> QED BY <2>1, <2>2, <2>4, Zenon DEF ReportedFor
<1>2. CASE UNCHANGED reports
  BY <1>2 DEF ReportedFor
<1>3. CASE Refuses
  <2>1. PICK id \in CameraId, d \in Command \cup {None} :
          /\ d # None => op[d] # "none"
          /\ reports' = Append(reports, Published(id, d, TRUE))
          /\ Published(id, d, TRUE) \in ReportType
    BY <1>3, Zenon DEF Refuses
  <2>2. Published(id, d, TRUE).command = d /\ d # c
    BY <1>0, <2>1 DEF Published
  <2> QED BY <1>1, <2>1, <2>2
<1>4. CASE CaptureCompleted
  <2>1. pending # c
    BY Zenon DEF UsedOnce, Unused
  <2>2. \A d, e : Reported(d, e).command = d
    BY DEF Reported, Published
  <2>3. \/ UNCHANGED reports
        \/ \E d \in {pending, None}, e \in BOOLEAN :
             /\ reports' = Append(reports, Reported(d, e))
             /\ Reported(d, e) \in ReportType
    <3>1. \/ \E e \in BOOLEAN :
               /\ reports' = Append(reports, Reported(pending, e))
               /\ Reported(pending, e) \in ReportType
          \/ UNCHANGED reports
          \/ /\ reports' = Append(reports, Reported(None, FALSE))
             /\ Reported(None, FALSE) \in ReportType
      BY <1>4, Completing, Zenon
    <3> QED BY <3>1, Zenon
  <2>4. ASSUME NEW d \in {pending, None}, NEW e \in BOOLEAN,
               reports' = Append(reports, Reported(d, e)),
               Reported(d, e) \in ReportType
        PROVE  ReportedFor(c)
    <3>1. Reported(d, e).command # c
      BY <1>0, <2>1, <2>2
    <3> QED BY <1>1, <2>4, <3>1
  <2> QED BY <1>2, <2>3, <2>4
<1>5. CASE CameraState
  <2>1. PICK i \in DOMAIN reports' : reports'[i].command = c
    BY Zenon DEF ReportedFor
  <2>2. i + 1 \in DOMAIN reports /\ reports'[i] = reports[i + 1]
    BY <1>0, <1>5, <2>1, LastIsRead
  <2> QED BY <2>1, <2>2, Zenon DEF ReportedFor
<1> QED BY <1>2, <1>3, <1>4, <1>5, Reporting

\* Commands are used once.
LEMMA UsedOnceKept == CInv /\ UsedOnce /\ Next => UsedOnce'
<1> SUFFICES ASSUME CInv, UsedOnce, Next PROVE UsedOnce'
  OBVIOUS
<1> USE DEF life, wire, threads, held, looper, service
<1>0. /\ commands \in Seq(Command) /\ op \in [Command -> OpState]
      /\ ~Idle => handler.command \in Command
      /\ \A c \in Command :
           Queued(c) \/ (~Idle /\ handler.command = c) => op[c] # "none"
  BY DEF CInv, IInv, Types, Data, Named
<1>1. \A c \in Command : op'[c] = "none" => op[c] = "none"
  <2>1. UNCHANGED op \/ ServiceStep
    <3>1. Quiet => UNCHANGED op
      BY DEF Quiet
    <3> QED
      BY <3>1, QuietSteps, Zenon
      DEF Next, LooperStep, StartRepeating, SwitchOpened, SwitchConfigured,
          SwitchFails, PublishCamera, PublishSession, TakeControl, Apply,
          SwitchCamera, AcknowledgementTimeout, CaptureCompleted,
          CaptureOvertaken, TakeUpRequest
  <2>2. CASE ServiceStep
    BY <1>0, <2>2, SMT DEF ServiceStep, CameraControl, CameraState
  <2> QED BY <2>1, <2>2
<1>2. \A c \in Command : op[c] = "none" => ~ReportedFor(c)'
  BY ReportedWasAsked, Zenon DEF UsedOnce
<1>3. \A c \in Command :
        Unused(c) => Unused(c)' \/ ((Apply \/ SwitchCamera) /\ handler.command = c)
  BY UnusedStays
<1>4. PublishCamera \/ PublishSession \/ Apply \/ SwitchCamera
        => handler'.at # "apply"
  <2>1. PublishCamera \/ PublishSession \/ Apply \/ SwitchCamera => Rest
    BY Zenon DEF PublishCamera, PublishSession, Apply, SwitchCamera
  <2> QED BY <2>1 DEF Rest
<1>5. (handler'.at = "apply" => ~Queued(handler.command)')
        <=> (handler'.at = "apply" => \A c : Queued(c)' => c # handler'.command)
  BY Zenon DEF Queued
<1>6. ASSUME UNCHANGED commands, handler'.at = "apply" => UNCHANGED handler,
             (Apply \/ SwitchCamera) => handler'.at # "apply"
      PROVE  UsedOnce'
  <2>1. \A c \in Command : Queued(c)' <=> Queued(c)
    BY <1>6 DEF Queued
  <2>2. Apply \/ SwitchCamera => handler.at = "apply" /\ ~Idle
    BY DEF Apply, SwitchCamera, Idle
  <2>3. /\ \A i, j \in DOMAIN commands' : commands'[i] = commands'[j] => i = j
        /\ handler'.at = "apply" => ~Queued(handler.command)'
    BY <1>6, Zenon DEF UsedOnce, Queued
  <2>4. ASSUME NEW c \in Command
        PROVE  /\ op'[c] = "none" => Unused(c)' /\ ~ReportedFor(c)'
               /\ Queued(c)' \/ (handler'.at = "apply" /\ handler'.command = c)
                    => Unused(c)'
    <3>1. op'[c] = "none" => Unused(c)' /\ ~ReportedFor(c)'
      BY <1>0, <1>1, <1>2, <1>3, <2>2, Zenon DEF UsedOnce
    <3>2. Queued(c)' => Unused(c)'
      BY <1>3, <2>1, <2>2, Zenon DEF UsedOnce
    <3>3. handler'.at = "apply" /\ handler'.command = c => Unused(c)'
      BY <1>3, <1>6, Zenon DEF UsedOnce
    <3> QED BY <3>1, <3>2, <3>3
  <2> QED BY <2>3, <2>4, Zenon DEF UsedOnce
<1>7. CASE Quiet
  <2>1. Apply \/ SwitchCamera => handler'.at # "apply"
    BY <1>4
  <2> QED BY <1>6, <1>7, <2>1, Zenon DEF Quiet
<1>8. CASE StartRepeating \/ TakeUpRequest \/ CaptureCompleted
             \/ AcknowledgementTimeout \/ CameraState \/ Overtaken
             \/ \E c \in Command : SwitchFails(c)
  <2>1. Apply \/ SwitchCamera => handler'.at # "apply"
    BY <1>4
  <2>2. UNCHANGED <<handler, commands>>
    BY <1>8, Zenon
    DEF StartRepeating, TakeUpRequest, CaptureCompleted, CameraState,
        AcknowledgementTimeout, SwitchFails, Overtaken, CaptureOvertaken
  <2> QED BY <1>6, <2>1, <2>2, Zenon
<1>9. CASE PublishCamera \/ PublishSession \/ Apply \/ SwitchCamera
  <2>1. handler'.at # "apply"
    BY <1>4, <1>9
  <2>2. UNCHANGED commands
    BY <1>9, Zenon DEF PublishCamera, PublishSession, Apply, SwitchCamera
  <2> QED BY <1>6, <2>1, <2>2, Zenon
<1>10. ASSUME NEW c \in Command, SwitchOpened(c) \/ SwitchConfigured(c)
      PROVE  UsedOnce'
  <2>1. handler' = handler \/ handler'.at # "apply"
    <3>1. \/ handler' = handler
          \/ handler' = [at |-> "publishCamera", command |-> c]
          \/ handler' = [at |-> "publishSession", command |-> c]
      BY <1>10, Zenon DEF SwitchOpened, SwitchConfigured
    <3> QED BY <3>1
  <2>2. UNCHANGED commands
    BY <1>10, Zenon DEF SwitchOpened, SwitchConfigured
  <2>3. handler.at # "apply"
    BY <1>10 DEF SwitchOpened, SwitchConfigured, Running, Idle
  <2>4. ~(Apply \/ SwitchCamera)
    BY <2>3 DEF Apply, SwitchCamera
  <2> QED BY <1>6, <2>1, <2>2, <2>4
<1>11. CASE TakeControl
  <2> DEFINE command == Head(commands)
  <2>1. /\ Queued(command) /\ command \in Command
        /\ \A i, j \in DOMAIN commands' : commands'[i] = commands'[j] => i = j
        /\ \A c : Queued(c)' => Queued(c) /\ c # command
    <3>1. commands # <<>> /\ commands' = Tail(commands)
      BY <1>11, Zenon DEF TakeControl
    <3>2. /\ 1 \in DOMAIN commands /\ command = commands[1]
          /\ \A i \in DOMAIN commands' :
               /\ i \in Nat \ {0} /\ i + 1 \in DOMAIN commands
               /\ commands'[i] = commands[i + 1]
      BY <1>0, <3>1, SMT
    <3>3. Queued(command) /\ command \in Command
      BY <1>0, <3>1, <3>2, HeadTail DEF Queued
    <3>4. ASSUME NEW i \in DOMAIN commands', NEW j \in DOMAIN commands',
                 commands'[i] = commands'[j]
          PROVE  i = j
      <4>1. i + 1 = j + 1
        BY <3>2, <3>4 DEF UsedOnce
      <4> QED BY <3>2, <4>1
    <3>5. ASSUME NEW c, Queued(c)' PROVE Queued(c) /\ c # command
      <4>1. PICK i \in DOMAIN commands' : commands'[i] = c
        BY <3>5, Zenon DEF Queued
      <4>2. i + 1 \in DOMAIN commands /\ commands[i + 1] = c /\ i + 1 # 1
        BY <3>2, <4>1
      <4>3. commands[1] # c
        BY <3>2, <4>2, Zenon DEF UsedOnce
      <4> QED BY <3>2, <4>2, <4>3, Zenon DEF Queued
    <3> QED BY <3>3, <3>4, <3>5
  <2>2. \/ handler' = handler
        \/ handler' = [at |-> "apply", command |-> command]
    BY <1>11, Zenon DEF TakeControl
  <2>3. Idle /\ ~(Apply \/ SwitchCamera)
    BY <1>11 DEF TakeControl, Running, Idle, Apply, SwitchCamera
  <2>4. handler'.at = "apply" => handler'.command = command
    BY <2>2, <2>3 DEF Idle
  <2>5. handler'.at = "apply" => ~Queued(handler.command)'
    <3>1. handler'.at = "apply" => \A c : Queued(c)' => c # handler'.command
      BY <2>1, <2>4, Zenon
    <3> QED BY <1>5, <3>1
  <2>6. ASSUME NEW c \in Command
        PROVE  /\ op'[c] = "none" => Unused(c)' /\ ~ReportedFor(c)'
               /\ Queued(c)' \/ (handler'.at = "apply" /\ handler'.command = c)
                    => Unused(c)'
    BY <1>1, <1>2, <1>3, <2>1, <2>3, <2>4, Zenon DEF UsedOnce
  <2> QED BY <2>1, <2>5, <2>6, Zenon DEF UsedOnce
<1>12. ASSUME NEW c \in Command, NEW controls \in Requests,
              CameraControl(c, controls)
       PROVE  UsedOnce'
  <2>1. /\ op[c] = "none" /\ commands' = Append(commands, c)
        /\ UNCHANGED <<handler, device>> /\ ~Queued(c)
    BY <1>0, <1>12, Zenon DEF CameraControl
  <2>2. /\ DOMAIN commands' = 1 .. Len(commands) + 1
        /\ DOMAIN commands = 1 .. Len(commands) /\ Len(commands) \in Nat
        /\ \A i \in DOMAIN commands : commands'[i] = commands[i]
        /\ commands'[Len(commands) + 1] = c
    BY <1>0, <2>1, SMT
  <2>3. ASSUME NEW i \in DOMAIN commands', NEW j \in DOMAIN commands',
               commands'[i] = commands'[j]
        PROVE  i = j
    <3>1. \A k \in DOMAIN commands' :
            k \in DOMAIN commands \/ k = Len(commands) + 1
      BY <2>2, SMT
    <3>2. \A k \in DOMAIN commands : commands'[k] # c
      BY <2>1, <2>2, Zenon DEF Queued
    <3> QED BY <2>2, <2>3, <3>1, <3>2, Zenon DEF UsedOnce
  <2>4. ASSUME NEW d, Queued(d)' PROVE Queued(d) \/ d = c
    <3>1. PICK k \in DOMAIN commands' : commands'[k] = d
      BY <2>4, Zenon DEF Queued
    <3>2. k \in DOMAIN commands \/ k = Len(commands) + 1
      BY <2>2, SMT
    <3> QED BY <2>2, <3>1, <3>2, Zenon DEF Queued
  <2>5. handler'.at = "apply" => ~Queued(handler.command)'
    <3>1. handler.at = "apply" => handler.command # c
      BY <1>0, <2>1 DEF Idle
    <3>2. handler'.at = "apply" => \A d : Queued(d)' => d # handler'.command
      BY <2>1, <2>4, <3>1, Zenon DEF UsedOnce
    <3> QED BY <1>5, <3>2
  <2>6. \A d \in Command : Unused(d) => Unused(d)'
    BY <1>12, Zenon DEF CameraControl, Unused
  <2>7. ASSUME NEW d \in Command
        PROVE  /\ op'[d] = "none" => Unused(d)' /\ ~ReportedFor(d)'
               /\ Queued(d)' \/ (handler'.at = "apply" /\ handler'.command = d)
                    => Unused(d)'
    BY <1>1, <1>2, <2>1, <2>4, <2>6, Zenon DEF UsedOnce
  <2> QED BY <2>3, <2>5, <2>7, Zenon DEF UsedOnce
<1> QED
  BY <1>7, <1>8, <1>9, <1>10, <1>11, <1>12, QuietSteps, Zenon
  DEF Next, LooperStep, ServiceStep, Overtaken

\* Before the first result only the camera of the start does anything.
LEMMA BeginningSteps ==
  ASSUME CInv, Next, applied = None
  PROVE  \/ Quiet \/ StartRepeating \/ TakeUpRequest
         \/ CaptureCompleted \/ Overtaken
<1>1. /\ known = None /\ reports = <<>> /\ commands = <<>>
      /\ Idle /\ pending = None
      /\ \A c \in Command : device[c] = "none"
  BY DEF CInv, AppliedFirst
<1>2. ~\E c \in Command : SwitchOpened(c) \/ SwitchConfigured(c) \/ SwitchFails(c)
  BY <1>1 DEF SwitchOpened, SwitchConfigured, SwitchFails
<1>3. ~(PublishCamera \/ PublishSession \/ Apply \/ SwitchCamera)
  BY <1>1 DEF PublishCamera, PublishSession, Apply, SwitchCamera, Idle
<1>4. ~(TakeControl \/ AcknowledgementTimeout \/ ServiceStep)
  BY <1>1, Zenon
  DEF TakeControl, AcknowledgementTimeout, ServiceStep, CameraControl,
      CameraState
<1> QED
  BY <1>2, <1>3, <1>4, QuietSteps, Zenon DEF Next, LooperStep, Overtaken

\* What is applied stays so until there is another result.
LEMMA AppliedStays ==
  ASSUME CInv, Next, ~CaptureCompleted, ~Overtaken
  PROVE  /\ UNCHANGED <<applied, statePublished>>
         /\ at'["run"] \in Before => at["run"] \in Before
<1> USE DEF life, wire, threads, held, looper, service
<1>1. Quiet => UNCHANGED <<applied, statePublished>>
  BY DEF Quiet
<1>2. UNCHANGED <<applied, statePublished>>
  BY <1>1, QuietSteps, Zenon
  DEF Next, LooperStep, Overtaken, StartRepeating, SwitchOpened, SwitchConfigured,
      SwitchFails, PublishCamera, PublishSession, TakeControl, Apply,
      SwitchCamera, AcknowledgementTimeout, TakeUpRequest, ServiceStep,
      CameraControl, CameraState
<1>3. CASE StartRepeating
  <2>1. at'["run"] = "drain"
    BY <1>3 DEF StartRepeating, Goto, CInv, IInv, Types, Thread
  <2> QED BY <1>2, <2>1 DEF Before
<1>4. UNCHANGED at \/ StartRepeating \/ Quiet
  BY QuietSteps, Zenon
  DEF Next, LooperStep, Overtaken, SwitchOpened, SwitchConfigured, SwitchFails,
      PublishCamera, PublishSession, TakeControl, Apply, SwitchCamera,
      AcknowledgementTimeout, TakeUpRequest, ServiceStep, CameraControl,
      CameraState
<1>5. Quiet => (at'["run"] \in Before => at["run"] \in Before)
  BY DEF Quiet
<1>6. CASE UNCHANGED at
  BY <1>2, <1>6
<1> QED BY <1>2, <1>3, <1>4, <1>5, <1>6

\* What Beginning says is kept.
LEMMA BeginningKept == CInv /\ SInv /\ Next => Beginning'
<1> SUFFICES ASSUME CInv, SInv, Next PROVE Beginning'
  OBVIOUS
<1>1. CASE Quiet
  BY <1>1, QuietKept DEF SInv
<1>2. Beginning /\ None \notin AppliedType /\ None \notin ShotType
  BY Nones DEF SInv
<1>3. CASE CaptureCompleted
  <2>1. applied' # None /\ statePublished' = TRUE
    BY <1>2, <1>3, Completing
  <2>2. at'["run"] \notin Before
    BY <1>2, <1>3, Completing DEF Beginning
  <2> QED BY <2>1, <2>2, Zenon DEF Beginning
<1>4. CASE Overtaken
  <2>1. applied' # None /\ statePublished' = TRUE
    BY <1>2, <1>4, OvertakenEnds
  <2>2. at'["run"] \notin Before
    BY <1>2, <1>4, OvertakenEnds DEF Beginning
  <2> QED BY <2>1, <2>2, Zenon DEF Beginning
<1>5. CASE applied # None /\ ~CaptureCompleted /\ ~Overtaken
  <2>1. applied' # None /\ statePublished' = (applied' # None)
    BY <1>2, <1>5, AppliedStays DEF Beginning
  <2>2. at'["run"] \notin Before
    BY <1>2, <1>5, AppliedStays DEF Beginning
  <2> QED BY <2>1, <2>2, Zenon DEF Beginning
<1>6. CASE applied = None /\ StartRepeating
  <2>1. /\ at'["run"] = "drain" /\ at["run"] = "repeat"
        /\ builder' = Unset(selected) /\ request' = Repeating(builder', None)
        /\ UNCHANGED <<selected, applied, statePublished, dimmed, shot>>
    BY <1>6 DEF StartRepeating, Goto, CInv, IInv, Types, Thread, looper
  <2>2. at'["run"] \notin Before /\ shot' = None /\ applied' = None /\ ~dimmed'
        /\ statePublished' = (applied' # None)
    BY <1>2, <1>6, <2>1 DEF Before, Beginning
  <2>3. Repeating(builder', None) \in ShotType
    <3>1. Unset(selected) \in Settings
      BY UnsetTyped DEF CInv, Data
    <3> QED BY <2>1, <3>1, RepeatingTyped
  <2> QED BY <1>2, <2>1, <2>2, <2>3, Zenon DEF Beginning
<1>7. CASE applied = None /\ TakeUpRequest
  <2>1. /\ UNCHANGED <<at, builder, request, selected, applied, statePublished,
                       dimmed>>
        /\ request # None
    BY <1>7, Zenon DEF TakeUpRequest, threads
  <2>2. PICK zoom \in {request.zoom, IF shot = None THEN Thousand ELSE shot.zoom} :
          shot' = [request EXCEPT !.zoom = zoom]
    BY <1>7 DEF TakeUpRequest
  <2>3. request.zoom = Thousand /\ (shot # None => shot = request)
    <3>1. builder = Unset(selected) /\ request = Repeating(builder, None)
          /\ (shot # None => shot = request)
      BY <1>2, <1>7, <2>1 DEF Beginning
    <3> QED BY <3>1, SMT DEF Repeating, Unset
  <2>4. shot' = request
    <3>1. zoom = request.zoom
      BY <2>2, <2>3
    <3>2. request \in ShotType
      BY <2>1 DEF CInv, Data
    <3> QED BY <2>2, <3>1, <3>2, SMT DEF ShotType
  <2>5. at["run"] \notin Before
    BY <1>2, <2>1 DEF Beginning
  <2> QED BY <1>2, <1>7, <2>1, <2>4, <2>5, Zenon DEF Beginning
<1> QED BY <1>1, <1>3, <1>4, <1>5, <1>6, <1>7, BeginningSteps

\* Whatever was asked for is a control.
LEMMA AskedTyped ==
  ASSUME Data, NEW c \in Command
  PROVE  asked[c] \in ControlsType
BY DataOK, NothingTyped, SMT DEF Data, DataOK

\* Settings are within the ranges of a camera if the same settings are.
LEMMA WithinAs ==
  ASSUME NEW id, NEW s, NEW t, Within(id, s),
         t.zoom = s.zoom, \A level \in Levels : t[level] = s[level]
  PROVE  Within(id, t)
<1>1. t.exposure = s.exposure /\ t.torch = s.torch
  BY DEF Levels
<1> QED BY <1>1 DEF Within

\* What a control sees when it is applied: nothing else is under way.
LEMMA ApplyFinds ==
  ASSUME CInv, SInv, handler.at = "apply"
  PROVE  /\ handler.command \in Command /\ Unused(handler.command)
         /\ asked[handler.command] \in ControlsType
         /\ op[handler.command] # "none" /\ ~Queued(handler.command)
         /\ applied \in AppliedType /\ applied # None
         /\ active => pending = None /\ ~Switching /\ Agree
<1>1. handler.command \in Command /\ applied # None /\ Data
  BY DEF CInv, IInv, Types, AppliedFirst, Idle
<1>2. asked[handler.command] \in ControlsType
  BY <1>1, AskedTyped
<1>3. /\ Unused(handler.command) /\ ~Queued(handler.command)
      /\ op[handler.command] # "none"
  BY <1>1, Zenon DEF SInv, UsedOnce, CInv, Named, Idle
<1>4. applied \in AppliedType
  BY <1>1 DEF Data
<1>5. ASSUME active PROVE pending = None /\ ~Switching /\ Agree
  <2>1. pending = None
    BY <1>5 DEF CInv, Followed
  <2>2. ~Switching
    BY <2>1 DEF Switching
  <2> QED BY <1>1, <1>5, <2>1, <2>2 DEF SInv, Shown
<1> QED BY <1>1, <1>2, <1>3, <1>4, <1>5

\* What a control that has opened its camera finds.
LEMMA PublishFinds ==
  ASSUME CInv, SInv, handler.at \in {"publishCamera", "publishSession"}
  PROVE  /\ handler.command \in Command /\ device[handler.command] # "none"
         /\ asked[handler.command] \in ControlsType
         /\ asked[handler.command].cameraId \in CameraId
         /\ active => pending = handler.command /\ Between /\ Switching
<1>1. handler.command \in Command /\ Data
  BY DEF CInv, IInv, Types, Idle
<1>2. asked[handler.command] \in ControlsType
  BY <1>1, AskedTyped
<1>3. device[handler.command] # "none" /\ asked[handler.command].cameraId \in CameraId
  BY <1>1 DEF CInv, Named
<1>4. ASSUME active PROVE pending = handler.command /\ Between /\ Switching
  <2>1. pending = handler.command /\ Between
    BY <1>1, <1>4, Zenon DEF SInv, SwitchShown, SwitchBegins, Awaited
  <2> QED BY <1>1, <1>3, <2>1, Nones DEF Switching
<1> QED BY <1>1, <1>2, <1>3, <1>4

\* What is said is a state of the camera, and what it is told it can do.
LEMMA SaidKept == CInv /\ SInv /\ Next => SaidIsSound'
<1> SUFFICES ASSUME CInv, SInv, Next PROVE SaidIsSound'
  OBVIOUS
<1> USE DEF life, wire, threads, held, looper, service
<1>1. /\ Data /\ None \notin AppliedType /\ selected \in CameraId
      /\ reports \in Seq(ReportType) /\ SaidIsSound /\ UsedOnce
  BY Nones DEF CInv, Data, SInv
<1>2. CASE Quiet
  BY <1>2, QuietKept DEF SInv
<1>3. CaptureCompleted => Sound(Now)
  <2> SUFFICES ASSUME CaptureCompleted PROVE Sound(Now)
    OBVIOUS
  <2>1. Within(selected, shot)
    BY <1>1, Completing DEF SaidIsSound
  <2>2. Within(selected, Now)
    BY <2>1, NowSays, WithinAs
  <2> QED BY <2>2, NowSays DEF Sound
<1>4. active' => active /\ ~Overtaken
  <2>1. Quiet => (active' => active)
    BY DEF Quiet
  <2>2. active' => ~Overtaken
    BY OvertakenEnds
  <2> QED
    BY <2>1, <2>2, QuietSteps, Zenon
    DEF Next, LooperStep, Overtaken, StartRepeating, SwitchOpened,
        SwitchConfigured, SwitchFails, PublishCamera, PublishSession,
        TakeControl, Apply, SwitchCamera, AcknowledgementTimeout,
        CaptureCompleted, Completes, TakeUpRequest, ServiceStep, CameraControl,
        CameraState, FailCameraCommand
<1>5. ASSUME active', applied' # None
      PROVE  Last'.applied \in AppliedType /\ Sound(Last'.applied)
  <2>0. active /\ ~Overtaken
    BY <1>4, <1>5
  <2>1. CASE CameraState
    <3>1. Last'.applied = Last.applied
      BY <1>1, <2>1, LastIsRead
    <3>2. UNCHANGED applied
      BY <2>1 DEF CameraState
    <3>3. Last.applied \in AppliedType /\ Sound(Last.applied)
      BY <1>1, <1>5, <2>0, <3>2 DEF SaidIsSound
    <3> QED BY <3>1, <3>3
  <2>2. ASSUME UNCHANGED <<applied, known, reports>>
        PROVE  Last'.applied \in AppliedType /\ Sound(Last'.applied)
    <3>1. Last' = Last
      BY <2>2 DEF Last
    <3> QED BY <1>1, <1>5, <2>0, <2>2, <3>1, Zenon DEF SaidIsSound
  <2>3. CASE CaptureCompleted
    <3>1. Now \in AppliedType /\ applied' = Now /\ UNCHANGED known
      BY <2>3, Completing
    <3>2. ASSUME NEW c, NEW e, Reported(c, e) \in ReportType,
                 reports' = Append(reports, Reported(c, e))
          PROVE  Last'.applied \in AppliedType /\ Sound(Last'.applied)
      <4>1. Last' = Reported(c, e)
        BY <1>1, <3>2, LastIsAppended
      <4>2. Reported(c, e).applied = Now
        BY DEF Reported, Published
      <4>3. Last'.applied = Now
        BY <4>1, <4>2
      <4> QED BY <1>3, <2>3, <3>1, <4>3
    <3>3. CASE UNCHANGED reports /\ statePublished
      <4>1. applied # None
        BY <3>3 DEF SInv, Beginning
      <4>2. Last' = Last
        BY <3>1, <3>3 DEF Last
      <4> QED BY <1>1, <2>0, <4>1, <4>2, Zenon DEF SaidIsSound
    <3>4. \/ UNCHANGED reports /\ statePublished
          \/ \E c, e : /\ Reported(c, e) \in ReportType
                       /\ reports' = Append(reports, Reported(c, e))
      BY <2>3, Completing, Zenon
    <3> QED BY <3>2, <3>3, <3>4, Zenon
  <2>4. CASE UNCHANGED known /\ Refuses /\ ~CaptureCompleted
    <3>1. PICK id \in CameraId, c \in Command \cup {None} :
            /\ reports' = Append(reports, Published(id, c, TRUE))
            /\ Published(id, c, TRUE) \in ReportType
      BY <2>4, Zenon DEF Refuses
    <3>2. Last' = Published(id, c, TRUE)
      BY <1>1, <3>1, LastIsAppended
    <3>3. Published(id, c, TRUE).applied = applied
      BY DEF Published
    <3>4. Last'.applied = applied
      BY <3>2, <3>3
    <3>5. applied \in AppliedType /\ Sound(applied)
      BY <1>1, <2>4 DEF Refuses, Data, SaidIsSound
    <3> QED BY <3>4, <3>5
  <2>5. CASE UNCHANGED <<known, reports>> /\ ~CaptureCompleted
    BY <2>0, <2>2, <2>5, AppliedStays
  <2> QED BY <1>1, <2>1, <2>3, <2>4, <2>5, Reporting
<1>6. ASSUME active', applied' # None PROVE Sound(applied')
  <2>1. CASE CaptureCompleted
    <3>1. applied' = Now
      BY <2>1, Completing
    <3> QED BY <1>3, <2>1, <3>1
  <2>2. CASE ~CaptureCompleted
    <3>1. UNCHANGED applied
      BY <1>4, <1>6, <2>2, AppliedStays
    <3> QED BY <1>1, <1>4, <1>6, <3>1, Zenon DEF SaidIsSound
  <2> QED BY <2>1, <2>2
<1> DEFINE Set == /\ builder' # None => Within(selected', builder')
                  /\ request' # None => Within(selected', request')
                  /\ shot' # None => Within(selected', shot')
<1>7. ASSUME active', ~Quiet PROVE Set
  <2>0. ASSUME active, UNCHANGED <<selected, builder, request, shot>> PROVE Set
    BY <1>1, <2>0, Zenon DEF SaidIsSound
  <2>1. CASE \/ TakeControl \/ CaptureCompleted \/ ServiceStep
             \/ \E c \in Command : SwitchOpened(c) \/ SwitchConfigured(c)
    <3>1. active /\ UNCHANGED <<selected, builder, request, shot>>
      BY <1>7, <2>1, Zenon
      DEF TakeControl, CaptureCompleted, Completes, ServiceStep, CameraControl,
          CameraState, SwitchOpened, SwitchConfigured
    <3> QED BY <2>0, <3>1
  <2>2. ~\E c \in Command : SwitchFails(c)
    BY <1>7, Zenon DEF SwitchFails, FailCameraCommand
  <2>3. ~AcknowledgementTimeout
    BY <1>7, Zenon DEF AcknowledgementTimeout
  <2>4. CASE StartRepeating
    <3>1. /\ builder' = Unset(selected) /\ request' = Repeating(builder', None)
          /\ UNCHANGED <<selected, shot>> /\ active
      BY <1>7, <2>4, Zenon DEF StartRepeating
    <3>2. Within(selected, builder')
      BY <1>1, <3>1, UnsetWithin
    <3>3. Within(selected, request')
      BY <3>1, <3>2, RepeatingSets, WithinAs
    <3> QED BY <1>1, <3>1, <3>2, <3>3, Zenon DEF SaidIsSound
  <2>5. CASE PublishCamera
    <3>1. active /\ UNCHANGED <<selected, builder, request, shot>>
      BY <1>7, <2>5, Zenon DEF PublishCamera, FailCameraCommand
    <3> QED BY <2>0, <3>1
  <2>6. CASE PublishSession
    <3> DEFINE command == handler.command
               target == asked[command].cameraId
               settings == Applying(asked[command], Unset(target))
    <3>1. /\ SettingsOK(asked[command], target) /\ selected' = target
          /\ builder' = settings /\ request' = Repeating(settings, command)
          /\ UNCHANGED shot /\ active
      BY <1>7, <2>6, Zenon DEF PublishSession, FailCameraCommand, SetRepeating
    <3>2. handler.at \in {"publishCamera", "publishSession"}
      BY <2>6 DEF PublishSession
    <3>3. target \in CameraId /\ asked[command] \in ControlsType /\ shot = None
      BY <3>1, <3>2, PublishFinds DEF Between
    <3>4. Within(target, settings)
      <4>1. Unset(target) \in Settings /\ Within(target, Unset(target))
        BY <3>3, UnsetTyped, UnsetWithin
      <4> QED BY <3>1, <3>3, <4>1, ApplyingWithin
    <3> HIDE DEF settings
    <3>5. Within(target, request')
      BY <3>1, <3>4, RepeatingSets, WithinAs
    <3> QED BY <3>1, <3>3, <3>4, <3>5, Zenon
  <2>7. CASE Apply
    <3> DEFINE command == handler.command
               controls == asked[command]
    <3>1. handler.at = "apply" /\ active /\ UNCHANGED <<selected, shot>>
      BY <1>7, <2>7, Zenon DEF Apply
    <3>2. /\ command \in Command /\ controls \in ControlsType
          /\ applied # None /\ Agree
      BY <3>1, ApplyFinds
    <3>3. CASE UNCHANGED <<builder, request>>
      BY <2>0, <3>1, <3>3
    <3>4. CASE /\ SettingsOK(controls, selected) /\ builder # None
               /\ builder' = Applying(controls, builder)
               /\ request' = Repeating(builder', command)
      <4>1. Within(selected, builder')
        BY <1>1, <3>1, <3>2, <3>4, ApplyingWithin DEF SaidIsSound, Data
      <4>2. Within(selected, request')
        BY <3>4, <4>1, RepeatingSets, WithinAs
      <4> QED BY <1>1, <3>1, <4>1, <4>2, Zenon DEF SaidIsSound
    <3>5. CASE builder # None /\ HalfDone /\ UNCHANGED request
      <4>1. \E part \in ControlsType :
              SettingsOK(part, selected) /\ builder' = Applying(part, builder)
        BY <3>2, <3>5, HalfDoneIs
      <4>2. Within(selected, builder')
        BY <1>1, <3>1, <3>5, <4>1, ApplyingWithin DEF SaidIsSound, Data
      <4> QED BY <1>1, <3>1, <3>5, <4>2, Zenon DEF SaidIsSound
    <3>6. CASE RebuildConfirmedRequest /\ ~(HalfDone /\ UNCHANGED request)
      <4> DEFINE confirmed ==
                   [zoom |-> applied.zoom, exposure |-> applied.exposure,
                    torch |-> applied.torch, fps |-> 30 * Thousand]
      <4>1. Within(selected, applied)
        BY <1>1, <3>1, <3>2 DEF SaidIsSound, Sound, Agree, CameraShown
      <4>2. Within(selected, confirmed)
        BY <4>1 DEF Within
      <4>3. Within(selected, Repeating(confirmed, None))
        BY <4>2, RepeatingSets, WithinAs
      <4>4. /\ builder' = builder \/ builder' = confirmed
            /\ request' = request \/ request' = Repeating(confirmed, None)
        BY <3>6, Zenon DEF RebuildConfirmedRequest, SetRepeating
      <4> HIDE DEF confirmed
      <4> QED BY <1>1, <3>1, <4>2, <4>3, <4>4, Zenon DEF SaidIsSound
    <3> QED
      BY <2>7, <3>3, <3>4, <3>5, <3>6, Zenon DEF Apply, ApplyCurrent, SetRepeating
  <2>8. CASE SwitchCamera
    <3>1. CASE UNCHANGED <<active, builder, request, shot>>
      BY <1>7, <2>0, <2>8, <3>1, Zenon DEF SwitchCamera
    <3>2. CASE builder' = None /\ request' = None /\ shot' = None
      BY <3>2
    <3> QED BY <2>8, <3>1, <3>2, Zenon DEF SwitchCamera
  <2>9. CASE TakeUpRequest
    <3>1. /\ UNCHANGED <<active, selected, builder, request>>
          /\ request # None
      BY <2>9, Zenon DEF TakeUpRequest
    <3>2. PICK zoom \in {request.zoom, IF shot = None THEN Thousand ELSE shot.zoom} :
            shot'.zoom = zoom /\ \A level \in Levels : shot'[level] = request[level]
      BY <1>1, <2>9, TakeUpSays, Zenon
    <3>3. Within(selected, request) /\ (shot # None => Within(selected, shot))
      BY <1>1, <1>7, <3>1 DEF SaidIsSound
    <3>4. Info[selected].zoom # None => Contains(Info[selected].zoom, Thousand)
      BY <1>1, CamerasOK DEF CamerasOK
    <3>5. Info[selected].zoom # None => Contains(Info[selected].zoom, shot'.zoom)
      BY <3>2, <3>3, <3>4 DEF Within
    <3>6. shot'.exposure = request.exposure /\ shot'.torch = request.torch
      BY <3>2 DEF Levels
    <3>7. Within(selected, shot')
      BY <3>3, <3>5, <3>6 DEF Within
    <3> QED BY <1>1, <1>7, <3>1, <3>7, Zenon DEF SaidIsSound
  <2> QED
    BY <1>4, <1>7, <2>1, <2>2, <2>3, <2>4, <2>5, <2>6, <2>7, <2>8, <2>9,
       QuietSteps, Zenon
    DEF Next, LooperStep, Overtaken
<1> HIDE DEF Set
<1> QED BY <1>2, <1>5, <1>6, <1>7, Zenon DEF SaidIsSound, Set

\* The fields of a control.
Fields ==
  {"cameraId", "width", "height", "fps", "zoom", "exposure", "torch",
   "previewMirrored", "screenDimmed"}
LEMMA FieldsAre ==
  /\ DOMAIN NoControls = Fields
  /\ \A controls \in ControlsType : DOMAIN controls = Fields
BY SMT DEF NoControls, ControlsType, Fields

\* A result without an error is near enough to what was asked for, ...
LEMMA NoErrorMeans ==
  ASSUME NEW controls \in ControlsType, NEW result \in AppliedType,
         ~AppliedControlError(controls, result)
  PROVE  /\ controls.zoom # None =>
              Near(result.zoom, controls.zoom, Tolerance("zoom", controls.zoom))
         /\ controls.fps # None => Near(result.fps, controls.fps, 1)
         /\ \A field \in Fields \ {"zoom", "fps"} :
              controls[field] # None => result[field] = controls[field]
<1>1. \A field \in Fields : controls[field] # None =>
        IF field \in {"zoom", "exposure", "fps"}
        THEN Near(result[field], controls[field], Tolerance(field, controls[field]))
        ELSE result[field] = controls[field]
  BY FieldsAre, Zenon DEF AppliedControlError, Asked
<1>2. controls.zoom # None =>
        Near(result.zoom, controls.zoom, Tolerance("zoom", controls.zoom))
  BY <1>1 DEF Fields
<1>3. controls.fps # None => Near(result.fps, controls.fps, 1)
  <2>1. Tolerance("fps", controls.fps) = 1
    BY DEF Tolerance
  <2> QED BY <1>1, <2>1 DEF Fields
<1>4. controls.exposure # None => result.exposure = controls.exposure
  <2>1. Tolerance("exposure", controls.exposure) = 0
    BY DEF Tolerance
  <2>2. result.exposure \in Int /\ controls.exposure \in Int \cup {None}
    BY DEF AppliedType, ControlsType
  <2>3. controls.exposure # None => Near(result.exposure, controls.exposure, 0)
    BY <1>1, <2>1 DEF Fields
  <2> QED BY <2>2, <2>3, SMT DEF Near
<1>5. ASSUME NEW field \in Fields \ {"zoom", "fps"}, controls[field] # None
      PROVE  result[field] = controls[field]
  <2>1. CASE field = "exposure"
    BY <1>4, <1>5, <2>1
  <2>2. CASE field # "exposure"
    BY <1>1, <1>5, <2>2
  <2> QED BY <2>1, <2>2
<1> QED BY <1>2, <1>3, <1>5

\* ... which is what the service takes for done, but for the zoom.
LEMMA NoErrorReflects ==
  ASSUME NEW controls \in ControlsType, NEW result \in AppliedType,
         ~AppliedControlError(controls, result)
  PROVE  /\ Reflects(result, [controls EXCEPT !.zoom = None])
         /\ controls.zoom # None => SameZoom(result.zoom, controls.zoom)
<1> DEFINE rest == [controls EXCEPT !.zoom = None]
<1>1. /\ DOMAIN rest = Fields /\ rest.zoom = None
      /\ \A field \in Fields \ {"zoom"} : rest[field] = controls[field]
  BY FieldsAre, SMT DEF Fields
<1> HIDE DEF rest
<1>2. ASSUME NEW field \in Asked(rest)
      PROVE  \/ result[field] = rest[field]
             \/ field = "fps" /\ Near(result.fps, rest.fps, Thousand \div 2)
  <2>1. /\ field \in Fields /\ field # "zoom" /\ controls[field] # None
        /\ rest[field] = controls[field]
    BY <1>1, <1>2 DEF Asked
  <2>2. CASE field = "fps"
    <3>1. Near(result.fps, controls.fps, 1)
      BY <2>1, <2>2, NoErrorMeans
    <3>2. Thousand \div 2 = 500
      BY SMT DEF Thousand
    <3>3. result.fps \in Int /\ controls.fps \in Int \cup {None}
      BY DEF AppliedType, ControlsType
    <3>4. Near(result.fps, controls.fps, 500)
      BY <2>1, <2>2, <3>1, <3>3, SMT DEF Near
    <3> QED BY <2>1, <2>2, <3>2, <3>4
  <2>3. CASE field # "fps"
    BY <2>1, <2>3, NoErrorMeans
  <2> QED BY <2>2, <2>3
<1>3. Reflects(result, rest)
  BY <1>2, Zenon DEF Reflects
<1>4. controls.zoom # None => SameZoom(result.zoom, controls.zoom)
  BY NoErrorMeans, Zenon DEF SameZoom
<1> QED BY <1>3, <1>4 DEF rest

\* What the acknowledgement of a control reports was asked for, and no more.
LEMMA AcknowledgedIsDone ==
  ASSUME CInv, SInv, CaptureCompleted, pending # None, shot.tag = pending,
         ~AppliedControlError(asked[pending], Now)
  PROVE  Done(asked[pending], Last.applied, Now)
<1> DEFINE controls == asked[pending]
<1>1. /\ pending \in Command /\ controls \in ControlsType /\ Now \in AppliedType
      /\ active /\ shot # None
  <2>1. pending \in Command /\ Data
    BY DEF CInv, IInv, Types
  <2> QED BY <2>1, AskedTyped, Completing
<1>2. /\ Reflects(Now, [controls EXCEPT !.zoom = None])
      /\ controls.zoom # None => SameZoom(Now.zoom, controls.zoom)
  BY <1>1, NoErrorReflects
<1>3. applied # None
  BY <1>1, Zenon DEF CInv, AppliedFirst
<1>4. ASSUME Now.cameraId = Last.applied.cameraId, Restorable(Now.cameraId)
      PROVE  /\ \A field \in Fields \ (Asked(controls) \cup {"fps", "zoom"}) :
                  Now[field] = Last.applied[field]
             /\ controls.zoom = None => SameZoom(Now.zoom, Last.applied.zoom)
  <2>1. ~Switching
    <3>1. ASSUME Switching PROVE FALSE
      <4>1. Last.applied.cameraId = applied.cameraId /\ Switched
        BY <1>1, <3>1 DEF SInv, SwitchShown, SwitchGoesOn, Between
      <4> QED BY <1>4, <4>1, NowSays DEF Switched
    <3> QED BY <3>1
  <2>2. Agree
    BY <1>1, <1>3, <2>1 DEF SInv, Shown
  <2>3. RestStays /\ Restorable(selected)
    BY <1>4, <2>2, NowSays DEF Agree
  <2>4. \A level \in Levels : controls[level] = None =>
          Now[level] = Last.applied[level]
    <3>1. \A level \in Levels : shot[level] = request[level]
      BY <2>2, Zenon DEF Agree, LevelsShown
    <3>2. \A level \in Levels : controls[level] = None =>
            request[level] = Last.applied[level]
      BY <2>3, Zenon DEF RestStays, Wanted, AskedFor
    <3> QED BY <3>1, <3>2, NowSays
  <2>5. controls.screenDimmed = None => Now.screenDimmed = Last.applied.screenDimmed
    BY <2>2, NowSays DEF Agree, ScreenShown, Wanted, AskedFor
  <2>6. Now.width = Last.applied.width /\ Now.height = Last.applied.height
        /\ Now.previewMirrored = Last.applied.previewMirrored
    <3>1. Sound(Last.applied)
      BY <1>1, <1>3 DEF SInv, SaidIsSound
    <3>2. /\ Last.applied.width = 1280 /\ Last.applied.height = 720
          /\ Last.applied.previewMirrored = FALSE
      BY <3>1 DEF Sound
    <3>3. Now.width = 1280 /\ Now.height = 720 /\ Now.previewMirrored = FALSE
      BY NowSays
    <3>4. Last.applied.previewMirrored \in BOOLEAN /\ Now.previewMirrored \in BOOLEAN
      BY <1>1, <1>3 DEF SInv, SaidIsSound, AppliedType
    <3>5. Now.previewMirrored = Last.applied.previewMirrored
      BY <3>2, <3>3, <3>4
    <3> QED BY <3>2, <3>3, <3>5
  <2>7. controls.zoom = None => SameZoom(Now.zoom, Last.applied.zoom)
    <3> SUFFICES ASSUME controls.zoom = None
                 PROVE  SameZoom(Now.zoom, Last.applied.zoom)
      OBVIOUS
    <3>1. Together({Last.applied.zoom, applied.zoom, builder.zoom, request.zoom,
                    shot.zoom})
      BY <2>3 DEF RestStays, ZoomShown, AskedFor
    <3>2. SameZoom(shot.zoom, Last.applied.zoom)
      BY <3>1, TogetherSame
    <3> QED BY <3>2, NowSays
  <2>8. ASSUME NEW field \in Fields \ (Asked(controls) \cup {"fps", "zoom"})
        PROVE  Now[field] = Last.applied[field]
    <3>1. controls[field] = None
      BY <1>1, <2>8, FieldsAre DEF Asked
    <3>2. CASE field \in Levels
      BY <2>4, <3>1, <3>2
    <3>3. CASE field = "screenDimmed"
      BY <2>5, <3>1, <3>3
    <3>4. CASE field \in {"cameraId", "width", "height", "previewMirrored"}
      BY <1>4, <2>6, <3>4
    <3> QED BY <2>8, <3>2, <3>3, <3>4 DEF Fields, Levels
  <2> QED BY <2>7, <2>8
<1> HIDE DEF controls
<1>5. Done(controls, Last.applied, Now)
  BY <1>2, <1>4, FieldsAre, Zenon DEF Done
<1> QED BY <1>5 DEF controls

\* A report of success may follow if it says that its control was done.
LEMMA ChainGrows ==
  ASSUME Chain, reports \in Seq(ReportType), NEW r \in ReportType,
         reports' = Append(reports, r), UNCHANGED <<known, asked>>,
         \A c \in Command : r.command = c /\ ~r.error =>
           Done(asked[c], Last.applied, r.applied)
  PROVE  Chain'
<1>1. /\ DOMAIN reports' = 1 .. Len(reports) + 1
      /\ DOMAIN reports = 1 .. Len(reports) /\ Len(reports) \in Nat
      /\ \A i \in DOMAIN reports : reports'[i] = reports[i]
      /\ reports'[Len(reports) + 1] = r
  BY LastIsAppended
<1>2. Said(Len(reports) + 1) = Last
  <2>1. CASE reports = <<>>
    <3>1. Len(reports) = 0
      BY <2>1, SMT
    <3> QED BY <2>1, <3>1 DEF Said, Last
  <2>2. CASE reports # <<>>
    <3>1. Len(reports) # 0
      BY <2>2, SMT
    <3>2. Len(reports) + 1 # 1 /\ (Len(reports) + 1) - 1 = Len(reports)
      BY <1>1, <3>1, SMT
    <3> QED BY <2>2, <3>2 DEF Said, Last
  <2> QED BY <2>1, <2>2
<1>3. ASSUME NEW i \in DOMAIN reports' PROVE Said(i)' = Said(i)
  <2>1. CASE i = 1
    BY <2>1 DEF Said
  <2>2. CASE i # 1
    <3>1. i - 1 \in DOMAIN reports
      BY <1>1, <1>3, <2>2, SMT
    <3> QED BY <1>1, <2>2, <3>1 DEF Said
  <2> QED BY <2>1, <2>2
<1>4. ASSUME NEW i \in DOMAIN reports', NEW c \in Command,
             reports'[i].command = c, ~reports'[i].error
      PROVE  Done(asked'[c], Said(i)'.applied, reports'[i].applied)
  <2>1. CASE i \in DOMAIN reports
    <3>1. reports'[i] = reports[i]
      BY <1>1, <2>1
    <3>2. Done(asked[c], Said(i).applied, reports[i].applied)
      BY <1>4, <2>1, <3>1, Zenon DEF Chain
    <3> QED BY <1>3, <3>1, <3>2
  <2>2. CASE i = Len(reports) + 1
    <3>1. reports'[i] = r /\ Said(i) = Last
      BY <1>1, <1>2, <2>2
    <3>2. Done(asked[c], Last.applied, r.applied)
      BY <1>4, <3>1
    <3> QED BY <1>3, <3>1, <3>2
  <2>3. i \in DOMAIN reports \/ i = Len(reports) + 1
    BY <1>1, SMT
  <2> QED BY <2>1, <2>2, <2>3
<1> QED BY <1>4, Zenon DEF Chain

\* Every report of success goes on to say that its control was done.
LEMMA ChainKept == CInv /\ SInv /\ Next => Chain'
<1> SUFFICES ASSUME CInv, SInv, Next PROVE Chain'
  OBVIOUS
<1>1. /\ Data /\ Chain /\ reports \in Seq(ReportType) /\ None \notin Command
      /\ pending \in Command \cup {None} /\ UsedOnce
  BY Nones DEF CInv, Data, SInv, IInv, Types
<1>2. CASE CameraState
  <2>1. UNCHANGED asked
    BY <1>2 DEF CameraState
  <2>2. ASSUME NEW i \in DOMAIN reports'
        PROVE  /\ i + 1 \in DOMAIN reports /\ reports'[i] = reports[i + 1]
               /\ Said(i)'.applied = Said(i + 1).applied
    <3>1. /\ i \in Nat \ {0} /\ i + 1 \in DOMAIN reports
          /\ reports'[i] = reports[i + 1]
          /\ known' = [caps |-> reports[1].caps, applied |-> reports[1].applied]
      BY <1>1, <1>2, <2>2, LastIsRead
    <3>2. i + 1 # 1 /\ (i + 1) - 1 = i
      BY <3>1, SMT
    <3>3. Said(i + 1) = reports[i]
      BY <3>2 DEF Said
    <3>4. CASE i = 1
      BY <3>1, <3>3, <3>4 DEF Said
    <3>5. CASE i # 1
      <4>1. i - 1 \in DOMAIN reports'
        <5>1. reports' \in Seq(ReportType)
          BY <1>1, <1>2, TailTyped DEF CameraState
        <5> QED BY <2>2, <3>1, <3>5, <5>1, SMT
      <4>2. reports'[i - 1] = reports[(i - 1) + 1] /\ (i - 1) + 1 = i
        BY <1>1, <1>2, <3>1, <4>1, LastIsRead, SMT
      <4>3. Said(i)' = reports'[i - 1]
        BY <3>5 DEF Said
      <4> QED BY <3>1, <3>3, <4>2, <4>3
    <3> QED BY <3>1, <3>4, <3>5
  <2>3. ASSUME NEW i \in DOMAIN reports', NEW c \in Command,
               reports'[i].command = c, ~reports'[i].error
        PROVE  Done(asked'[c], Said(i)'.applied, reports'[i].applied)
    <3>1. Done(asked[c], Said(i + 1).applied, reports[i + 1].applied)
      BY <1>1, <2>2, <2>3, Zenon DEF Chain
    <3> QED BY <2>1, <2>2, <3>1
  <2> QED BY <2>3, Zenon DEF Chain
<1>3. CASE CaptureCompleted
  <2>1. UNCHANGED <<known, asked>>
    BY <1>3, Completing
  <2>2. CASE UNCHANGED reports
    BY <1>1, <2>1, <2>2, Zenon DEF Chain, Said
  <2>3. ASSUME NEW c, NEW e, Reported(c, e) \in ReportType,
               reports' = Append(reports, Reported(c, e)),
               c \in Command /\ ~e => Done(asked[c], Last.applied, Now)
        PROVE  Chain'
    <3>1. /\ Reported(c, e).command = c /\ Reported(c, e).error = e
          /\ Reported(c, e).applied = Now
      BY DEF Reported, Published
    <3>2. \A d \in Command : Reported(c, e).command = d /\ ~Reported(c, e).error =>
            Done(asked[d], Last.applied, Reported(c, e).applied)
      BY <2>3, <3>1
    <3> HIDE DEF Chain
    <3> QED BY <1>1, <2>1, <2>3, <3>2, ChainGrows
  <2>4. CASE pending # None /\ shot.tag = pending
    <3> DEFINE error == AppliedControlError(asked[pending], Now)
    <3>1. /\ reports' = Append(reports, Reported(pending, error))
          /\ Reported(pending, error) \in ReportType
      BY <1>3, <2>4, Completing, Zenon
    <3>2. ~error => Done(asked[pending], Last.applied, Now)
      BY <1>3, <2>4, AcknowledgedIsDone
    <3> HIDE DEF error
    <3> QED BY <2>3, <3>1, <3>2
  <2>5. CASE ~(pending # None /\ shot.tag = pending)
    <3>1. \/ UNCHANGED reports
          \/ /\ reports' = Append(reports, Reported(None, FALSE))
             /\ Reported(None, FALSE) \in ReportType
      BY <1>3, <2>5, Completing, Zenon
    <3> QED BY <1>1, <2>2, <2>3, <3>1
  <2> QED BY <2>4, <2>5
<1>4. ASSUME UNCHANGED <<known, asked>>, UNCHANGED reports \/ Refuses
      PROVE  Chain'
  <2>1. CASE UNCHANGED reports
    BY <1>1, <1>4, <2>1, Zenon DEF Chain, Said
  <2>2. CASE Refuses
    <3>1. PICK id \in CameraId, c \in Command \cup {None} :
            /\ reports' = Append(reports, Published(id, c, TRUE))
            /\ Published(id, c, TRUE) \in ReportType
      BY <2>2, Zenon DEF Refuses
    <3>2. Published(id, c, TRUE).error
      BY DEF Published
    <3> QED BY <1>1, <1>4, <3>1, <3>2, ChainGrows
  <2> QED BY <1>4, <2>1, <2>2
<1>5. ASSUME NEW c \in Command, NEW controls \in Requests,
             CameraControl(c, controls)
      PROVE  Chain'
  <2>1. ~ReportedFor(c)
    BY <1>1, <1>5, Zenon DEF CameraControl, UsedOnce
  <2>2. /\ UNCHANGED <<known, reports>>
        /\ \A d \in Command \ {c} : asked'[d] = asked[d]
    BY <1>1, <1>5, SMT DEF CameraControl, Data
  <2> QED BY <1>1, <2>1, <2>2, Zenon DEF Chain, Said, ReportedFor
<1>6. UNCHANGED asked \/ \E c \in Command, controls \in Requests :
                            CameraControl(c, controls)
  <2>1. Quiet => UNCHANGED asked
    BY DEF Quiet, service
  <2> QED
    BY <2>1, QuietSteps, Zenon
    DEF Next, LooperStep, StartRepeating, SwitchOpened, SwitchConfigured,
        SwitchFails, PublishCamera, PublishSession, TakeControl, Apply,
        SwitchCamera, AcknowledgementTimeout, CaptureCompleted,
        CaptureOvertaken, TakeUpRequest, ServiceStep, CameraState, service
<1> QED BY <1>1, <1>2, <1>3, <1>4, <1>5, <1>6, Reporting

\* Settings as they are applied.
AsApplied(settings) ==
  /\ settings # None /\ settings.zoom = applied.zoom
  /\ \A level \in Levels : settings[level] = applied[level]

\* A refusal tells the service what is applied, and the camera that at most.
LEMMA RefusalAgrees ==
  ASSUME Agree, reports \in Seq(ReportType),
         NEW c, Published(selected, c, TRUE) \in ReportType,
         reports' = Append(reports, Published(selected, c, TRUE)),
         UNCHANGED <<shot, pending, selected, applied, dimmed, asked>>,
         \/ UNCHANGED <<builder, request>>
         \/ /\ pending = None
            /\ builder' = builder \/ AsApplied(builder')
            /\ request' = request \/ AsApplied(request')
         \/ /\ pending = None /\ ~Restorable(selected)
            /\ builder' # None /\ UNCHANGED request
  PROVE  Agree'
<1>1. Last'.applied = applied /\ Last'.caps = Capabilities(selected)
  <2>1. Last' = Published(selected, c, TRUE)
    BY LastIsAppended
  <2> QED BY <2>1 DEF Published
<1>2. ToldAll'
  BY Zenon DEF Agree, ToldAll, AsApplied
<1>3. CameraShown'
  BY <1>1, Zenon DEF Agree, CameraShown, AskedFor
<1>4. LevelsShown'
  <2> SUFFICES ASSUME NEW level \in Levels
               PROVE  /\ applied'[level] = Last'.applied[level]
                      /\ pending' = None => request'[level] = Last'.applied[level]
                      /\ shot'[level] = IF pending' # None /\ shot'.tag = pending'
                                        THEN request'[level] ELSE Last'.applied[level]
    BY Zenon DEF LevelsShown
  <2>1. /\ applied[level] = Last.applied[level]
        /\ pending = None => request[level] = Last.applied[level]
        /\ shot[level] = IF pending # None /\ shot.tag = pending
                         THEN request[level] ELSE Last.applied[level]
    BY Zenon DEF Agree, LevelsShown
  <2>2. /\ pending # None => request' = request
        /\ pending = None => request'[level] = applied[level]
    BY <2>1, Zenon DEF AsApplied
  <2> QED BY <1>1, <2>1, <2>2, Zenon
<1>5. ScreenShown'
  BY <1>1, Zenon DEF Agree, ScreenShown, Wanted, AskedFor
<1>6. RestStays'
  <2> SUFFICES ASSUME Restorable(selected)
               PROVE  /\ ZoomShown'
                      /\ \A level \in Levels : /\ builder'[level] = Wanted(level)'
                                               /\ request'[level] = Wanted(level)'
    BY Zenon DEF RestStays
  <2>1. /\ ZoomShown
        /\ \A level \in Levels :
             builder[level] = Wanted(level) /\ request[level] = Wanted(level)
    BY Zenon DEF Agree, RestStays
  <2>2. \/ UNCHANGED <<builder, request>>
        \/ /\ pending = None
           /\ builder' = builder \/ AsApplied(builder')
           /\ request' = request \/ AsApplied(request')
    OBVIOUS
  <2>3. ASSUME NEW level \in Levels
        PROVE  builder'[level] = Wanted(level)' /\ request'[level] = Wanted(level)'
    <3>1. applied[level] = Last.applied[level]
      BY Zenon DEF Agree, LevelsShown
    <3>2. Wanted(level)' = Wanted(level)
      BY <1>1, <3>1, Zenon DEF Wanted, AskedFor
    <3>3. pending = None => Wanted(level) = applied[level]
      BY <3>1, Zenon DEF Wanted, AskedFor
    <3> QED BY <2>1, <2>2, <3>2, <3>3, Zenon DEF AsApplied
  <2>4. CASE AskedFor("zoom")
    <3>1. UNCHANGED <<builder, request, pending, asked>>
      BY <2>2, <2>4 DEF AskedFor
    <3>2. ZoomShown'
      BY <2>1, <2>4, <3>1, Zenon DEF ZoomShown, AskedFor
    <3> QED BY <2>3, <3>2
  <2>5. CASE ~AskedFor("zoom")
    <3> DEFINE zooms == {Last.applied.zoom, applied.zoom, builder.zoom,
                         request.zoom, shot.zoom}
               after == {Last'.applied.zoom, applied'.zoom, builder'.zoom,
                         request'.zoom, shot'.zoom}
    <3>1. Together(zooms)
      BY <2>1, <2>5 DEF ZoomShown
    <3>2. builder'.zoom \in zooms /\ request'.zoom \in zooms
      BY <2>2 DEF AsApplied
    <3>3. after \subseteq zooms
      BY <1>1, <3>2
    <3>4. Together(after)
      BY <3>1, <3>3, TogetherLess
    <3>5. ~AskedFor("zoom")'
      BY <2>5, Zenon DEF AskedFor
    <3>6. ZoomShown'
      BY <3>4, <3>5, Zenon DEF ZoomShown, Together
    <3> QED BY <2>3, <3>6
  <2> QED BY <2>4, <2>5
<1> QED BY <1>2, <1>3, <1>4, <1>5, <1>6 DEF Agree

\* A result that is reported is known, applied and done, if it is what the
\* camera was told.
LEMMA ResultAgrees ==
  ASSUME CInv, CaptureCompleted, pending' = None,
         Last'.applied = Now, Last'.caps = Capabilities(selected),
         builder # None, request # None,
         \A level \in Levels : request[level] = shot[level],
         Restorable(selected) =>
           /\ \A level \in Levels : builder[level] = shot[level]
           /\ Together({builder.zoom, request.zoom, shot.zoom})
  PROVE  Agree'
<1>1. /\ applied' = Now /\ UNCHANGED <<selected, builder, dimmed, request, shot>>
      /\ shot # None
  BY Completing
<1>2. \A field : ~AskedFor(field)' /\ Wanted(field)' = Now[field]
  BY Zenon DEF AskedFor, Wanted
<1>3. ToldAll'
  BY <1>1, Zenon DEF ToldAll
<1>4. CameraShown'
  BY <1>1, NowSays, Zenon DEF CameraShown, AskedFor
<1>5. LevelsShown'
  <2>1. \A level \in Levels : Now[level] = shot[level]
    BY NowSays
  <2> QED BY <1>1, <2>1, Zenon DEF LevelsShown
<1>6. ScreenShown'
  <2>1. Now.screenDimmed = dimmed
    BY NowSays
  <2>2. /\ Wanted("screenDimmed")' = Now.screenDimmed
        /\ applied'.screenDimmed = Last'.applied.screenDimmed
    BY <1>1, <1>2, Zenon
  <2>3. dimmed' = Now.screenDimmed
    BY <1>1, <2>1
  <2> QED BY <2>2, <2>3, Zenon DEF ScreenShown
<1>7. ASSUME Restorable(selected) PROVE ZoomShown'
  <2> DEFINE after == {Last'.applied.zoom, applied'.zoom, builder'.zoom,
                       request'.zoom, shot'.zoom}
  <2>1. after \subseteq {builder.zoom, request.zoom, shot.zoom}
    BY <1>1, NowSays
  <2>2. Together(after)
    BY <1>7, <2>1, TogetherLess
  <2>3. ~AskedFor("zoom")'
    BY Zenon DEF AskedFor
  <2> QED BY <2>2, <2>3, Zenon DEF ZoomShown, Together
<1>8. RestStays'
  <2>1. \A level \in Levels : Now[level] = shot[level]
    BY NowSays
  <2> QED BY <1>1, <1>2, <1>7, <2>1, Zenon DEF RestStays
<1> QED BY <1>3, <1>4, <1>5, <1>6, <1>8 DEF Agree

\* What a result that is reported leaves known.
LEMMA ResultIsLast ==
  ASSUME CInv, NEW c, NEW e, Reported(c, e) \in ReportType,
         reports' = Append(reports, Reported(c, e))
  PROVE  Last'.applied = Now /\ Last'.caps = Capabilities(selected)
<1>1. reports \in Seq(ReportType)
  BY DEF CInv, Data
<1>2. Last' = Reported(c, e)
  BY <1>1, LastIsAppended
<1>3. Reported(c, e).applied = Now /\ Reported(c, e).caps = Capabilities(selected)
  BY SMT DEF Reported, Published
<1> QED BY <1>2, <1>3

\* Whatever the camera answers, everything agrees afterwards.
LEMMA CompletingAgrees ==
  ASSUME CInv, SInv, CaptureCompleted, active'
  PROVE  Agree'
<1>1. /\ Now \in AppliedType /\ applied' = Now /\ shot \in ShotType
      /\ UNCHANGED <<known, asked, selected, builder, dimmed, request, shot>>
      /\ active /\ shot # None /\ Data
      /\ pending \in Command \cup {None}
  BY Completing DEF CInv, IInv, Types
<1>2. shot.zoom \in Int
  BY <1>1 DEF ShotType
<1>3. CASE applied = None
  <2>1. pending = None /\ ~statePublished
    BY <1>3 DEF CInv, AppliedFirst, SInv, Beginning
  <2>2. /\ pending' = None /\ Reported(None, FALSE) \in ReportType
        /\ reports' = Append(reports, Reported(None, FALSE))
    BY <2>1, Completing, Zenon
  <2>3. Last'.applied = Now /\ Last'.caps = Capabilities(selected)
    BY <2>2, ResultIsLast
  <2>4. /\ request # None /\ builder = Unset(selected)
        /\ request = Repeating(builder, None) /\ shot = request
    BY <1>1, <1>3 DEF SInv, Beginning
  <2>5. builder # None
    <3>1. Unset(selected) \in Settings
      BY <1>1, UnsetTyped DEF Data
    <3> QED BY <2>4, <3>1, Nones
  <2>6. /\ builder.zoom = shot.zoom
        /\ \A level \in Levels :
             builder[level] = shot[level] /\ request[level] = shot[level]
    BY <2>4, RepeatingSets
  <2>7. Together({builder.zoom, request.zoom, shot.zoom})
    BY <1>2, <2>4, <2>6, NearItself, TogetherIf
  <2> QED BY <2>2, <2>3, <2>4, <2>5, <2>6, <2>7, ResultAgrees
<1>4. CASE applied # None /\ pending # None /\ shot.tag = pending
  <2> DEFINE controls == asked[pending]
             error == AppliedControlError(controls, Now)
  <2>1. /\ pending' = None /\ ~error /\ Reported(pending, error) \in ReportType
        /\ reports' = Append(reports, Reported(pending, error))
    BY <1>4, Completing, Zenon
  <2>2. Last'.applied = Now /\ Last'.caps = Capabilities(selected)
    BY <2>1, ResultIsLast
  <2>3. controls \in ControlsType
    BY <1>1, <1>4, AskedTyped
  <2>4. controls.zoom # None =>
          /\ controls.zoom \in Int
          /\ Near(shot.zoom, controls.zoom, Tolerance("zoom", controls.zoom))
    <3>1. controls.zoom \in Int \cup {None}
      BY <2>3 DEF ControlsType
    <3> QED BY <1>1, <2>1, <2>3, <3>1, NoErrorMeans, NowSays
  <2> HIDE DEF error, controls
  <2>5. CASE ~Switching
    <3>1. Agree
      BY <1>1, <1>4, <2>5 DEF SInv, Shown
    <3>2. /\ builder # None /\ request # None
          /\ \A level \in Levels : request[level] = shot[level]
          /\ Restorable(selected) =>
               ZoomShown /\ \A level \in Levels : builder[level] = request[level]
      BY <1>4, <3>1, Zenon DEF Agree, ToldAll, LevelsShown, RestStays
    <3>3. ASSUME Restorable(selected)
          PROVE  Together({builder.zoom, request.zoom, shot.zoom})
      <4>1. CASE controls.zoom # None
        <5>1. builder.zoom = controls.zoom /\ request.zoom = controls.zoom
          BY <1>4, <3>2, <3>3, <4>1 DEF ZoomShown, AskedFor, controls
        <5> QED BY <1>2, <2>4, <4>1, <5>1, TogetherIf
      <4>2. CASE controls.zoom = None
        <5>1. Together({Last.applied.zoom, applied.zoom, builder.zoom,
                        request.zoom, shot.zoom})
          BY <3>2, <3>3, <4>2 DEF ZoomShown, AskedFor, controls
        <5> QED BY <5>1, TogetherLess
      <4> QED BY <4>1, <4>2
    <3> QED BY <2>1, <2>2, <3>2, <3>3, ResultAgrees
  <2>6. CASE Switching
    <3>1. Switched
      BY <1>1, <2>6 DEF SInv, SwitchShown, SwitchGoesOn, Between
    <3> DEFINE unset == Unset(selected)
    <3>2. unset \in Settings /\ unset.zoom = Thousand
      BY <1>1, UnsetTyped DEF Data, Unset
    <3> HIDE DEF unset
    <3>3. builder = Applying(controls, unset) /\ request = Repeating(builder, pending)
      BY <3>1 DEF Switched, controls, unset
    <3>4. builder \in Settings /\ request \in ShotType
      BY <1>1, <2>3, <3>2, <3>3, ApplyingTyped, RepeatingTyped
    <3>5. PICK zoom \in {request.zoom, Thousand} : shot = [request EXCEPT !.zoom = zoom]
      BY <1>1, <3>1 DEF Switched
    <3>6. zoom \in Int
      BY <3>4, <3>5, SMT DEF ShotType, Thousand
    <3>7. shot.zoom = zoom /\ \A level \in Levels : shot[level] = request[level]
      BY <3>4, <3>5, <3>6, TakingUp
    <3>8. /\ request.zoom = builder.zoom
          /\ \A level \in Levels : request[level] = builder[level]
      BY <3>3, RepeatingSets
    <3>9. builder.zoom = IF controls.zoom = None THEN Thousand ELSE controls.zoom
      BY <3>2, <3>3, ApplyingSets
    <3>10. Together({builder.zoom, request.zoom, shot.zoom})
      <4>1. CASE controls.zoom # None
        BY <1>2, <2>4, <3>8, <3>9, <4>1, TogetherIf
      <4>2. CASE controls.zoom = None
        <5>1. builder.zoom = shot.zoom /\ request.zoom = shot.zoom
          BY <3>5, <3>7, <3>8, <3>9, <4>2
        <5> QED BY <1>2, <5>1, NearItself, TogetherIf
      <4> QED BY <4>1, <4>2
    <3>11. builder # None /\ request # None
      BY <3>4, Nones
    <3> QED BY <2>1, <2>2, <3>7, <3>8, <3>10, <3>11, ResultAgrees
  <2> QED BY <2>5, <2>6
<1>5. CASE applied # None /\ ~(pending # None /\ shot.tag = pending)
  <2>1. UNCHANGED <<pending, reports>>
    <3>1. statePublished
      BY <1>5 DEF SInv, Beginning
    <3> QED BY <1>5, <3>1, Completing, Zenon
  <2>2. Last' = Last
    BY <1>1, <2>1 DEF Last
  <2>3. ~Switching
    <3>1. ASSUME Switching PROVE FALSE
      <4>1. Switched
        BY <1>1, <3>1 DEF SInv, SwitchShown, SwitchGoesOn, Between
      <4>2. PICK zoom \in {request.zoom, Thousand} :
              shot = [request EXCEPT !.zoom = zoom]
        BY <1>1, <4>1 DEF Switched
      <4>3. request = Repeating(builder, pending) /\ request.tag = pending
        BY <4>1, RepeatingSets DEF Switched
      <4>4. shot.tag = request.tag
        BY <4>2, <4>3, SMT DEF Repeating
      <4> QED BY <1>5, <3>1, <4>3, <4>4 DEF Switching
    <3> QED BY <3>1
  <2>4. Agree
    BY <1>1, <1>5, <2>3 DEF SInv, Shown
  <2>5. ToldAll'
    BY <1>1, <2>1, <2>4, Zenon DEF Agree, ToldAll
  <2>6. CameraShown'
    <3>1. applied'.cameraId = selected /\ UNCHANGED selected
      BY <1>1, NowSays
    <3>2. CameraShown
      BY <2>4 DEF Agree
    <3>3. AskedFor("cameraId")' = AskedFor("cameraId")
      BY <1>1, <2>1, Zenon DEF AskedFor
    <3> QED BY <1>1, <2>1, <2>2, <3>1, <3>2, <3>3, Zenon DEF CameraShown
  <2>7. LevelsShown'
    <3>1. \A level \in Levels : Now[level] = Last.applied[level]
      BY <1>5, <2>4, NowSays DEF Agree, LevelsShown
    <3> QED BY <1>1, <2>1, <2>2, <2>4, <3>1, Zenon DEF Agree, LevelsShown
  <2>8. ScreenShown'
    <3>1. applied'.screenDimmed = dimmed
      BY <1>1, NowSays
    <3>2. ScreenShown
      BY <2>4 DEF Agree
    <3> QED
      BY <1>1, <2>1, <2>2, <3>1, <3>2, Zenon DEF ScreenShown, Wanted, AskedFor
  <2>9. RestStays'
    <3> SUFFICES ASSUME Restorable(selected)
                 PROVE  /\ ZoomShown'
                        /\ \A level \in Levels : /\ builder'[level] = Wanted(level)'
                                                 /\ request'[level] = Wanted(level)'
      BY <1>1, Zenon DEF RestStays
    <3>1. /\ ZoomShown
          /\ \A level \in Levels :
               builder[level] = Wanted(level) /\ request[level] = Wanted(level)
      BY <2>4, Zenon DEF Agree, RestStays
    <3>2. \A field : Wanted(field)' = Wanted(field) /\ (AskedFor(field)' <=> AskedFor(field))
      BY <1>1, <2>1, <2>2, Zenon DEF Wanted, AskedFor
    <3>3. CASE AskedFor("zoom")
      <4>1. ZoomShown'
        BY <1>1, <2>1, <3>1, <3>3, Zenon DEF ZoomShown, AskedFor
      <4> QED BY <1>1, <3>1, <3>2, <4>1, Zenon
    <3>4. CASE ~AskedFor("zoom")
      <4> DEFINE after == {Last'.applied.zoom, applied'.zoom, builder'.zoom,
                           request'.zoom, shot'.zoom}
      <4>1. Together({Last.applied.zoom, applied.zoom, builder.zoom,
                      request.zoom, shot.zoom})
        BY <3>1, <3>4 DEF ZoomShown
      <4>2. Together(after)
        <5>1. applied'.zoom = shot.zoom
          BY <1>1, NowSays
        <5> QED BY <1>1, <2>2, <4>1, <5>1, TogetherLess
      <4>3. ZoomShown'
        BY <3>2, <3>4, <4>2, Zenon DEF ZoomShown, Together
      <4> QED BY <1>1, <3>1, <3>2, <4>3, Zenon
    <3> QED BY <3>3, <3>4
  <2> QED BY <2>5, <2>6, <2>7, <2>8, <2>9 DEF Agree
<1> QED BY <1>3, <1>4, <1>5

\* A control that is applied is what the camera is told, and nothing else is.
LEMMA ApplyingAgrees ==
  ASSUME CInv, SInv, handler.at = "apply", active,
         asked[handler.command].cameraId = selected,
         builder' = Applying(asked[handler.command], builder),
         request' = Repeating(builder', handler.command),
         Dim(asked[handler.command]), pending' = handler.command,
         UNCHANGED <<known, reports, selected, applied, shot, asked>>
  PROVE  Agree'
<1> DEFINE command == handler.command
           controls == asked[command]
<1>1. /\ command \in Command /\ command # None /\ Unused(command)
      /\ controls \in ControlsType
      /\ pending = None /\ Agree /\ Data /\ None \notin CameraId
  BY ApplyFinds, Nones DEF CInv
<1>2. /\ builder \in Settings /\ builder # None /\ shot # None
      /\ shot.tag # command
  BY <1>1 DEF Agree, ToldAll, Data, Unused
<1>3. builder' \in Settings /\ request' \in ShotType
  BY <1>1, <1>2, ApplyingTyped, RepeatingTyped
<1>4. /\ \A field \in Levels \cup {"zoom"} :
           builder'[field] = IF controls[field] = None THEN builder[field]
                             ELSE controls[field]
      /\ \A level \in Levels : request'[level] = builder'[level]
      /\ request'.zoom = builder'.zoom /\ request'.tag = command
  BY <1>1, <1>2, ApplyingSets, RepeatingSets
<1>5. Last' = Last
  BY DEF Last
<1>6. /\ pending' = command /\ asked'[pending'] = controls
      /\ controls.cameraId = selected /\ Dim(controls)
      /\ UNCHANGED <<selected, applied, shot>>
  OBVIOUS
<1> HIDE DEF controls, command
<1>7. ToldAll'
  BY <1>2, <1>3, <1>4, <1>6, Nones, Zenon DEF ToldAll
<1>8. CameraShown'
  <2>1. selected = Last.applied.cameraId /\ selected = applied.cameraId
    BY <1>1 DEF Agree, CameraShown
  <2> QED BY <1>1, <1>5, <1>6, <2>1, Zenon DEF CameraShown, AskedFor
<1>9. LevelsShown'
  <2> SUFFICES ASSUME NEW level \in Levels
               PROVE  /\ applied'[level] = Last'.applied[level]
                      /\ pending' # None /\ shot'.tag # pending'
                      /\ shot'[level] = Last'.applied[level]
    BY Zenon DEF LevelsShown
  <2>1. /\ applied[level] = Last.applied[level]
        /\ shot[level] = Last.applied[level]
    BY <1>1, Zenon DEF Agree, LevelsShown
  <2> QED BY <1>1, <1>2, <1>5, <1>6, <2>1, Zenon
<1>10. ScreenShown'
  <2>1. /\ dimmed = Last.applied.screenDimmed
        /\ applied.screenDimmed = Last.applied.screenDimmed
    BY <1>1, Zenon DEF Agree, ScreenShown, Wanted, AskedFor
  <2>2. dimmed' = IF controls.screenDimmed = None THEN dimmed
                  ELSE controls.screenDimmed
    BY <1>6 DEF Dim
  <2> QED BY <1>1, <1>5, <1>6, <2>1, <2>2, Zenon DEF ScreenShown, Wanted, AskedFor
<1>11. ASSUME Restorable(selected) PROVE ZoomShown'
  <2>1. CASE controls.zoom # None
    <3>1. builder'.zoom = controls.zoom /\ request'.zoom = controls.zoom
      BY <1>4, <2>1
    <3> QED BY <1>1, <1>6, <2>1, <3>1, Zenon DEF ZoomShown, AskedFor
  <2>2. CASE controls.zoom = None
    <3> DEFINE after == {Last'.applied.zoom, applied'.zoom, builder'.zoom,
                         request'.zoom, shot'.zoom}
    <3>1. Together({Last.applied.zoom, applied.zoom, builder.zoom,
                    request.zoom, shot.zoom})
      BY <1>1, <1>11 DEF Agree, RestStays, ZoomShown, AskedFor
    <3>2. Together(after)
      BY <1>4, <1>5, <1>6, <2>2, <3>1, TogetherLess
    <3>3. ~AskedFor("zoom")'
      BY <1>6, <2>2, Zenon DEF AskedFor
    <3> QED BY <3>2, <3>3, Zenon DEF ZoomShown, Together
  <2> QED BY <2>1, <2>2
<1>12. ASSUME Restorable(selected), NEW level \in Levels
       PROVE  builder'[level] = Wanted(level)' /\ request'[level] = Wanted(level)'
  <2>1. builder[level] = Last.applied[level]
    BY <1>1, <1>12, Zenon DEF Agree, RestStays, Wanted, AskedFor
  <2>2. Wanted(level)' = IF controls[level] # None THEN controls[level]
                         ELSE Last.applied[level]
    BY <1>1, <1>5, <1>6, Zenon DEF Wanted, AskedFor
  <2>3. builder'[level] = IF controls[level] # None THEN controls[level]
                          ELSE Last.applied[level]
    BY <1>4, <2>1
  <2> QED BY <1>4, <2>2, <2>3, Zenon
<1>13. RestStays'
  BY <1>6, <1>11, <1>12, Zenon DEF RestStays
<1> QED BY <1>7, <1>8, <1>9, <1>10, <1>13 DEF Agree

\* What the camera takes up is what it was told.
LEMMA TakingUpAgrees ==
  ASSUME CInv, Agree, TakeUpRequest
  PROVE  Agree'
<1>1. /\ UNCHANGED <<pending, selected, builder, applied, dimmed, request>>
      /\ UNCHANGED <<known, asked, reports>> /\ Data
  BY Zenon DEF TakeUpRequest, service, CInv
<1>2. /\ shot' \in ShotType /\ shot'.tag = request.tag
      /\ shot'.zoom \in {request.zoom, shot.zoom}
      /\ \A level \in Levels : shot'[level] = request[level]
  BY <1>1, TakeUpSays DEF Agree, ToldAll
<1>3. Last' = Last
  BY <1>1 DEF Last
<1>4. ToldAll'
  BY <1>1, <1>2, Nones, Zenon DEF Agree, ToldAll
<1>5. CameraShown' /\ ScreenShown'
  <2>1. CameraShown'
    BY <1>1, <1>3, Zenon DEF Agree, CameraShown, AskedFor
  <2>2. ScreenShown'
    BY <1>1, <1>3, Zenon DEF Agree, ScreenShown, Wanted, AskedFor
  <2> QED BY <2>1, <2>2
<1>6. LevelsShown'
  <2> SUFFICES ASSUME NEW level \in Levels
               PROVE  /\ applied'[level] = Last'.applied[level]
                      /\ pending' = None => request'[level] = Last'.applied[level]
                      /\ shot'[level] = IF pending' # None /\ shot'.tag = pending'
                                        THEN request'[level] ELSE Last'.applied[level]
    BY Zenon DEF LevelsShown
  <2>1. /\ applied[level] = Last.applied[level]
        /\ pending = None => request[level] = Last.applied[level]
        /\ pending # None => request.tag = pending
    BY Zenon DEF Agree, LevelsShown, ToldAll
  <2> QED BY <1>1, <1>2, <1>3, <2>1, Zenon
<1>7. RestStays'
  <2> SUFFICES ASSUME Restorable(selected)
               PROVE  /\ ZoomShown'
                      /\ \A level \in Levels : /\ builder'[level] = Wanted(level)'
                                               /\ request'[level] = Wanted(level)'
    BY <1>1, Zenon DEF RestStays
  <2>1. /\ ZoomShown
        /\ \A level \in Levels :
             builder[level] = Wanted(level) /\ request[level] = Wanted(level)
    BY Zenon DEF Agree, RestStays
  <2>2. \A field : Wanted(field)' = Wanted(field) /\ (AskedFor(field)' <=> AskedFor(field))
    BY <1>1, <1>3, Zenon DEF Wanted, AskedFor
  <2>3. CASE AskedFor("zoom")
    <3>1. ZoomShown'
      BY <1>1, <2>1, <2>3, Zenon DEF ZoomShown, AskedFor
    <3> QED BY <1>1, <2>1, <2>2, <3>1, Zenon
  <2>4. CASE ~AskedFor("zoom")
    <3> DEFINE after == {Last'.applied.zoom, applied'.zoom, builder'.zoom,
                         request'.zoom, shot'.zoom}
    <3>1. Together({Last.applied.zoom, applied.zoom, builder.zoom,
                    request.zoom, shot.zoom})
      BY <2>1, <2>4 DEF ZoomShown
    <3>2. Together(after)
      BY <1>1, <1>2, <1>3, <3>1, TogetherLess
    <3>3. ZoomShown'
      BY <2>2, <2>4, <3>2, Zenon DEF ZoomShown, Together
    <3> QED BY <1>1, <2>1, <2>2, <3>3, Zenon
  <2> QED BY <2>3, <2>4
<1> QED BY <1>4, <1>5, <1>6, <1>7 DEF Agree

\* Switching is to go on or to begin with a camera that is not yet configured.
LEMMA SwitchingStays ==
  ASSUME CInv, UNCHANGED <<pending, device>>
  PROVE  Switching' <=> Switching
BY DEF Switching

\* What is shown agrees, except while a camera is being switched to.
LEMMA ShownKept == CInv /\ SInv /\ Next => Shown'
<1> SUFFICES ASSUME CInv, SInv, Next, active', applied' # None, ~Switching'
             PROVE  Agree'
  BY DEF Shown
<1> USE DEF life, wire, threads, held, looper, service
<1>1. /\ Data /\ reports \in Seq(ReportType) /\ pending \in Command \cup {None}
      /\ ~Idle => handler.command \in Command
      /\ device \in [Device -> DeviceState] /\ Command \subseteq Device
      /\ None \notin Command
  BY Names, Nones DEF CInv, Data, IInv, Types, Device
<1>2. CASE Quiet
  BY <1>2, QuietKept DEF SInv, Shown
<1>3. ASSUME active, applied # None, ~Switching PROVE Agree
  BY <1>3 DEF SInv, Shown
<1>4. ~StartRepeating
  <2> SUFFICES ASSUME StartRepeating PROVE FALSE
    OBVIOUS
  <2>1. at["run"] \in Before /\ UNCHANGED applied
    BY DEF StartRepeating, Before
  <2> QED BY <2>1 DEF SInv, Beginning
<1>5. ASSUME NEW c \in Command, SwitchOpened(c) \/ SwitchConfigured(c)
      PROVE  Agree'
  <2>1. /\ active /\ applied # None
        /\ UNCHANGED <<device, pending, builder, request, shot, selected, applied,
                       dimmed, asked, known, reports>>
    BY <1>5, Zenon DEF SwitchOpened, SwitchConfigured
  <2>2. Agree
    BY <1>3, <2>1, SwitchingStays
  <2> QED BY <2>1, <2>2, AgreeStays DEF Last
<1>6. ~\E c \in Command : SwitchFails(c)
  BY Zenon DEF SwitchFails, FailCameraCommand
<1>7. ~AcknowledgementTimeout
  BY Zenon DEF AcknowledgementTimeout
<1>8. ASSUME NEW d \in {"configuring", "configured"},
             handler.at \in {"publishCamera", "publishSession"}, active,
             device' = [device EXCEPT ![handler.command] = d], UNCHANGED pending
      PROVE  FALSE
  <2>1. pending = handler.command /\ Switching /\ handler.command \in Command
    BY <1>8, PublishFinds
  <2>2. device'[pending] # "none"
    BY <1>1, <1>8, <2>1
  <2> QED BY <1>8, <2>1, <2>2 DEF Switching
<1>9. ~PublishCamera
  <2> SUFFICES ASSUME PublishCamera PROVE FALSE
    OBVIOUS
  <2>1. /\ device' = [device EXCEPT ![handler.command] = "configuring"]
        /\ active /\ UNCHANGED pending
    BY Zenon DEF PublishCamera, FailCameraCommand
  <2> QED BY <1>8, <2>1 DEF PublishCamera
<1>10. ~PublishSession
  <2> SUFFICES ASSUME PublishSession PROVE FALSE
    OBVIOUS
  <2>1. /\ device' = [device EXCEPT ![handler.command] = "configured"]
        /\ active /\ UNCHANGED pending /\ handler.at = "publishSession"
    BY Zenon DEF PublishSession, FailCameraCommand
  <2> QED BY <1>8, <2>1
<1>11. ASSUME Agree, active, applied # None, NEW c \in Command,
              PublishState(c, TRUE),
              UNCHANGED <<shot, pending, selected, applied, dimmed, asked>>,
              \/ UNCHANGED <<builder, request>>
              \/ /\ pending = None
                 /\ builder' = builder \/ AsApplied(builder')
                 /\ request' = request \/ AsApplied(request')
              \/ /\ pending = None /\ ~Restorable(selected)
                 /\ builder' # None /\ UNCHANGED request
       PROVE  Agree'
  <2>1. reports' = Append(reports, Published(selected, c, TRUE))
    BY <1>11, Zenon DEF PublishState, PublishStateOf
  <2>2. Published(selected, c, TRUE) \in ReportType
    BY <1>1, <1>11, PublishedTyped, Zenon DEF Data
  <2> QED BY <1>1, <1>11, <2>1, <2>2, RefusalAgrees
<1>12. CASE TakeControl
  <2>1. /\ active /\ applied # None
        /\ UNCHANGED <<device, pending, builder, request, shot, selected, applied,
                       dimmed, asked, known>>
        /\ UNCHANGED reports \/ PublishState(Head(commands), TRUE)
    BY <1>12, Zenon DEF TakeControl
  <2>2. Agree
    BY <1>3, <2>1, SwitchingStays
  <2>3. Head(commands) \in Command
    BY <1>12, HeadTail DEF TakeControl, CInv, IInv, Types
  <2>4. CASE UNCHANGED reports
    BY <2>1, <2>2, <2>4, AgreeStays DEF Last
  <2>5. CASE PublishState(Head(commands), TRUE)
    BY <1>11, <2>1, <2>2, <2>3, <2>5
  <2> QED BY <2>1, <2>4, <2>5
<1>13. CASE Apply
  <2> DEFINE command == handler.command
             controls == asked[command]
  <2>1. /\ handler.at = "apply" /\ active
        /\ UNCHANGED <<device, selected, applied, shot, known, asked>>
    BY <1>13, Zenon DEF Apply
  <2>2. command \in Command /\ applied \in AppliedType /\ applied # None
        /\ Agree /\ pending = None
    BY <2>1, ApplyFinds
  <2>3. CASE Refuse(command) /\ UNCHANGED <<builder, request>>
    BY <1>11, <2>1, <2>2, <2>3 DEF Refuse
  <2>4. CASE /\ Refuse(command) /\ builder # None /\ ~Restorable(selected)
             /\ HalfDone /\ UNCHANGED request
    <3>1. controls \in ControlsType /\ builder \in Settings
      BY <1>1, <2>1, <2>4, ApplyFinds DEF Data
    <3>2. builder' \in Settings
      BY <2>4, <3>1, HalfDoneIs, ApplyingTyped
    <3>3. builder' # None
      BY <3>2, Nones
    <3> QED BY <1>11, <2>1, <2>2, <2>4, <3>3 DEF Refuse
  <2>5. CASE /\ Refuse(command) /\ RebuildConfirmedRequest
             /\ ~(~Restorable(selected) /\ HalfDone /\ UNCHANGED request)
    <3> DEFINE confirmed ==
                 [zoom |-> applied.zoom, exposure |-> applied.exposure,
                  torch |-> applied.torch, fps |-> 30 * Thousand]
    <3>1. confirmed \in Settings
      BY <2>2, SMT DEF AppliedType, Settings, Thousand
    <3>2. Repeating(confirmed, None) \in ShotType
      BY <3>1, RepeatingTyped
    <3>3. /\ confirmed.zoom = applied.zoom
          /\ \A level \in Levels : confirmed[level] = applied[level]
      BY SMT DEF Levels
    <3>4. /\ builder' = builder \/ builder' = confirmed
          /\ request' = request \/ request' = Repeating(confirmed, None)
      BY <2>5, Zenon DEF RebuildConfirmedRequest, SetRepeating
    <3> HIDE DEF confirmed
    <3>5. AsApplied(confirmed) /\ AsApplied(Repeating(confirmed, None))
      BY <3>1, <3>2, <3>3, RepeatingSets, Nones DEF AsApplied
    <3>6. /\ builder' = builder \/ AsApplied(builder')
          /\ request' = request \/ AsApplied(request')
      BY <3>4, <3>5
    <3> QED BY <1>11, <2>1, <2>2, <2>5, <3>6 DEF Refuse
  <2>6. CASE /\ controls.cameraId = selected
             /\ builder' = Applying(controls, builder)
             /\ Dim(controls) /\ pending' = command
             /\ SetRepeating(builder', command)
             /\ UNCHANGED reports
    BY <2>1, <2>6, ApplyingAgrees DEF SetRepeating
  <2> QED BY <1>13, <2>3, <2>4, <2>5, <2>6, Zenon DEF Apply, ApplyCurrent
<1>14. CASE SwitchCamera
  <2> DEFINE command == handler.command
  <2>1. /\ handler.at = "apply" /\ active
        /\ UNCHANGED <<selected, applied, known, asked>>
        /\ \/ /\ Refuse(command)
              /\ UNCHANGED <<builder, request, shot>>
           \/ /\ pending' = command
              /\ device' = [ClosedCameras({camera}) EXCEPT ![command] = "opening"]
    BY <1>14, Zenon DEF SwitchCamera
  <2>2. command \in Command /\ command # None /\ applied # None /\ Agree
    BY <2>1, ApplyFinds, Nones
  <2>3. CASE Refuse(command) /\ UNCHANGED <<builder, request, shot>>
    BY <1>11, <2>1, <2>2, <2>3 DEF Refuse
  <2>4. CASE /\ pending' = command
             /\ device' = [ClosedCameras({camera}) EXCEPT ![command] = "opening"]
    <3>1. device'[command] = "opening"
      BY <1>1, <2>2, <2>4 DEF ClosedCameras
    <3> QED BY <2>2, <2>4, <3>1 DEF Switching
  <2> QED BY <2>1, <2>3, <2>4
<1>15. CASE CaptureCompleted
  BY <1>15, CompletingAgrees
<1>16. CASE TakeUpRequest
  <2>1. active /\ applied # None /\ UNCHANGED <<pending, device>>
    BY <1>16, Zenon DEF TakeUpRequest
  <2>2. Agree
    BY <1>3, <2>1, SwitchingStays
  <2> QED BY <1>16, <2>2, TakingUpAgrees
<1>17. ASSUME NEW c \in Command, NEW controls \in Requests,
              CameraControl(c, controls)
       PROVE  Agree'
  <2>1. /\ active /\ applied # None
        /\ UNCHANGED <<device, pending, builder, request, shot, selected, applied,
                       dimmed, known, reports>>
    BY <1>17, Zenon DEF CameraControl
  <2>2. Agree
    BY <1>3, <2>1, SwitchingStays
  <2>3. pending # c
    BY <1>17, Zenon DEF CameraControl, SInv, UsedOnce, Unused
  <2>4. pending # None => asked'[pending] = asked[pending]
    BY <1>1, <1>17, <2>3, SMT DEF CameraControl, Data
  <2> QED BY <2>1, <2>2, <2>4, AgreeStays DEF Last
<1>18. CASE CameraState
  <2>1. /\ active /\ applied # None
        /\ UNCHANGED <<device, pending, builder, request, shot, selected, applied,
                       dimmed, asked>>
    BY <1>18, Zenon DEF CameraState
  <2>2. Agree
    BY <1>3, <2>1, SwitchingStays
  <2>3. Last'.applied = Last.applied /\ Last'.caps = Last.caps
    BY <1>1, <1>18, LastIsRead
  <2> QED BY <2>1, <2>2, <2>3, AgreeStays
<1>19. ~Overtaken
  BY OvertakenEnds
<1> QED
  BY <1>2, <1>4, <1>5, <1>6, <1>7, <1>9, <1>10, <1>12, <1>13, <1>14, <1>15,
     <1>16, <1>17, <1>18, <1>19, QuietSteps, Zenon
  DEF Next, LooperStep, ServiceStep, Overtaken

\* A switch goes on until it is reported, or the capture ends.
LEMMA SwitchKept == CInv /\ SInv /\ Next => SwitchShown'
<1> SUFFICES ASSUME CInv, SInv, Next, active'
             PROVE  SwitchBegins' /\ SwitchGoesOn'
  BY DEF SwitchShown
<1> USE DEF life, wire, threads, held, looper, service
<1>1. /\ Data /\ reports \in Seq(ReportType) /\ pending \in Command \cup {None}
      /\ ~Idle => handler.command \in Command
      /\ device \in [Device -> DeviceState] /\ Command \subseteq Device
      /\ None \notin Command
  BY Names, Nones DEF CInv, Data, IInv, Types, Device
<1>2. CASE Quiet
  BY <1>2, QuietKept DEF SInv, SwitchShown
<1>3. active => SwitchBegins /\ SwitchGoesOn
  BY DEF SInv, SwitchShown
<1>4. ASSUME active, pending = None
      PROVE  \A c \in Command : ~Awaited(c)
  BY <1>1, <1>3, <1>4, Zenon DEF SwitchBegins
<1>5. ASSUME \A c \in Command : ~Awaited(c)', ~Switching'
      PROVE  SwitchBegins' /\ SwitchGoesOn'
  BY <1>5, Zenon DEF SwitchBegins, SwitchGoesOn
<1>6. ASSUME active,
             UNCHANGED <<builder, request, shot, pending, selected, applied, asked,
                         known, reports>>,
             Switching' => Switching,
             \A c \in Command : Awaited(c)' => Awaited(c)
      PROVE  SwitchBegins' /\ SwitchGoesOn'
  <2>1. Last' = Last
    BY <1>6 DEF Last
  <2> QED BY <1>3, <1>6, <2>1, SwitchStays, Zenon
<1>7. CASE StartRepeating
  <2>1. /\ active /\ at["run"] \in Before
        /\ UNCHANGED <<pending, device, handler>>
    BY <1>7, Zenon DEF StartRepeating, Before
  <2>2. pending = None
    BY <2>1 DEF SInv, Beginning, CInv, AppliedFirst
  <2>3. ~Switching'
    BY <2>1, <2>2 DEF Switching
  <2>4. \A c \in Command : ~Awaited(c)'
    BY <1>4, <2>1, <2>2, Zenon DEF Awaited
  <2> QED BY <1>5, <2>3, <2>4
<1>8. ASSUME NEW c \in Command, SwitchOpened(c) \/ SwitchConfigured(c)
      PROVE  SwitchBegins' /\ SwitchGoesOn'
  <2>1. /\ active /\ handler' \in {[at |-> "publishCamera", command |-> c],
                                   [at |-> "publishSession", command |-> c]}
        /\ device[c] \in {"opening", "configuring"}
        /\ UNCHANGED <<device, pending, builder, request, shot, selected, applied,
                       asked, known, reports>>
    BY <1>8, Zenon DEF SwitchOpened, SwitchConfigured
  <2>2. handler'.command = c
    BY <2>1, SMT
  <2>3. \A d \in Command : Awaited(d)' => Awaited(d)
    BY <2>1, <2>2, Zenon DEF Awaited
  <2>4. Switching' => Switching
    BY <2>1, SwitchingStays
  <2> QED BY <1>6, <2>1, <2>3, <2>4
<1>9. ~\E c \in Command : SwitchFails(c)
  BY Zenon DEF SwitchFails, FailCameraCommand
<1>10. ~AcknowledgementTimeout
  BY Zenon DEF AcknowledgementTimeout
<1>11. Rest => handler'.at = "idle"
  BY SMT DEF Rest
<1>12. CASE PublishCamera
  <2> DEFINE command == handler.command
  <2>1. /\ device' = [device EXCEPT ![command] = "configuring"]
        /\ active /\ handler'.at = "idle"
        /\ UNCHANGED <<pending, builder, request, shot, selected, applied,
                       asked, known, reports>>
    BY <1>11, <1>12, Zenon DEF PublishCamera, FailCameraCommand
  <2>2. Switching /\ command \in Command
    BY <1>12, <2>1, PublishFinds DEF PublishCamera
  <2>3. \A c \in Command : Awaited(c)' => Awaited(c)
    <3> SUFFICES ASSUME NEW c \in Command, Awaited(c)' PROVE Awaited(c)
      OBVIOUS
    <3>1. device'[c] \in {"opening", "configuring"}
      BY <2>1, Zenon DEF Awaited
    <3>2. c = command \/ device[c] \in {"opening", "configuring"}
      BY <1>1, <2>1, <2>2, <3>1
    <3> QED BY <1>12, <3>2, Zenon DEF Awaited, PublishCamera
  <2> QED BY <1>6, <2>1, <2>2, <2>3
<1>13. CASE PublishSession
  <2> DEFINE command == handler.command
             target == asked[command].cameraId
  <2>1. /\ handler.at = "publishSession" /\ active /\ handler'.at = "idle"
        /\ device' = [device EXCEPT ![command] = "configured"]
        /\ selected' = target
        /\ builder' = Applying(asked[command], Unset(target))
        /\ request' = Repeating(builder', command)
        /\ UNCHANGED <<pending, shot, applied, asked, known, reports>>
    BY <1>11, <1>13, Zenon DEF PublishSession, FailCameraCommand, SetRepeating
  <2>2. command \in Command /\ pending = command /\ Between /\ Switching
    BY <2>1, PublishFinds
  <2>3. \A c \in Command : ~Awaited(c)'
    <3> SUFFICES ASSUME NEW c \in Command, Awaited(c)' PROVE FALSE
      OBVIOUS
    <3>1. device'[c] \in {"opening", "configuring"}
      BY <2>1, Zenon DEF Awaited
    <3>2. c # command /\ device[c] \in {"opening", "configuring"}
      BY <1>1, <2>1, <2>2, <3>1
    <3> QED BY <1>3, <2>1, <2>2, <3>2, Zenon DEF Awaited, SwitchBegins
  <2>4. /\ applied # None /\ Last.applied.cameraId = applied.cameraId
        /\ target # applied.cameraId
    BY <1>3, <2>1, <2>2, Zenon DEF SwitchGoesOn
  <2>5. Switched'
    BY <2>1, <2>2, <2>4, Zenon DEF Switched, Between
  <2>6. Last' = Last
    BY <2>1 DEF Last
  <2>7. SwitchBegins'
    BY <2>3, Zenon DEF SwitchBegins
  <2>8. SwitchGoesOn'
    BY <2>1, <2>2, <2>4, <2>5, <2>6, Zenon DEF SwitchGoesOn
  <2> QED BY <2>7, <2>8
<1>14. CASE TakeControl
  <2>1. /\ active
        /\ UNCHANGED <<device, pending, builder, request, shot, selected, applied,
                       asked, known>>
        /\ handler' = handler \/ handler' = [at |-> "apply", command |-> Head(commands)]
        /\ UNCHANGED reports \/ PublishState(Head(commands), TRUE)
    BY <1>14, Zenon DEF TakeControl
  <2>2. handler' = handler \/ handler'.at = "apply"
    BY <2>1, SMT
  <2>3. \A c \in Command : Awaited(c)' => Awaited(c)
    BY <2>1, <2>2, Zenon DEF Awaited
  <2>4. Switching' => Switching
    BY <2>1, SwitchingStays
  <2>5. CASE UNCHANGED reports
    BY <1>6, <2>1, <2>3, <2>4, <2>5
  <2>6. CASE PublishState(Head(commands), TRUE) /\ ~UNCHANGED reports
    <3>1. /\ applied # None
          /\ reports' = Append(reports, Published(selected, Head(commands), TRUE))
      BY <2>6, Zenon DEF PublishState, PublishStateOf
    <3>2. Published(selected, Head(commands), TRUE) \in ReportType
      <4>1. Head(commands) \in Command
        BY <1>14, HeadTail DEF TakeControl, CInv, IInv, Types
      <4> QED BY <1>1, <3>1, <4>1, PublishedTyped, Zenon DEF Data
    <3>3. Last' = Published(selected, Head(commands), TRUE)
      BY <1>1, <3>1, <3>2, LastIsAppended
    <3>4. Last'.applied = applied
      BY <3>3, SMT DEF Published
    <3> QED BY <1>3, <2>1, <2>3, <2>4, <3>4, SwitchStays, Zenon
  <2> QED BY <2>1, <2>5, <2>6
<1>15. ASSUME active, pending = None, handler'.at = "idle", UNCHANGED device,
              ~Switching'
       PROVE  SwitchBegins' /\ SwitchGoesOn'
  <2>1. \A c \in Command : ~Awaited(c)'
    BY <1>4, <1>15, Zenon DEF Awaited
  <2> QED BY <1>5, <1>15, <2>1
<1>16. CASE Apply
  <2>1. /\ handler.at = "apply" /\ active /\ handler'.at = "idle"
        /\ UNCHANGED device
        /\ pending' = pending \/ pending' = handler.command
    BY <1>11, <1>16, Zenon DEF Apply, ApplyCurrent, Refuse
  <2>2. pending = None /\ device[handler.command] = "none"
    BY <2>1, ApplyFinds DEF Unused
  <2>3. ~Switching'
    BY <2>1, <2>2 DEF Switching
  <2> QED BY <1>15, <2>1, <2>2, <2>3
<1>17. CASE SwitchCamera
  <2> DEFINE command == handler.command
             controls == asked[command]
  <2>1. /\ handler.at = "apply" /\ active /\ handler'.at = "idle"
        /\ NativeOK(controls) /\ controls.cameraId # selected
        /\ UNCHANGED <<selected, applied, known, asked>>
        /\ \/ UNCHANGED <<pending, device>>
           \/ /\ builder' = None /\ request' = None /\ shot' = None
              /\ pending' = command
              /\ device' = [ClosedCameras({camera}) EXCEPT ![command] = "opening"]
              /\ UNCHANGED reports
    BY <1>11, <1>17, Zenon DEF SwitchCamera, Refuse
  <2>2. /\ command \in Command /\ pending = None /\ applied # None
        /\ Agree /\ ~Switching
    BY <2>1, ApplyFinds
  <2>3. CASE UNCHANGED <<pending, device>>
    <3>1. ~Switching'
      BY <2>2, <2>3, SwitchingStays
    <3> QED BY <1>15, <2>1, <2>2, <2>3, <3>1
  <2>4. CASE /\ builder' = None /\ request' = None /\ shot' = None
             /\ pending' = command
             /\ device' = [ClosedCameras({camera}) EXCEPT ![command] = "opening"]
             /\ UNCHANGED reports
    <3>1. \A c \in Command : Awaited(c)' => c = command
      <4> SUFFICES ASSUME NEW c \in Command, Awaited(c)', c # command PROVE FALSE
        OBVIOUS
      <4>1. device'[c] \in {"opening", "configuring"}
        BY <2>1, Zenon DEF Awaited
      <4>2. device'[c] = device[c] \/ device'[c] = "closed"
        BY <1>1, <2>4 DEF ClosedCameras
      <4>3. device[c] \in {"opening", "configuring"}
        BY <4>1, <4>2
      <4> QED BY <1>4, <2>1, <2>2, <4>3, Zenon DEF Awaited
    <3>2. selected = applied.cameraId /\ selected = Last.applied.cameraId
      BY <2>2 DEF Agree, CameraShown
    <3>3. Between'
      BY <2>1, <2>4, <3>2, Zenon DEF Between
    <3>4. SwitchBegins'
      BY <2>4, <3>1, <3>3, Zenon DEF SwitchBegins
    <3>5. Last' = Last
      BY <2>1, <2>4 DEF Last
    <3>6. controls.cameraId # selected
      BY <2>1, Zenon
    <3>7. SwitchGoesOn'
      BY <2>1, <2>2, <2>4, <3>2, <3>3, <3>5, <3>6, Zenon DEF SwitchGoesOn
    <3> QED BY <3>4, <3>7
  <2> QED BY <2>1, <2>3, <2>4
<1>18. CASE CaptureCompleted
  <2>1. /\ active /\ shot # None
        /\ UNCHANGED <<device, handler>>
        /\ \/ pending # None /\ shot.tag = pending /\ pending' = None
           \/ ~(pending # None /\ shot.tag = pending) /\ pending' = pending
    BY <1>18, Zenon DEF CaptureCompleted, Completes, IsAcknowledgement
  <2>2. ~Between
    BY <2>1 DEF Between
  <2>3. \A c \in Command : ~Awaited(c)'
    BY <1>3, <2>1, <2>2, Zenon DEF Awaited, SwitchBegins
  <2>4. ~Switching'
    <3> SUFFICES ASSUME Switching' PROVE FALSE
      OBVIOUS
    <3>1. /\ pending' = pending /\ Switching /\ shot.tag # pending
      BY <2>1, Zenon DEF Switching
    <3>2. Switched
      BY <1>3, <2>1, <2>2, <3>1 DEF SwitchGoesOn
    <3>3. \E zoom : shot = [request EXCEPT !.zoom = zoom]
      BY <2>1, <3>2, Zenon DEF Switched
    <3>4. request = Repeating(builder, pending) /\ request \in ShotType \cup {None}
      BY <1>1, <3>2 DEF Switched, Data
    <3>5. request.tag = pending /\ DOMAIN request = {"zoom", "exposure", "torch", "fps", "tag"}
      BY <3>4, SMT DEF Repeating
    <3>6. shot.tag = request.tag
      BY <3>3, <3>5
    <3> QED BY <3>1, <3>5, <3>6
  <2> QED BY <1>5, <2>3, <2>4
<1>19. CASE TakeUpRequest
  <2>1. /\ active /\ request # None
        /\ UNCHANGED <<device, handler, pending, selected, builder, applied, request>>
        /\ UNCHANGED <<asked, known, reports>>
    BY <1>19, Zenon DEF TakeUpRequest
  <2>2. \A c \in Command : ~Awaited(c)'
    <3>1. ~Between
      BY <2>1 DEF Between
    <3> QED BY <1>3, <2>1, <3>1, Zenon DEF Awaited, SwitchBegins
  <2>3. SwitchGoesOn'
    <3> SUFFICES ASSUME Switching'
                 PROVE  /\ applied' # None
                        /\ Last'.applied.cameraId = applied'.cameraId
                        /\ asked'[pending'].cameraId # applied'.cameraId
                        /\ Switched'
      BY Zenon DEF SwitchGoesOn
    <3>1. Last' = Last
      BY <2>1 DEF Last
    <3>2. Switching
      BY <2>1, SwitchingStays
    <3>3. /\ applied # None /\ Last.applied.cameraId = applied.cameraId
          /\ asked[pending].cameraId # applied.cameraId
          /\ Switched
      BY <1>3, <2>1, <3>2, Zenon DEF SwitchGoesOn, Between
    <3>4. shot # None => shot.zoom \in {request.zoom, Thousand}
      <4> SUFFICES ASSUME shot # None PROVE shot.zoom \in {request.zoom, Thousand}
        OBVIOUS
      <4>1. PICK zoom \in {request.zoom, Thousand} :
              shot = [request EXCEPT !.zoom = zoom]
        BY <3>3, Zenon DEF Switched
      <4>2. request \in ShotType
        BY <1>1, <2>1 DEF Data
      <4>3. zoom \in Int
        BY <4>2, SMT DEF ShotType, Thousand
      <4>4. shot.zoom = zoom
        BY <4>1, <4>2, <4>3, TakingUp
      <4> QED BY <4>4
    <3>5. \E zoom \in {request.zoom, Thousand} : shot' = [request EXCEPT !.zoom = zoom]
      BY <1>19, <3>4, Zenon DEF TakeUpRequest
    <3>6. Switched'
      BY <2>1, <3>3, <3>5, Zenon DEF Switched
    <3> QED BY <2>1, <3>1, <3>3, <3>6, Zenon
  <2> QED BY <2>2, <2>3, Zenon DEF SwitchBegins
<1>20. ASSUME NEW c \in Command, NEW controls \in Requests,
              CameraControl(c, controls)
       PROVE  SwitchBegins' /\ SwitchGoesOn'
  <2>1. /\ active
        /\ UNCHANGED <<device, handler, pending, builder, request, shot, selected,
                       applied, known, reports>>
    BY <1>20, Zenon DEF CameraControl
  <2>2. pending # c
    BY <1>20, Zenon DEF CameraControl, SInv, UsedOnce, Unused
  <2>3. pending # None => asked'[pending] = asked[pending]
    BY <1>1, <1>20, <2>2, SMT DEF CameraControl, Data
  <2>4. \A d \in Command : Awaited(d)' => Awaited(d)
    BY <2>1, Zenon DEF Awaited
  <2>5. Last' = Last /\ (Switching' => Switching)
    BY <2>1, SwitchingStays DEF Last
  <2> QED BY <1>3, <2>1, <2>3, <2>4, <2>5, SwitchStays, Zenon
<1>21. CASE CameraState
  <2>1. /\ active
        /\ UNCHANGED <<device, handler, pending, builder, request, shot, selected,
                       applied, asked>>
    BY <1>21, Zenon DEF CameraState
  <2>2. \A d \in Command : Awaited(d)' => Awaited(d)
    BY <2>1, Zenon DEF Awaited
  <2>3. Last'.applied = Last.applied
    BY <1>1, <1>21, LastIsRead
  <2>4. Switching' => Switching
    BY <2>1, SwitchingStays
  <2> QED BY <1>3, <2>1, <2>2, <2>3, <2>4, SwitchStays, Zenon
<1>22. ~Overtaken
  BY OvertakenEnds
<1> QED
  BY <1>2, <1>7, <1>8, <1>9, <1>10, <1>12, <1>13, <1>14, <1>16, <1>17, <1>18,
     <1>19, <1>20, <1>21, <1>22, QuietSteps, Zenon
  DEF Next, LooperStep, ServiceStep, Overtaken

\* A capture that starts has shown nothing, and nothing was asked of it.
LEMMA StateInit == Init => SInv
<1> SUFFICES ASSUME Init PROVE SInv
  OBVIOUS
<1> USE DEF Init
<1>1. /\ \A c \in Command : device[c] = "none" /\ op[c] = "none"
      /\ handler.at = "idle" /\ at["run"] = "acquire"
  <2>1. \A c \in Command : device[c] = "none" /\ op[c] = "none"
    BY DEF Device
  <2>2. handler.at = "idle" /\ at["run"] = "acquire"
    BY SMT DEF Thread
  <2> QED BY <2>1, <2>2
<1>2. DOMAIN commands = {} /\ DOMAIN reports = {}
  BY SMT
<1>3. UsedOnce
  <2>1. \A c \in Command : Unused(c)
    BY <1>1, Nones, Zenon DEF Unused
  <2>2. \A c \in Command : ~ReportedFor(c)
    BY <1>2, Zenon DEF ReportedFor
  <2> QED BY <1>1, <1>2, <2>1, <2>2, Zenon DEF UsedOnce
<1>4. Beginning
  BY <1>1, Zenon DEF Beginning
<1>5. SaidIsSound
  BY Zenon DEF SaidIsSound
<1>6. Chain
  BY <1>2, Zenon DEF Chain
<1>7. Shown
  BY Zenon DEF Shown
<1>8. SwitchShown
  BY <1>1, Zenon DEF SwitchShown, SwitchBegins, SwitchGoesOn, Switching, Awaited
<1> QED BY <1>3, <1>4, <1>5, <1>6, <1>7, <1>8 DEF SInv

\* What the service, the streamer and the camera take for the camera's state
\* agrees, for any cameras and controls.
THEOREM StateInvariant == Spec => [](CInv /\ SInv)
<1>1. CInv /\ SInv /\ [Next]_vars => SInv'
  <2> SUFFICES ASSUME CInv, SInv, [Next]_vars PROVE SInv'
    OBVIOUS
  <2>1. CASE UNCHANGED vars
    <3>1. Quiet
      BY <2>1, QuietSteps
    <3> QED BY <3>1, QuietKept
  <2>2. CASE Next
    <3>1. UsedOnce'
      BY <2>2, UsedOnceKept DEF SInv
    <3> QED
      BY <2>2, <3>1, BeginningKept, SaidKept, ChainKept, ShownKept, SwitchKept,
         Zenon
      DEF SInv
  <2> QED BY <2>1, <2>2
<1> QED BY <1>1, StateInit, ControlInvariant, PTL DEF Spec

\* What a sound state offers is one that the service's own test accepts.
LEMMA SoundIsOK ==
  ASSUME NEW id \in CameraId, NEW state \in AppliedType, Sound(state),
         state.cameraId = id
  PROVE  AppliedOK(Offered(state, Capabilities(id)), Capabilities(id))
<1> DEFINE caps == Capabilities(id)
           offered == Offered(state, caps)
           mode30 == [width |-> 1280, height |-> 720, fps |-> 30 * Thousand]
<1>1. /\ caps.zoom = Info[id].zoom /\ caps.exposure = Info[id].exposure
      /\ caps.torch = Info[id].torch /\ caps.screenDimSupported = TRUE
      /\ DOMAIN caps.cameras = DOMAIN Supported
      /\ \A i \in DOMAIN Supported :
           /\ caps.cameras[i].id = Supported[i]
           /\ caps.cameras[i].modes = {mode30}
  BY SMT DEF Capabilities
<1>2. DOMAIN state = {"cameraId", "width", "height", "fps", "zoom", "exposure",
                      "torch", "previewMirrored", "screenDimmed"}
  BY SMT DEF AppliedType
<1>3. /\ offered.cameraId = id /\ offered.width = 1280 /\ offered.height = 720
      /\ offered.fps = 30 * Thousand
      /\ offered.zoom = IF caps.zoom = None THEN None ELSE state.zoom
      /\ offered.exposure = IF caps.exposure = None THEN None ELSE state.exposure
      /\ offered.torch = state.torch
  BY <1>2, SMT DEF Offered, Sound
<1>4. FormatOK(offered) /\ FormatOK(mode30)
  <2>1. /\ mode30.width = 1280 /\ mode30.height = 720
        /\ mode30.fps = 30 * Thousand
    BY SMT
  <2> HIDE DEF offered, mode30
  <2> QED
    BY <1>3, <2>1, SMT
    DEF FormatOK, WidthOK, HeightOK, PixelsOK, FpsOK, Thousand
<1> HIDE DEF caps, offered, mode30
<1>5. CapabilitiesOK(caps)
  <2>1. \A i, j \in DOMAIN caps.cameras :
          caps.cameras[i].id = caps.cameras[j].id => i = j
    BY <1>1, CamerasOK DEF CamerasOK
  <2>2. \A c \in CamerasOf(caps) : \A mode \in c.modes : FormatOK(mode)
    BY <1>1, <1>4, Zenon DEF CamerasOf
  <2>3. RangeOK(Info[id].zoom) /\ RangeOK(Info[id].exposure)
    <3>1. Info[id] \in InfoType
      BY DataOK DEF DataOK
    <3>2. /\ Info[id].zoom \in RangeType \cup {None}
          /\ Info[id].exposure \in RangeType \cup {None}
      BY <3>1, SMT DEF InfoType
    <3>3. /\ Info[id].zoom # None =>
               Contains(Info[id].zoom, Thousand) /\ Info[id].zoom.step >= 0
          /\ Info[id].exposure # None =>
               Contains(Info[id].exposure, 0) /\ Info[id].exposure.step > 0
      BY CamerasOK DEF CamerasOK
    <3>4. \A range \in RangeType : /\ range.min \in Int /\ range.max \in Int
                                   /\ range.step \in Int
      BY SMT DEF RangeType
    <3> QED BY <3>2, <3>3, <3>4, SMT DEF RangeOK, Contains, Thousand
  <2>4. RangeOK(caps.zoom) /\ RangeOK(caps.exposure)
    BY <1>1, <2>3, Zenon
  <2> QED BY <2>1, <2>2, <2>4 DEF CapabilitiesOK
<1>6. \E c \in CamerasOf(caps) : c.id = offered.cameraId
  <2>1. PICK i \in DOMAIN Supported : Supported[i] = id
    BY Zenon DEF CameraId
  <2>2. caps.cameras[i].id = id
    BY <1>1, <2>1, Zenon
  <2>3. caps.cameras[i] \in CamerasOf(caps)
    <3>1. i \in DOMAIN caps.cameras
      BY <1>1, <2>1
    <3> QED BY <3>1 DEF CamerasOf
  <2>4. caps.cameras[i].id = offered.cameraId
    BY <1>3, <2>2
  <2> QED BY <2>3, <2>4
<1>7. /\ offered.zoom # None => Contains(caps.zoom, offered.zoom)
      /\ offered.exposure # None => Contains(caps.exposure, offered.exposure)
      /\ offered.torch => caps.torch
  BY <1>1, <1>3 DEF Sound, Within
<1>8. offered.screenDimmed => caps.screenDimSupported
  BY <1>1, Zenon
<1>9. AppliedOK(offered, caps)
  BY <1>4, <1>5, <1>6, <1>7, <1>8, Zenon DEF AppliedOK
<1> QED BY <1>9 DEF caps, offered

\* Between two controls the service knows what the camera does, and that it is
\* a state the camera can be in: no refused, late or half-done control has
\* changed the camera in silence (captureResults, publishState,
\* rebuildConfirmedRequest, applyControls, switchCamera).
THEOREM CameraIsKnown == Spec => []KnowsTheCamera
<1>1. CInv /\ SInv => KnowsTheCamera
  <2> SUFFICES ASSUME CInv, SInv, QuietCapture
               PROVE  /\ known.caps = Capabilities(selected)
                      /\ AppliedOK(Offered(known.applied, known.caps), known.caps)
                      /\ \A field \in DOMAIN Now \ {"fps", "zoom"} :
                           known.applied[field] = Now[field]
                      /\ Restorable(selected) =>
                           SameZoom(known.applied.zoom, Now.zoom)
    BY DEF KnowsTheCamera
  <2>1. /\ active /\ pending = None /\ known # None /\ reports = <<>>
        /\ shot # None /\ selected \in CameraId /\ shot \in ShotType
    BY DEF QuietCapture, CInv, Data
  <2>2. applied # None /\ ~Switching /\ Last = known
    BY <2>1 DEF CInv, AppliedFirst, Switching, Last
  <2>3. Agree
    BY <2>1, <2>2 DEF SInv, Shown
  <2>4. known.applied \in AppliedType /\ Sound(known.applied)
    BY <2>1, <2>2 DEF SInv, SaidIsSound
  <2>5. /\ known.applied.cameraId = selected
        /\ known.caps = Capabilities(selected)
    BY <2>1, <2>2, <2>3 DEF Agree, CameraShown
  <2>6. AppliedOK(Offered(known.applied, known.caps), known.caps)
    BY <2>1, <2>4, <2>5, SoundIsOK
  <2>7. \A level \in Levels : shot[level] = known.applied[level]
    BY <2>1, <2>2, <2>3, Zenon DEF Agree, LevelsShown
  <2>8. dimmed = known.applied.screenDimmed
    BY <2>1, <2>2, <2>3, Zenon DEF Agree, ScreenShown, Wanted, AskedFor
  <2>9. \A field \in DOMAIN Now \ {"fps", "zoom"} : known.applied[field] = Now[field]
    <3>1. DOMAIN Now = {"cameraId", "width", "height", "fps", "zoom", "exposure",
                        "torch", "previewMirrored", "screenDimmed"}
      BY SMT DEF Now
    <3>2. /\ Now.cameraId = known.applied.cameraId
          /\ Now.width = known.applied.width
          /\ Now.height = known.applied.height
          /\ Now.previewMirrored = known.applied.previewMirrored
          /\ Now.screenDimmed = known.applied.screenDimmed
      <4>1. /\ Now.cameraId = selected /\ Now.screenDimmed = dimmed
            /\ Now.width = 1280 /\ Now.height = 720 /\ Now.previewMirrored = FALSE
        BY NowSays
      <4>2. /\ known.applied.width = 1280 /\ known.applied.height = 720
            /\ known.applied.previewMirrored = FALSE
        BY <2>4 DEF Sound
      <4>3. known.applied.previewMirrored \in BOOLEAN /\ Now.previewMirrored \in BOOLEAN
        BY <2>4, SMT DEF AppliedType, Now
      <4>4. Now.previewMirrored = known.applied.previewMirrored
        BY <4>1, <4>2, <4>3, SMT
      <4>5. /\ Now.cameraId = known.applied.cameraId
            /\ Now.screenDimmed = known.applied.screenDimmed
        BY <2>5, <2>8, <4>1
      <4>6. Now.width = known.applied.width /\ Now.height = known.applied.height
        BY <4>1, <4>2
      <4> QED BY <4>4, <4>5, <4>6, Zenon
    <3>3. \A level \in Levels : known.applied[level] = Now[level]
      <4>1. \A level \in Levels : Now[level] = shot[level]
        BY NowSays
      <4> QED BY <2>7, <4>1, Zenon
    <3> QED BY <3>1, <3>2, <3>3 DEF Levels
  <2>10. ASSUME Restorable(selected)
         PROVE  SameZoom(known.applied.zoom, Now.zoom)
    <3>1. Together({known.applied.zoom, applied.zoom, builder.zoom, request.zoom,
                    shot.zoom})
      BY <2>1, <2>2, <2>3, <2>10, Zenon DEF Agree, RestStays, ZoomShown, AskedFor
    <3>2. SameZoom(known.applied.zoom, shot.zoom)
      BY <3>1, TogetherSame
    <3> QED BY <3>2, NowSays
  <2> QED BY <2>5, <2>6, <2>9, <2>10
<1> QED BY <1>1, StateInvariant, PTL

\* A control that succeeded was done, and nothing that it did not ask for was
\* done to the same camera with it (is_reflected_by, appliedControlError,
\* applyCurrentCameraControls, ServiceRuntime::camera_control).
THEOREM OnlyAskedIsDone == Spec => OnlyWhatWasAskedIsDone
<1>1. CInv /\ SInv /\ [Next]_vars =>
        [\A c \in Command : Succeeds(c) =>
           Done(asked[c], known.applied, known'.applied)]_vars
  <2> SUFFICES ASSUME CInv, SInv, [Next]_vars, NEW c \in Command, Succeeds(c)
               PROVE  Done(asked[c], known.applied, known'.applied)
    OBVIOUS
  <2>1. /\ op \in [Command -> OpState] /\ reports \in Seq(ReportType)
        /\ op[c] = "pending" /\ op'[c] = "succeeded"
    BY DEF Succeeds, CInv, Data
  <2>2. CASE CameraState
    <3>1. /\ known' = [caps |-> reports[1].caps, applied |-> reports[1].applied]
          /\ Head(reports) = reports[1] /\ 1 \in DOMAIN reports
      BY <2>1, <2>2, LastIsRead
    <3>2. op' = [d \in Command |->
                   IF d = reports[1].command /\ op[d] = "pending"
                   THEN IF reports[1].error THEN "failed" ELSE "succeeded"
                   ELSE op[d]]
      BY <2>2, <3>1, Zenon DEF CameraState
    <3>3. reports[1].command = c /\ ~reports[1].error
      BY <2>1, <3>2
    <3>4. Done(asked[c], Said(1).applied, reports[1].applied)
      BY <3>1, <3>3, Zenon DEF SInv, Chain
    <3>5. Said(1) = known /\ known'.applied = reports[1].applied
      BY <3>1, SMT DEF Said
    <3> QED BY <3>4, <3>5
  <2>3. ASSUME NEW d \in Command, NEW controls \in Requests,
               CameraControl(d, controls)
        PROVE  FALSE
    BY <2>1, <2>3, SMT DEF CameraControl
  <2>4. ASSUME UNCHANGED op PROVE FALSE
    BY <2>1, <2>4
  <2>5. ~(RunStep \/ Stop \/ HangUp \/ \E t \in Thread : EndStep(t))
    <3>1. Quiet => UNCHANGED op
      BY DEF Quiet, service
    <3> QED
      BY <2>4, <3>1, QuietSteps, Zenon DEF StartRepeating, service
  <2>6. ~(LooperStep \/ TakeUpRequest)
    BY <2>4, Zenon
    DEF LooperStep, CameraOpened, SessionConfigured, TerminalFailure,
        SwitchOpened, SwitchConfigured, SwitchFails, PublishCamera,
        PublishSession, TakeControl, Apply, SwitchCamera,
        AcknowledgementTimeout, CaptureCompleted, CaptureOvertaken,
        TakeUpRequest, service, looper
  <2>7. ~UNCHANGED vars
    BY <2>4, Zenon DEF vars, service
  <2> QED BY <2>2, <2>3, <2>5, <2>6, <2>7, Zenon DEF Next, ServiceStep
<1> QED BY <1>1, StateInvariant, PTL DEF Spec, OnlyWhatWasAskedIsDone
================================================================================
