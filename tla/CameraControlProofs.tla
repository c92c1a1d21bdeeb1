-------------------------- MODULE CameraControlProofs --------------------------
(***************************************************************************)
(* Proofs about the controls of CameraStreamer, for any cameras and        *)
(* controls: every variable has its type, and no control is lost while the *)
(* capture goes on.                                                        *)
(*                                                                         *)
(* A control is followed from the queue through the looper and the camera  *)
(* to the report that names it (Followed).  Every report shows what is     *)
(* applied, so that something has to be applied before a control can come: *)
(* the service learns what a camera can do from the first report.          *)
(***************************************************************************)
EXTENDS CameraStreamerProofs

RunPlace ==
  {"acquire", "publish", "open", "opening", "configure", "configuring",
   "repeat", "drain", "write", "invalidate", "gate", "terminal", "take",
   "close", "quit", "end"}
StopPlace ==
  {"idle", "invalidate", "gate", "hangup", "terminal", "take", "close", "quit",
   "end"}
OpState == {"none", "pending", "succeeded", "failed"}
KnownType == [caps : CapsType, applied : AppliedType]

Flags ==
  /\ active \in BOOLEAN /\ gate \in BOOLEAN /\ terminal \in BOOLEAN
  /\ wasActive \in BOOLEAN /\ statePublished \in BOOLEAN

Places ==
  /\ at["run"] \in RunPlace /\ at["stop"] \in StopPlace
  /\ records \in 0 .. MaxRecords

\* What is applied, set, told to the camera and known of it.
Data ==
  /\ selected \in CameraId
  /\ builder \in Settings \cup {None}
  /\ request \in ShotType \cup {None} /\ shot \in ShotType \cup {None}
  /\ applied \in AppliedType \cup {None} /\ dimmed \in BOOLEAN
  /\ known \in KnownType \cup {None}
  /\ asked \in [Command -> Requests \cup {NoControls}]
  /\ op \in [Command -> OpState]
  /\ reports \in Seq(ReportType)

\* Whatever comes from a control comes after the first result.
AppliedFirst ==
  applied = None =>
    /\ known = None /\ reports = <<>> /\ commands = <<>>
    /\ Idle /\ pending = None
    /\ \A c \in Command : device[c] = "none"

Queued(c) == \E i \in DOMAIN commands : commands[i] = c
ReportedFor(c) == \E i \in DOMAIN reports : reports[i].command = c

\* A control that the service waits for is somewhere.
Followed ==
  active =>
    /\ handler.at = "apply" => pending = None
    /\ \A c \in Command : op[c] = "pending" =>
         \/ Queued(c) \/ ReportedFor(c) \/ pending = c
         \/ handler.at = "apply" /\ handler.command = c

\* A control whose camera is being switched to names that camera, and a control
\* that is under way cannot be asked for again.
Named ==
  /\ \A c \in Command :
       /\ device[c] # "none" => asked[c].cameraId \in CameraId
       /\ Queued(c) \/ device[c] # "none" \/ (~Idle /\ handler.command = c)
            => op[c] # "none"
       /\ camera = c \/ (\E t \in Thread : c \in owned[t]) => device[c] # "none"
  /\ handler.at \in {"publishCamera", "publishSession"} =>
       device[handler.command] # "none"

\* A queue keeps the type of what is put into it, ...
LEMMA AppendTyped ==
  ASSUME NEW S, NEW q \in Seq(S), NEW e \in S
  PROVE  Append(q, e) \in Seq(S)
BY SMT

\* ... and of what is taken out of it.
LEMMA TailTyped ==
  ASSUME NEW S, NEW q \in Seq(S), q # <<>>
  PROVE  Head(q) \in S /\ Tail(q) \in Seq(S)
BY SMT

\* What is taken from the front of a queue leaves everything else in it.
LEMMA TailHas ==
  ASSUME NEW S, NEW q \in Seq(S), q # <<>>, NEW i \in DOMAIN q, q[i] # Head(q)
  PROVE  \E j \in DOMAIN Tail(q) : Tail(q)[j] = q[i]
<1>1. i - 1 \in DOMAIN Tail(q) /\ Tail(q)[i - 1] = q[i]
  BY SMT
<1> QED BY <1>1

\* What is put at its end leaves everything in it.
LEMMA AppendHas ==
  ASSUME NEW S, NEW q \in Seq(S), NEW e \in S
  PROVE  /\ \A i \in DOMAIN q :
              i \in DOMAIN Append(q, e) /\ Append(q, e)[i] = q[i]
         /\ \E i \in DOMAIN Append(q, e) : Append(q, e)[i] = e
<1>1. Len(q) + 1 \in DOMAIN Append(q, e) /\ Append(q, e)[Len(q) + 1] = e
  BY SMT
<1>2. \A i \in DOMAIN q : i \in DOMAIN Append(q, e) /\ Append(q, e)[i] = q[i]
  BY SMT
<1> QED BY <1>1, <1>2

\* A control that asks for nothing is one.
LEMMA NothingTyped == NoControls \in ControlsType
BY SMT DEF NoControls, ControlsType

\* What a camera can do is what some camera can do.
LEMMA CapsTyped == \A id \in CameraId : Capabilities(id) \in CapsType
BY DEF CapsType

\* What is known of each camera.
LEMMA InfoTyped ==
  ASSUME NEW id \in CameraId
  PROVE  Info[id] \in InfoType
BY DataOK DEF DataOK

\* TEMPLATE_RECORD is a request, ...
LEMMA UnsetTyped ==
  ASSUME NEW id \in CameraId
  PROVE  Unset(id) \in Settings
BY InfoTyped, SMT DEF Unset, Settings, InfoType, RangeType, Thousand

\* ... so is one with what was asked for, ...
LEMMA ApplyingTyped ==
  ASSUME NEW controls \in ControlsType, NEW settings \in Settings
  PROVE  Applying(controls, settings) \in Settings
<1>1. DOMAIN settings = {"zoom", "exposure", "torch", "fps"}
  BY SMT DEF Settings
<1> QED BY <1>1, SMT DEF Applying, Settings, ControlsType

\* ... and one that was done in part, ...
LEMMA HalfDoneIs ==
  ASSUME asked[handler.command] \in ControlsType, HalfDone
  PROVE  \E part \in ControlsType :
           SettingsOK(part, selected) /\ builder' = Applying(part, builder)
<1>1. PICK set :
        LET part == [field \in DOMAIN NoControls |->
                       IF field \in set THEN asked[handler.command][field] ELSE None]
        IN  SettingsOK(part, selected) /\ builder' = Applying(part, builder)
  BY Zenon DEF HalfDone
<1> DEFINE part == [field \in DOMAIN NoControls |->
                      IF field \in set THEN asked[handler.command][field] ELSE None]
<1>2. part \in ControlsType
  BY SMT DEF ControlsType, NoControls
<1> QED BY <1>1, <1>2

\* ... and with the tag of a command.
LEMMA RepeatingTyped ==
  ASSUME NEW settings \in Settings, NEW tag \in Command \cup {None}
  PROVE  Repeating(settings, tag) \in ShotType
BY SMT DEF Repeating, Settings, ShotType

\* A result of the camera is a state that can be reported.
LEMMA NowTyped ==
  ASSUME selected \in CameraId, shot \in ShotType, dimmed \in BOOLEAN
  PROVE  Now \in AppliedType
BY SMT DEF Now, ShotType, AppliedType

\* publishState writes a report, ...
LEMMA PublishedTyped ==
  ASSUME NEW id \in CameraId, NEW command \in Command \cup {None},
         NEW error \in BOOLEAN, applied \in AppliedType
  PROVE  Published(id, command, error) \in ReportType
BY CapsTyped, SMT DEF Published, ReportType

\* ... also together with the result that it comes from.
LEMMA ReportedTyped ==
  ASSUME NEW command \in Command \cup {None}, NEW error \in BOOLEAN,
         selected \in CameraId, Now \in AppliedType
  PROVE  /\ Reported(command, error) \in ReportType
         /\ Reported(command, error).command = command
BY CapsTyped, SMT DEF Reported, Published, ReportType

\* publishState reports a failure, or nothing when nothing is applied.
LEMMA StateTyped ==
  ASSUME Data, NEW id \in CameraId, NEW command \in Command \cup {None},
         PublishStateOf(id, command, TRUE)
  PROVE  /\ reports' \in Seq(ReportType)
         /\ IF active /\ applied # None
            THEN reports' = Append(reports, Published(id, command, TRUE))
            ELSE reports' = reports
<1>1. CASE active /\ applied # None
  <2>1. reports' = Append(reports, Published(id, command, TRUE))
    BY <1>1, Zenon DEF PublishStateOf
  <2>2. Published(id, command, TRUE) \in ReportType
    BY <1>1, PublishedTyped, Zenon DEF Data
  <2>3. reports' \in Seq(ReportType)
    BY <2>1, <2>2, AppendTyped, Zenon DEF Data
  <2> QED BY <1>1, <2>1, <2>3
<1>2. CASE ~(active /\ applied # None)
  BY <1>2, Zenon DEF Data, PublishStateOf
<1> QED BY <1>1, <1>2

\* The flags stay flags.
LEMMA FlagsKept == Flags /\ [Next]_vars => Flags'
<1> SUFFICES ASSUME Flags, [Next]_vars PROVE Flags'
  OBVIOUS
<1> USE DEF life, wire, threads, held, looper, service, Flags
<1>1. CASE RunStep
  BY <1>1, Zenon
  DEF RunStep, Finally, Acquire, Publish, OpenCamera, CameraAwaited,
      CreateSession, SessionAwaited, StartRepeating, Drain, WriteMediaRecord
<1>2. CASE Stop \/ HangUp
  BY <1>2, Zenon DEF Stop, HangUp
<1>3. ASSUME NEW t \in Thread, EndStep(t) PROVE Flags'
  <2>1. CASE Invalidate(t)
    BY <2>1, Zenon DEF Invalidate, EndsCapture
  <2>2. CASE SendTerminalStop(t)
    <3>1. (terminal \/ t = "run" \/ wasActive \/ "output" \in fields) \in BOOLEAN
      OBVIOUS
    <3> QED BY <2>2, <3>1, Zenon DEF SendTerminalStop
  <2> QED BY <1>3, <2>1, <2>2, Zenon DEF EndStep, CloseGate, Take, Close, Quit
<1>4. CASE LooperStep
  <2>1. CASE TerminalFailure
    <3>1. (active /\ ~gate) \in BOOLEAN
      OBVIOUS
    <3> QED BY <2>1, <3>1, Zenon DEF TerminalFailure
  <2>2. CASE \E c \in Command : SwitchOpened(c) \/ SwitchConfigured(c)
    BY <2>2, Zenon DEF SwitchOpened, SwitchConfigured
  <2>3. CASE \E c \in Command : SwitchFails(c)
    BY <2>3, Zenon DEF SwitchFails, FailCameraCommand
  <2>4. CASE CaptureCompleted
    <3>1. \A e : (~e) \in BOOLEAN
      OBVIOUS
    <3> QED BY <2>4, <3>1, Zenon DEF CaptureCompleted, Completes
  <2>5. CASE \E t \in Thread : CaptureOvertaken(t)
    BY <2>5, Zenon DEF CaptureOvertaken, Completes, EndsCapture
  <2>6. CASE PublishCamera \/ PublishSession
    BY <2>6, Zenon DEF PublishCamera, PublishSession, FailCameraCommand
  <2>7. CASE CameraOpened \/ SessionConfigured \/ TakeControl \/ Apply
               \/ SwitchCamera \/ AcknowledgementTimeout
    BY <2>7, Zenon
    DEF CameraOpened, SessionConfigured, TakeControl, Apply, SwitchCamera,
        AcknowledgementTimeout
  <2> QED
    BY <1>4, <2>1, <2>2, <2>3, <2>4, <2>5, <2>6, <2>7 DEF LooperStep
<1>5. CASE TakeUpRequest \/ ServiceStep
  BY <1>5, Zenon DEF TakeUpRequest, ServiceStep, CameraControl, CameraState
<1>6. CASE UNCHANGED vars
  BY <1>6, Zenon DEF vars
<1> QED BY <1>1, <1>2, <1>3, <1>4, <1>5, <1>6 DEF Next

\* The threads stay on their ways, and records are not counted further.
LEMMA PlacesKept == Types /\ Places /\ [Next]_vars => Places'
<1> SUFFICES ASSUME Types, Places, [Next]_vars PROVE Places'
  OBVIOUS
<1> USE DEF life, wire, threads, held, looper, service, Places, Types, Goto,
            RunPlace, StopPlace, Thread
<1>1. CASE Finally \/ Acquire \/ Publish \/ OpenCamera \/ CameraAwaited
  BY <1>1, SMT DEF Finally, Acquire, Publish, OpenCamera, CameraAwaited
<1>2. CASE CreateSession \/ SessionAwaited \/ StartRepeating \/ Drain
  BY <1>2, SMT DEF CreateSession, SessionAwaited, StartRepeating, Drain
<1>3. CASE WriteMediaRecord
  BY <1>3, StreamerOK, SMT DEF WriteMediaRecord, StreamerOK
<1>4. CASE Stop \/ HangUp
  BY <1>4, SMT DEF Stop, HangUp
<1>5. ASSUME NEW t \in Thread, EndStep(t) PROVE Places'
  BY <1>5, SMT
  DEF EndStep, Invalidate, EndsCapture, CloseGate, SendTerminalStop, Take, Close, Quit
<1>6. ASSUME NEW t \in Thread, CaptureOvertaken(t) PROVE Places'
  BY <1>6, SMT DEF CaptureOvertaken, EndsCapture
<1>7. CASE LooperStep \/ TakeUpRequest
  BY <1>6, <1>7, Zenon
  DEF LooperStep, CameraOpened, SessionConfigured, TerminalFailure,
      SwitchOpened, SwitchConfigured, SwitchFails, PublishCamera,
      PublishSession, TakeControl, Apply, SwitchCamera,
      AcknowledgementTimeout, CaptureCompleted, TakeUpRequest
<1>8. CASE ServiceStep
  BY <1>8, Zenon DEF ServiceStep, CameraControl, CameraState
<1>9. CASE UNCHANGED vars
  BY <1>9, Zenon DEF vars
<1> QED
  BY <1>1, <1>2, <1>3, <1>4, <1>5, <1>7, <1>8, <1>9 DEF Next, RunStep

\* What is set, told, applied, known and reported keeps its type.
LEMMA DataKept ==
  IInv /\ AppliedFirst /\ Named /\ Flags /\ Data /\ [Next]_vars => Data'
<1> SUFFICES ASSUME IInv, AppliedFirst, Named, Flags, Data, [Next]_vars
             PROVE  Data'
  OBVIOUS
<1> USE DEF life, wire, threads, held, looper, service
<1>1. ASSUME UNCHANGED <<selected, builder, request, shot, applied, dimmed,
                         known, asked, op, reports>>
      PROVE  Data'
  BY <1>1, Zenon DEF Data
<1>2. ASSUME UNCHANGED <<selected, builder, request, shot, applied, known, asked,
                         op>>,
             dimmed' \in BOOLEAN, reports' \in Seq(ReportType)
      PROVE  Data'
  BY <1>2, Zenon DEF Data
<1>3. CASE StartRepeating
  <2>1. builder' \in Settings /\ request' = Repeating(builder', None)
    BY <1>3, UnsetTyped DEF StartRepeating, Data
  <2>2. request' \in ShotType
    BY <2>1, RepeatingTyped
  <2> QED BY <1>3, <2>1, <2>2, Zenon DEF StartRepeating, Data
<1>4. CASE RunStep /\ ~StartRepeating
  BY <1>1, <1>4, Zenon
  DEF RunStep, Finally, Acquire, Publish, OpenCamera, CameraAwaited,
      CreateSession, SessionAwaited, Drain, WriteMediaRecord
<1>5. CASE Stop \/ HangUp \/ \E t \in Thread : EndStep(t)
  BY <1>1, <1>5, Zenon
  DEF Stop, HangUp, EndStep, Invalidate, EndsCapture, CloseGate, SendTerminalStop, Take,
      Close, Quit
<1>6. CASE CameraOpened \/ SessionConfigured \/ TerminalFailure
  BY <1>1, <1>6, Zenon DEF CameraOpened, SessionConfigured, TerminalFailure
<1>7. ASSUME NEW c \in Command, SwitchOpened(c) \/ SwitchConfigured(c)
      PROVE  Data'
  BY <1>1, <1>7, Zenon DEF SwitchOpened, SwitchConfigured
<1>8. ASSUME NEW id \in CameraId, NEW c \in Command \cup {None},
             FailCameraCommand(id, c)
      PROVE  reports' \in Seq(ReportType)
  BY <1>8, StateTyped, Zenon DEF FailCameraCommand, Data
<1>9. applied # None /\ RestoreScreenDimmed => dimmed' \in BOOLEAN
  BY SMT DEF RestoreScreenDimmed, Data, AppliedType
<1>10. ASSUME NEW c \in Command, SwitchFails(c) PROVE Data'
  <2>1. applied # None
    BY <1>10 DEF SwitchFails, AppliedFirst
  <2>2. dimmed' \in BOOLEAN
    BY <1>9, <1>10, <2>1, Zenon DEF SwitchFails
  <2>3. reports' \in Seq(ReportType)
    BY <1>8, <1>10, Zenon DEF SwitchFails, Data
  <2> QED BY <1>2, <1>10, <2>2, <2>3, Zenon DEF SwitchFails
<1>11. ~Idle => applied # None /\ handler.command \in Command
  BY DEF AppliedFirst, IInv, Types
<1>12. CASE PublishCamera
  <2>1. ~Idle
    BY <1>12 DEF PublishCamera, Idle
  <2>2. dimmed' \in BOOLEAN /\ reports' \in Seq(ReportType)
    BY <1>8, <1>9, <1>11, <1>12, <2>1, Zenon DEF PublishCamera, Data
  <2> QED BY <1>2, <1>12, <2>2, Zenon DEF PublishCamera
<1>13. asked \in [Command -> ControlsType]
  BY DataOK, NothingTyped, SMT DEF Data, DataOK
<1>14. ASSUME NEW c \in Command PROVE asked[c] \in ControlsType
  BY <1>13
<1>15. CASE PublishSession
  <2>1. ~Idle
    BY <1>15 DEF PublishSession, Idle
  <2> DEFINE command == handler.command
             target == asked[command].cameraId
             settings == Applying(asked[command], Unset(target))
  <2>2. command \in Command /\ asked[command] \in ControlsType
    BY <1>11, <1>14, <2>1
  <2>3. target \in CameraId
    BY <1>15, <2>2 DEF PublishSession, Named
  <2>4. settings \in Settings
    BY <2>2, <2>3, UnsetTyped, ApplyingTyped
  <2>5. CASE /\ selected' = target /\ builder' = settings
             /\ SetRepeating(settings, command)
             /\ UNCHANGED <<dimmed, reports>>
    <3>1. request' \in ShotType
      BY <2>2, <2>4, <2>5, RepeatingTyped DEF SetRepeating
    <3> QED
      BY <1>15, <2>3, <2>4, <2>5, <3>1, Zenon DEF PublishSession, Data
  <2>6. CASE /\ RestoreScreenDimmed /\ FailCameraCommand(selected', command)
             /\ UNCHANGED request
             /\ \/ UNCHANGED <<selected, builder>>
                \/ selected' = target /\ builder' = settings
    <3>1. selected' \in CameraId /\ builder' \in Settings \cup {None}
      BY <2>3, <2>4, <2>6 DEF Data
    <3>2. dimmed' \in BOOLEAN /\ reports' \in Seq(ReportType)
      BY <1>8, <1>9, <1>11, <2>1, <2>6, <3>1, Zenon
    <3> QED BY <1>15, <2>6, <3>1, <3>2, Zenon DEF PublishSession, Data
  <2> QED BY <1>15, <2>5, <2>6, Zenon DEF PublishSession
<1>16. CASE TakeControl
  <2>1. Head(commands) \in Command
    BY <1>16, HeadTail DEF TakeControl, IInv, Types
  <2>2. reports' \in Seq(ReportType)
    BY <1>16, <2>1, StateTyped, Zenon DEF TakeControl, PublishState, Data
  <2> QED BY <1>2, <1>16, <2>2, Zenon DEF TakeControl, Data
<1>17. ASSUME NEW c \in Command, Dim(asked[c]) PROVE dimmed' \in BOOLEAN
  BY <1>14, <1>17, SMT DEF Dim, ControlsType, Data
<1>18. ASSUME NEW c \in Command, Refuse(c)
       PROVE  dimmed' \in BOOLEAN /\ reports' \in Seq(ReportType)
  BY <1>18, StateTyped, Zenon DEF Refuse, PublishState, Data
<1>19. CASE Apply
  <2>1. ~Idle
    BY <1>19 DEF Apply, Idle
  <2> DEFINE command == handler.command
             controls == asked[command]
  <2>2. /\ command \in Command /\ controls \in ControlsType
        /\ applied \in AppliedType
    BY <1>11, <1>14, <2>1 DEF Data
  <2>3. UNCHANGED <<selected, applied, shot, known, asked, op>>
    BY <1>19, Zenon DEF Apply
  <2>4. CASE Refuse(command) /\ UNCHANGED <<builder, request>>
    BY <1>2, <1>18, <2>2, <2>3, <2>4, Zenon
  <2>5. CASE builder # None /\ RebuildConfirmedRequest /\ Refuse(command)
    <3> DEFINE confirmed ==
                 [zoom |-> applied.zoom, exposure |-> applied.exposure,
                  torch |-> applied.torch, fps |-> 30 * Thousand]
    <3>1. confirmed \in Settings
      BY <2>2, SMT DEF AppliedType, Settings, Thousand
    <3>2. Repeating(confirmed, None) \in ShotType
      BY <3>1, RepeatingTyped
    <3>3. CASE builder # None /\ HalfDone /\ UNCHANGED request
      <4>1. builder' \in Settings
        BY <2>2, <3>3, HalfDoneIs, ApplyingTyped DEF Data
      <4> QED BY <1>18, <2>2, <2>3, <2>5, <3>3, <4>1, Zenon DEF Data
    <3>4. CASE ~(HalfDone /\ UNCHANGED request)
      <4>1. builder' \in Settings \cup {None} /\ request' \in ShotType \cup {None}
        BY <2>5, <3>1, <3>2, <3>4, Zenon
        DEF RebuildConfirmedRequest, SetRepeating, Data
      <4> QED BY <1>18, <2>2, <2>3, <2>5, <4>1, Zenon DEF Data
    <3> QED BY <2>5, <3>3, <3>4
  <2>6. CASE /\ builder # None /\ builder' = Applying(controls, builder)
             /\ Dim(controls) /\ SetRepeating(builder', command)
             /\ UNCHANGED reports
    <3>1. builder' \in Settings
      BY <2>2, <2>6, ApplyingTyped DEF Data
    <3>2. request' \in ShotType
      BY <2>2, <2>6, <3>1, RepeatingTyped DEF SetRepeating
    <3> QED BY <1>17, <2>2, <2>3, <2>6, <3>1, <3>2, Zenon DEF Data
  <2> QED BY <1>19, <2>4, <2>5, <2>6, Zenon DEF Apply, ApplyCurrent
<1>20. CASE SwitchCamera
  <2>1. ~Idle
    BY <1>20 DEF SwitchCamera, Idle
  <2> DEFINE command == handler.command
  <2>2. command \in Command
    BY <1>11, <2>1
  <2>3. dimmed' \in BOOLEAN /\ reports' \in Seq(ReportType)
    BY <1>17, <1>18, <1>20, <2>2, StateTyped, Zenon
    DEF SwitchCamera, PublishState, Data
  <2>4. /\ builder' \in Settings \cup {None}
        /\ request' \in ShotType \cup {None} /\ shot' \in ShotType \cup {None}
        /\ UNCHANGED <<selected, applied, known, asked, op>>
    BY <1>20, Zenon DEF SwitchCamera, Data
  <2> QED BY <2>3, <2>4, Zenon DEF Data
<1>21. CASE AcknowledgementTimeout
  <2>1. pending \in Command \cup {None}
    BY DEF IInv, Types
  <2>2. reports' \in Seq(ReportType)
    BY <1>21, <2>1, StateTyped, Zenon
    DEF AcknowledgementTimeout, PublishState, Data
  <2> QED BY <1>2, <1>21, <2>2, Zenon DEF AcknowledgementTimeout, Data
<1>22. CASE TakeUpRequest
  <2>1. shot' \in ShotType
    <3>1. request \in ShotType /\ shot \in ShotType \cup {None}
      BY <1>22 DEF TakeUpRequest, Data
    <3>2. PICK zoom \in {request.zoom,
                         IF shot = None THEN Thousand ELSE shot.zoom} :
            shot' = [request EXCEPT !.zoom = zoom]
      BY <1>22, Zenon DEF TakeUpRequest
    <3>3. zoom \in Int
      BY <3>1, <3>2, SMT DEF ShotType, Thousand
    <3> QED BY <3>1, <3>2, <3>3, SMT DEF ShotType
  <2> QED BY <1>22, <2>1, Zenon DEF TakeUpRequest, Data
<1>23. CASE CaptureCompleted
  <2>1. Now \in AppliedType
    BY <1>23, NowTyped, Zenon DEF CaptureCompleted, Completes, Data
  <2>2. pending \in Command \cup {None}
    BY DEF IInv, Types
  <2>3. \A e \in BOOLEAN, c \in Command \cup {None} :
          Append(reports, Reported(c, e)) \in Seq(ReportType)
    BY <2>1, ReportedTyped, AppendTyped, Zenon DEF Data
  <2>4. \A c : AppliedControlError(c, Now) \in BOOLEAN
    BY DEF AppliedControlError
  <2>5. reports' \in Seq(ReportType)
    BY <1>23, <2>2, <2>3, <2>4, Zenon DEF CaptureCompleted, Data
  <2> QED BY <1>23, <2>1, <2>5, Zenon DEF CaptureCompleted, Completes, Data
<1>24. ASSUME NEW t \in Thread, CaptureOvertaken(t) PROVE Data'
  <2>1. Now \in AppliedType
    BY <1>24, NowTyped, Zenon DEF CaptureOvertaken, Completes, Data
  <2> QED BY <1>24, <2>1, Zenon DEF CaptureOvertaken, Completes, Data
<1>25. ASSUME NEW c \in Command, NEW controls \in Requests,
              CameraControl(c, controls)
       PROVE  Data'
  <2>1. /\ asked' \in [Command -> Requests \cup {NoControls}]
        /\ op' \in [Command -> OpState]
    BY <1>25, SMT DEF CameraControl, Data, OpState
  <2> QED BY <1>25, <2>1, Zenon DEF CameraControl, Data
<1>26. CASE CameraState
  <2>1. Head(reports) \in ReportType /\ Tail(reports) \in Seq(ReportType)
    BY <1>26, TailTyped, Zenon DEF CameraState, Data
  <2>2. known' \in KnownType
    BY <1>26, <2>1, SMT DEF CameraState, ReportType, KnownType
  <2>3. op' \in [Command -> OpState]
    BY <1>26, SMT DEF CameraState, Data, OpState
  <2> QED BY <1>26, <2>1, <2>2, <2>3, Zenon DEF CameraState, Data
<1>27. CASE UNCHANGED vars
  BY <1>1, <1>27, Zenon DEF vars
<1> QED
  BY <1>3, <1>4, <1>5, <1>6, <1>7, <1>10, <1>12, <1>15, <1>16, <1>19, <1>20,
     <1>21, <1>22, <1>23, <1>24, <1>25, <1>26, <1>27, Zenon
  DEF Next, LooperStep, ServiceStep

\* Without a first result nothing comes from a control.
LEMMA AppliedFirstKept ==
  IInv /\ AppliedFirst /\ Named /\ Data /\ [Next]_vars => AppliedFirst'
<1> SUFFICES ASSUME IInv, AppliedFirst, Named, Data, [Next]_vars,
                    applied' = None
             PROVE  /\ known' = None /\ reports' = <<>> /\ commands' = <<>>
                    /\ Idle' /\ pending' = None
                    /\ \A c \in Command : device'[c] = "none"
  BY DEF AppliedFirst
<1> USE DEF life, wire, threads, held, looper, service
<1>1. ~CaptureCompleted /\ ~\E t \in Thread : CaptureOvertaken(t)
  BY DataOK, NowTyped, Zenon
  DEF CaptureCompleted, CaptureOvertaken, Completes, Data, DataOK
<1>2. applied = None
  BY <1>1, Zenon
  DEF Next, vars, RunStep, Finally, Acquire, Publish, OpenCamera, CameraAwaited,
      CreateSession, SessionAwaited, StartRepeating, Drain, WriteMediaRecord,
      Stop, HangUp, EndStep, Invalidate, EndsCapture, CloseGate, SendTerminalStop, Take,
      Close, Quit, LooperStep, CameraOpened, SessionConfigured,
      TerminalFailure, SwitchOpened, SwitchConfigured, SwitchFails,
      PublishCamera, PublishSession, TakeControl, Apply, SwitchCamera,
      AcknowledgementTimeout, TakeUpRequest, ServiceStep, CameraControl,
      CameraState
<1>3. /\ known = None /\ reports = <<>> /\ commands = <<>> /\ Idle
      /\ pending = None /\ \A c \in Command : device[c] = "none"
  BY <1>2 DEF AppliedFirst
<1>4. ASSUME UNCHANGED <<known, reports, commands, handler, pending>>,
             \A c \in Command : device'[c] = device[c]
      PROVE  /\ known' = None /\ reports' = <<>> /\ commands' = <<>> /\ Idle'
             /\ pending' = None /\ \A c \in Command : device'[c] = "none"
  BY <1>3, <1>4 DEF Idle
<1>5. "startup" \notin Command
  BY Names DEF Device
<1>6. CASE UNCHANGED <<known, reports, commands, handler, pending, device>>
  BY <1>4, <1>6
<1>7. CASE RunStep
  <2>1. CASE OpenCamera \/ CreateSession
    BY <1>4, <1>5, <2>1, SMT DEF OpenCamera, CreateSession, IInv, Types, Device
  <2> QED
    BY <1>6, <1>7, <2>1, Zenon
    DEF RunStep, Finally, Acquire, Publish, CameraAwaited, SessionAwaited,
        StartRepeating, Drain, WriteMediaRecord
<1>8. CASE Stop \/ HangUp
  BY <1>6, <1>8, Zenon DEF Stop, HangUp
<1>9. ASSUME NEW t \in Thread, EndStep(t)
      PROVE  UNCHANGED <<known, reports, commands, handler, pending>>
             /\ \A c \in Command : device'[c] = device[c]
  <2>1. CASE Close(t)
    <3>1. \A c \in Command : c \notin owned[t]
      BY <1>3, Zenon DEF Named
    <3>2. ASSUME NEW c \in Command PROVE device'[c] = device[c]
      BY <2>1, <3>1, SMT DEF Close, ClosedCameras, Device
    <3> QED BY <2>1, <3>2, Zenon DEF Close
  <2> QED
    BY <1>9, <2>1, Zenon
    DEF EndStep, Invalidate, EndsCapture, CloseGate, SendTerminalStop, Take, Quit
<1>10. CASE LooperStep
  <2>1. CASE CameraOpened \/ SessionConfigured \/ TerminalFailure
    BY <1>4, <1>5, <2>1, SMT
    DEF CameraOpened, SessionConfigured, TerminalFailure, ClosedCameras, IInv,
        Types, Device
  <2> QED
    BY <1>1, <1>3, <1>10, <2>1, Zenon
    DEF LooperStep, SwitchOpened, SwitchConfigured, SwitchFails, PublishCamera,
        PublishSession, TakeControl, Apply, SwitchCamera,
        AcknowledgementTimeout, Idle
<1>11. CASE TakeUpRequest
  BY <1>6, <1>11, Zenon DEF TakeUpRequest
<1>12. ~ServiceStep
  BY <1>3, Zenon DEF ServiceStep, CameraControl, CameraState
<1>13. CASE UNCHANGED vars
  BY <1>6, <1>13, Zenon DEF vars
<1> QED BY <1>4, <1>7, <1>8, <1>9, <1>10, <1>11, <1>12, <1>13, Zenon DEF Next

\* A switch keeps the camera that it was asked for.
LEMMA NamedKept == IInv /\ Named /\ Data /\ [Next]_vars => Named'
<1> SUFFICES ASSUME IInv, Named, Data, [Next]_vars PROVE Named'
  OBVIOUS
<1> USE DEF life, wire, threads, held, looper, service
<1> DEFINE Same == UNCHANGED <<commands, handler, camera, asked, op>>
<1>0. /\ "startup" \notin Command /\ None \notin Device
      /\ Command \cap Resource = {}
      /\ Command \subseteq Device
  BY Names DEF Device
<1>1. /\ device \in [Device -> DeviceState]
      /\ owned \in [Thread -> SUBSET (Resource \cup Device)]
      /\ op \in [Command -> OpState] /\ commands \in Seq(Command)
      /\ ~Idle => handler.command \in Command
      /\ fields \subseteq Resource
      /\ Idle => handler.at \notin {"publishCamera", "publishSession"}
  BY DEF IInv, Types, Data, Idle
<1>2. ASSUME Same, owned' = owned,
             \A c \in Command : device'[c] = "none" <=> device[c] = "none"
      PROVE  Named'
  BY <1>1, <1>2, Zenon DEF Named, Queued, Idle
<1>3. CASE RunStep
  <2>1. CASE OpenCamera \/ CreateSession
    BY <1>0, <1>1, <1>2, <2>1, SMT DEF OpenCamera, CreateSession, Device
  <2> QED
    BY <1>2, <1>3, <2>1, Zenon
    DEF RunStep, Finally, Acquire, Publish, CameraAwaited, SessionAwaited,
        StartRepeating, Drain, WriteMediaRecord
<1>4. CASE Stop \/ HangUp
  BY <1>2, <1>4, Zenon DEF Stop, HangUp
<1>5. ASSUME NEW t \in Thread, EndStep(t) PROVE Named'
  <2>1. CASE Close(t)
    <3>1. ASSUME NEW c \in Command
          PROVE  device'[c] = "none" <=> device[c] = "none"
      BY <1>0, <1>1, <2>1, SMT DEF Close, ClosedCameras, Device, Named
    <3> QED BY <1>2, <2>1, <3>1, Zenon DEF Close
  <2>2. CASE Take(t)
    <3>1. \A u \in Thread, c \in Command :
            c \in owned'[u] => c \in owned[u] \/ camera = c
      BY <1>0, <1>1, <2>2, SMT DEF Take, Thread
    <3>2. \A c \in Command : camera' # c
      BY <1>0, <2>2 DEF Take
    <3> QED BY <2>2, <3>1, <3>2, Zenon DEF Take, Named, Queued, Idle
  <2>3. CASE Quit(t)
    <3>1. \A u \in Thread, c \in Command : c \in owned'[u] => c \in owned[u]
      BY <1>1, <2>3, SMT DEF Quit, Thread
    <3> QED BY <2>3, <3>1, Zenon DEF Quit, Named, Queued, Idle
  <2> QED
    BY <1>2, <1>5, <2>1, <2>2, <2>3, Zenon
    DEF EndStep, Invalidate, EndsCapture, CloseGate, SendTerminalStop
<1>6. CASE CameraOpened
  <2>0. \/ /\ camera' = "startup"
           /\ device' = [device EXCEPT !["startup"] = "opened"]
        \/ UNCHANGED camera /\ device' = ClosedCameras({"startup"})
    BY <1>6, Zenon DEF CameraOpened
  <2>1. ASSUME NEW c \in Command
        PROVE  device'[c] = device[c] /\ (camera' = c => camera = c)
    <3>1. c # "startup" /\ c \in Device
      BY <1>0
    <3>2. CASE /\ camera' = "startup"
               /\ device' = [device EXCEPT !["startup"] = "opened"]
      BY <1>1, <3>1, <3>2
    <3>3. CASE UNCHANGED camera /\ device' = ClosedCameras({"startup"})
      BY <3>1, <3>3 DEF ClosedCameras
    <3> QED BY <2>0, <3>2, <3>3
  <2>2. Idle /\ UNCHANGED <<commands, handler, asked, op, owned>>
    BY <1>6, Zenon DEF CameraOpened, Running
  <2> QED BY <1>1, <2>1, <2>2, Zenon DEF Named, Queued, Idle
<1>7. CASE SessionConfigured \/ TerminalFailure
  <2>1. \A c \in Command : device'[c] = device[c]
    BY <1>0, <1>1, <1>7, SMT
    DEF SessionConfigured, TerminalFailure, ClosedCameras, Device
  <2> QED BY <1>2, <1>7, <2>1, Zenon DEF SessionConfigured, TerminalFailure
<1>8. ASSUME NEW c \in Command, SwitchOpened(c) \/ SwitchConfigured(c)
      PROVE  Named'
  <2>1. device[c] # "none" /\ op[c] # "none"
    BY <1>8, SMT DEF SwitchOpened, SwitchConfigured, Named
  <2>2. \A d \in Command : device'[d] = "none" <=> device[d] = "none"
    BY <1>0, <1>1, <1>8, SMT
    DEF SwitchOpened, SwitchConfigured, ClosedCameras, Device
  <2>3. CASE UNCHANGED handler
    BY <1>2, <1>8, <2>2, <2>3, Zenon DEF SwitchOpened, SwitchConfigured
  <2>4. CASE handler'.command = c
    BY <1>8, <2>1, <2>2, <2>4, Zenon
    DEF SwitchOpened, SwitchConfigured, Named, Queued, Idle
  <2> QED BY <1>8, <2>3, <2>4 DEF SwitchOpened, SwitchConfigured
<1>9. ASSUME NEW c \in Command, SwitchFails(c) PROVE Named'
  <2>1. \A d \in Command : device'[d] = "none" <=> device[d] = "none"
    BY <1>0, <1>1, <1>9, SMT DEF SwitchFails, ClosedCameras, Device
  <2> QED BY <1>2, <1>9, <2>1, Zenon DEF SwitchFails
<1>10. ASSUME handler'.at = "idle",
              UNCHANGED <<commands, asked, op, owned>>,
              ~Idle,
              \A c \in Command :
                /\ device'[c] # "none" => device[c] # "none"
                     \/ (c = handler.command /\ asked[c].cameraId \in CameraId)
                /\ device[c] # "none" => device'[c] # "none"
                /\ camera' = c => camera = c \/ device'[c] # "none"
       PROVE  Named'
  BY <1>10, Zenon DEF Named, Queued, Idle
<1>11. CASE PublishCamera
  <2>1. ~Idle /\ handler'.at = "idle" /\ device[handler.command] # "none"
        /\ handler.command \in Command
    BY <1>1, <1>11, SMT DEF PublishCamera, Rest, Idle, Named
  <2>2. ASSUME NEW c \in Command
        PROVE  /\ device'[c] = "none" <=> device[c] = "none"
               /\ camera' = c => camera = c \/ device'[c] # "none"
    BY <1>0, <1>1, <1>11, <2>1, SMT DEF PublishCamera, ClosedCameras, Device
  <2> QED BY <1>10, <1>11, <2>1, <2>2, Zenon DEF PublishCamera
<1>12. CASE PublishSession
  <2>1. ~Idle /\ handler'.at = "idle" /\ device[handler.command] # "none"
        /\ handler.command \in Command
    BY <1>1, <1>12, SMT DEF PublishSession, Rest, Idle, Named
  <2>2. \/ /\ UNCHANGED camera
           /\ device' = [device EXCEPT ![handler.command] = "configured"]
        \/ camera' = None /\ device' = ClosedCameras({handler.command})
    BY <1>12, Zenon DEF PublishSession
  <2>3. ASSUME NEW c \in Command
        PROVE  /\ device'[c] = "none" <=> device[c] = "none"
               /\ camera' = c => camera = c
    BY <1>0, <1>1, <2>1, <2>2, SMT DEF ClosedCameras, Device
  <2> QED BY <1>10, <1>12, <2>1, <2>3, Zenon DEF PublishSession
<1>13. CASE TakeControl
  <2>1. /\ op[Head(commands)] # "none"
        /\ \A c : Queued(c)' => Queued(c)
    BY <1>1, <1>13, SMT DEF TakeControl, Queued, Named
  <2>2. \/ handler' = handler
        \/ handler' = [at |-> "apply", command |-> Head(commands)]
    BY <1>13, Zenon DEF TakeControl
  <2>3. UNCHANGED <<device, camera, owned, asked, op>> /\ Idle
    BY <1>13, Zenon DEF TakeControl, Running
  <2> QED BY <2>1, <2>2, <2>3, SMT DEF Named, Idle
<1>14. CASE Apply
  <2>1. ~Idle /\ handler'.at = "idle"
    BY <1>14, SMT DEF Apply, Rest, Idle
  <2> QED BY <1>10, <1>14, <2>1, Zenon DEF Apply
<1>15. CASE SwitchCamera
  <2>1. ~Idle /\ handler'.at = "idle" /\ handler.command \in Command
    BY <1>1, <1>15, SMT DEF SwitchCamera, Rest, Idle
  <2>2. asked[handler.command].cameraId \in CameraId
    BY <1>15 DEF SwitchCamera, NativeOK
  <2>3. \/ UNCHANGED <<camera, device>>
        \/ /\ camera' = None
           /\ \/ device' = [ClosedCameras({camera}) EXCEPT
                              ![handler.command] = "opening"]
              \/ device' = ClosedCameras({camera})
    BY <1>15, Zenon DEF SwitchCamera
  <2>4. ASSUME NEW c \in Command
        PROVE  /\ device'[c] # "none" =>
                    device[c] # "none" \/ c = handler.command
               /\ device[c] # "none" => device'[c] # "none"
               /\ camera' = c => camera = c
    <3>1. camera = c => device[c] # "none"
      BY DEF Named
    <3>2. camera' = c => camera = c
      BY <1>0, <2>3
    <3>3. CASE UNCHANGED device
      BY <3>2, <3>3
    <3>4. CASE device' = ClosedCameras({camera})
      BY <1>0, <3>1, <3>2, <3>4, SMT DEF ClosedCameras
    <3>5. CASE device' = [ClosedCameras({camera}) EXCEPT
                            ![handler.command] = "opening"]
      BY <1>0, <2>1, <3>1, <3>2, <3>5, SMT DEF ClosedCameras
    <3> QED BY <2>3, <3>3, <3>4, <3>5
  <2> QED BY <1>10, <1>15, <2>1, <2>2, <2>4, Zenon DEF SwitchCamera
<1>16. CASE AcknowledgementTimeout \/ CaptureCompleted \/ TakeUpRequest
  BY <1>2, <1>16, Zenon
  DEF AcknowledgementTimeout, CaptureCompleted, TakeUpRequest
<1>17. ASSUME NEW t \in Thread, CaptureOvertaken(t) PROVE Named'
  BY <1>2, <1>17, Zenon DEF CaptureOvertaken
<1>18. ASSUME NEW c \in Command, NEW controls \in Requests,
              CameraControl(c, controls)
       PROVE  Named'
  <2>1. /\ device[c] = "none"
        /\ \A d \in Command \ {c} : op'[d] = op[d] /\ asked'[d] = asked[d]
        /\ op'[c] # "none"
    BY <1>1, <1>18, SMT DEF CameraControl, Named, Data
  <2>2. \A d : Queued(d)' => Queued(d) \/ d = c
    BY <1>1, <1>18, SMT DEF CameraControl, Queued
  <2> QED BY <1>18, <2>1, <2>2, Zenon DEF CameraControl, Named, Idle
<1>19. CASE CameraState
  <2>1. \A c \in Command : op[c] # "none" => op'[c] # "none"
    BY <1>19, SMT DEF CameraState
  <2> QED BY <1>19, <2>1, Zenon DEF CameraState, Named, Queued, Idle
<1>20. CASE UNCHANGED vars
  BY <1>2, <1>20, Zenon DEF vars
<1> QED
  BY <1>3, <1>4, <1>5, <1>6, <1>7, <1>8, <1>9, <1>11, <1>12, <1>13, <1>14,
     <1>15, <1>16, <1>17, <1>18, <1>19, <1>20, Zenon
  DEF Next, LooperStep, ServiceStep

\* What a report that is appended says, and what the ones before it say.
LEMMA AppendReports ==
  ASSUME NEW r \in ReportType, reports \in Seq(ReportType),
         reports' = Append(reports, r)
  PROVE  /\ \A c : ReportedFor(c) => ReportedFor(c)'
         /\ ReportedFor(r.command)'
<1>1. /\ \A i \in DOMAIN reports :
           i \in DOMAIN reports' /\ reports'[i] = reports[i]
      /\ \E i \in DOMAIN reports' : reports'[i] = r
  <2>1. /\ \A i \in DOMAIN reports : /\ i \in DOMAIN Append(reports, r)
                                      /\ Append(reports, r)[i] = reports[i]
        /\ \E i \in DOMAIN Append(reports, r) : Append(reports, r)[i] = r
    BY AppendHas
  <2> QED BY <2>1
<1> QED BY <1>1, Zenon DEF ReportedFor

\* A command is answered in the reports, if anything is applied.
LEMMA AnsweredFor ==
  ASSUME Data, NEW command \in Command, PublishState(command, TRUE)
  PROVE  /\ \A c : ReportedFor(c) => ReportedFor(c)'
         /\ active /\ applied # None => ReportedFor(command)'
<1>1. CASE active /\ applied # None
  <2>1. reports' = Append(reports, Published(selected, command, TRUE))
    BY <1>1, Zenon DEF PublishState, PublishStateOf
  <2>2. Published(selected, command, TRUE) \in ReportType
    BY <1>1, PublishedTyped, Zenon DEF Data
  <2>3. Published(selected, command, TRUE).command = command
    BY DEF Published
  <2> QED BY <2>1, <2>2, <2>3, AppendReports DEF Data
<1>2. CASE ~(active /\ applied # None)
  BY <1>2, Zenon DEF PublishState, PublishStateOf, ReportedFor
<1> QED BY <1>1, <1>2

\* Each step hands a control on, or answers it.
LEMMA FollowedKept ==
  IInv /\ AppliedFirst /\ Data /\ Flags /\ Followed /\ [Next]_vars => Followed'
<1> SUFFICES ASSUME IInv, AppliedFirst, Data, Flags, Followed, [Next]_vars,
                    active'
             PROVE  Followed'
  BY DEF Followed
<1> USE DEF life, wire, threads, held, looper, service
<1>1. ASSUME UNCHANGED <<active, handler, pending, op, commands, reports>>
      PROVE  Followed'
  BY <1>1, Zenon DEF Followed, Queued, ReportedFor
<1>2. CASE RunStep \/ Stop \/ HangUp \/ TakeUpRequest
  BY <1>1, <1>2, Zenon
  DEF RunStep, Finally, Acquire, Publish, OpenCamera, CameraAwaited,
      CreateSession, SessionAwaited, StartRepeating, Drain, WriteMediaRecord,
      Stop, HangUp, TakeUpRequest
<1>3. ASSUME NEW t \in Thread, EndStep(t) PROVE Followed'
  BY <1>1, <1>3, Zenon
  DEF EndStep, Invalidate, EndsCapture, CloseGate, SendTerminalStop, Take, Close, Quit
<1>4. CASE CameraOpened \/ SessionConfigured
  BY <1>1, <1>4, Zenon DEF CameraOpened, SessionConfigured
<1>5. CASE TerminalFailure
  <2>1. active' = active
    BY <1>5, Zenon DEF TerminalFailure, Flags
  <2> QED BY <1>1, <1>5, <2>1, Zenon DEF TerminalFailure
<1>6. ASSUME NEW c \in Command, SwitchOpened(c) \/ SwitchConfigured(c)
      PROVE  Followed'
  <2>1. Idle
    BY <1>6, Zenon DEF SwitchOpened, SwitchConfigured, Running
  <2>2. \/ UNCHANGED handler
        \/ handler' = [at |-> "publishCamera", command |-> c]
        \/ handler' = [at |-> "publishSession", command |-> c]
    BY <1>6, Zenon DEF SwitchOpened, SwitchConfigured
  <2>3. handler'.at # "apply"
    BY <2>1, <2>2, SMT DEF Idle
  <2> QED
    BY <1>6, <2>1, <2>3, Zenon
    DEF SwitchOpened, SwitchConfigured, Followed, Queued, ReportedFor, Idle
<1>7. ~\E c \in Command : SwitchFails(c)
  BY Zenon DEF SwitchFails, FailCameraCommand
<1>8. ~AcknowledgementTimeout /\ ~\E t \in Thread : CaptureOvertaken(t)
  BY Zenon DEF AcknowledgementTimeout, CaptureOvertaken, EndsCapture
<1>9. CASE PublishCamera \/ PublishSession
  <2>1. UNCHANGED <<active, pending, reports, op, commands>>
    BY <1>9, Zenon DEF PublishCamera, PublishSession, FailCameraCommand
  <2>2. /\ handler.at \in {"publishCamera", "publishSession"}
        /\ handler' = [at |-> "idle", command |-> None]
    BY <1>9, Zenon DEF PublishCamera, PublishSession, Rest
  <2>3. handler.at # "apply" /\ handler'.at # "apply"
    BY <2>2, SMT
  <2> QED BY <2>1, <2>3, Zenon DEF Followed, Queued, ReportedFor
<1>10. CASE TakeControl
  <2> DEFINE command == Head(commands)
  <2>1. command \in Command /\ \A c : Queued(c) => Queued(c)' \/ c = command
    <3>1. commands \in Seq(Command) /\ commands # <<>> /\ commands' = Tail(commands)
      BY <1>10, Zenon DEF TakeControl, IInv, Types
    <3>2. command \in Command
      BY <3>1, HeadTail
    <3>3. ASSUME NEW c, Queued(c), c # command PROVE Queued(c)'
      <4>1. PICK i \in DOMAIN commands : commands[i] = c
        BY <3>3 DEF Queued
      <4>2. \E j \in DOMAIN Tail(commands) : Tail(commands)[j] = commands[i]
        BY <3>1, <3>3, <4>1, TailHas, Zenon
      <4> QED BY <3>1, <4>1, <4>2, Zenon DEF Queued
    <3> HIDE DEF command
    <3> QED BY <3>2, <3>3
  <2>2. Idle /\ active /\ applied # None /\ UNCHANGED <<pending, op>>
    BY <1>10, Zenon DEF TakeControl, Running, AppliedFirst
  <2>3. CASE PublishState(command, TRUE) /\ UNCHANGED handler
    BY <2>1, <2>2, <2>3, AnsweredFor, Zenon DEF Followed, Idle
  <2>4. CASE /\ pending = None /\ UNCHANGED reports
             /\ handler' = [at |-> "apply", command |-> command]
    <3>1. handler'.at = "apply" /\ handler'.command = command
      BY <2>4
    <3> QED BY <2>1, <2>2, <2>4, <3>1, Zenon DEF Followed, ReportedFor, Idle
  <2> QED BY <1>10, <2>2, <2>3, <2>4, Zenon DEF TakeControl
<1>11. ASSUME handler.at = "apply", active, Rest, UNCHANGED <<op, commands>>,
              \A c : ReportedFor(c) => ReportedFor(c)',
              \/ pending' = handler.command
              \/ \A c : c = handler.command => ReportedFor(c)'
       PROVE  Followed'
  <2>1. handler'.at = "idle" /\ pending = None
    BY <1>11, SMT DEF Rest, Followed
  <2>2. handler'.at # "apply"
    BY <2>1
  <2>3. None \notin Command
    BY Names DEF Device
  <2> QED BY <1>11, <2>1, <2>2, <2>3, Zenon DEF Followed, Queued
<1>12. handler.at = "apply" => handler.command \in Command /\ applied # None
  BY DEF IInv, Types, Idle, AppliedFirst
<1>13. CASE Apply
  <2>1. handler.at = "apply" /\ active /\ Rest /\ UNCHANGED <<op, commands>>
    BY <1>13, Zenon DEF Apply
  <2>2. CASE Refuse(handler.command)
    <3>1. PublishState(handler.command, TRUE)
      BY <2>2 DEF Refuse
    <3>2. /\ \A c : ReportedFor(c) => ReportedFor(c)'
          /\ \A c : c = handler.command => ReportedFor(c)'
      <4>1. handler.command \in Command /\ applied # None /\ active
        BY <1>12, <2>1
      <4> QED BY <3>1, <4>1, AnsweredFor, Zenon
    <3> QED BY <1>11, <2>1, <3>2
  <2>3. CASE pending' = handler.command /\ UNCHANGED reports
    BY <1>11, <2>1, <2>3, Zenon DEF ReportedFor
  <2> QED BY <1>13, <2>2, <2>3, Zenon DEF Apply, ApplyCurrent
<1>14. CASE SwitchCamera
  <2>1. handler.at = "apply" /\ active /\ Rest /\ UNCHANGED <<op, commands>>
    BY <1>14, Zenon DEF SwitchCamera
  <2>2. CASE Refuse(handler.command)
    <3>1. PublishState(handler.command, TRUE)
      BY <2>2 DEF Refuse
    <3>2. /\ \A c : ReportedFor(c) => ReportedFor(c)'
          /\ \A c : c = handler.command => ReportedFor(c)'
      <4>1. handler.command \in Command /\ applied # None /\ active
        BY <1>12, <2>1
      <4> QED BY <3>1, <4>1, AnsweredFor, Zenon
    <3> QED BY <1>11, <2>1, <3>2
  <2>3. CASE pending' = handler.command /\ UNCHANGED reports
    BY <1>11, <2>1, <2>3, Zenon DEF ReportedFor
  <2> QED BY <1>14, <2>2, <2>3, Zenon DEF SwitchCamera
<1>15. CASE CaptureCompleted
  <2>1. Now \in AppliedType /\ pending \in Command \cup {None}
    BY <1>15, NowTyped, Zenon
    DEF CaptureCompleted, Completes, Data, IInv, Types
  <2>2. ASSUME NEW c \in Command \cup {None}, NEW e \in BOOLEAN,
               reports' = Append(reports, Reported(c, e))
        PROVE  /\ \A d : ReportedFor(d) => ReportedFor(d)'
               /\ ReportedFor(c)'
    BY <2>1, <2>2, ReportedTyped, AppendReports, Zenon DEF Data
  <2>3. active /\ UNCHANGED <<handler, op, commands>>
    BY <1>15, Zenon DEF CaptureCompleted, Completes
  <2>4. AppliedControlError(asked[pending], Now) \in BOOLEAN
    BY DEF AppliedControlError
  <2>5. CASE pending # None /\ pending' = None /\
             reports' = Append(reports,
               Reported(pending, AppliedControlError(asked[pending], Now)))
    BY <2>1, <2>2, <2>3, <2>4, <2>5, Zenon DEF Followed, Queued
  <2>6. CASE UNCHANGED <<pending, reports>>
    BY <2>3, <2>6, Zenon DEF Followed, Queued, ReportedFor
  <2>7. CASE /\ UNCHANGED pending
             /\ reports' = Append(reports, Reported(None, FALSE))
    BY <2>2, <2>3, <2>7, Zenon DEF Followed, Queued
  <2> QED
    BY <1>15, <2>5, <2>6, <2>7, Zenon DEF CaptureCompleted, IsAcknowledgement
<1>16. ASSUME NEW c \in Command, NEW controls \in Requests,
              CameraControl(c, controls)
       PROVE  Followed'
  <2>1. Queued(c)' /\ \A d : Queued(d) => Queued(d)'
    <3>1. commands \in Seq(Command) /\ commands' = Append(commands, c)
      BY <1>16 DEF CameraControl, IInv, Types
    <3>2. /\ \A i \in DOMAIN commands :
               i \in DOMAIN commands' /\ commands'[i] = commands[i]
          /\ \E i \in DOMAIN commands' : commands'[i] = c
      <4>1. /\ \A i \in DOMAIN commands : /\ i \in DOMAIN Append(commands, c)
                                           /\ Append(commands, c)[i] = commands[i]
            /\ \E i \in DOMAIN Append(commands, c) : Append(commands, c)[i] = c
        BY <3>1, AppendHas
      <4> QED BY <3>1, <4>1
    <3> QED BY <3>2, Zenon DEF Queued
  <2>2. \A d \in Command \ {c} : op'[d] = op[d]
    BY <1>16, SMT DEF CameraControl, Data
  <2> QED BY <1>16, <2>1, <2>2, Zenon DEF CameraControl, Followed, ReportedFor
<1>17. CASE CameraState
  <2>1. \A c \in Command : op'[c] = "pending" =>
          op[c] = "pending" /\ c # Head(reports).command
    BY <1>17, SMT DEF CameraState
  <2>2. \A c : ReportedFor(c) => ReportedFor(c)' \/ c = Head(reports).command
    <3>1. /\ reports \in Seq(ReportType) /\ reports # <<>>
          /\ reports' = Tail(reports)
      BY <1>17 DEF CameraState, Data
    <3>2. ASSUME NEW c, NEW i \in DOMAIN reports, reports[i].command = c,
                 c # Head(reports).command
          PROVE  \E j \in DOMAIN reports' : reports'[j].command = c
      <4>1. reports[i] # Head(reports)
        BY <3>2
      <4>2. PICK j \in DOMAIN Tail(reports) : Tail(reports)[j] = reports[i]
        BY <3>1, <4>1, TailHas
      <4> QED BY <3>1, <3>2, <4>2
    <3> QED BY <3>2, Zenon DEF ReportedFor
  <2> QED BY <1>17, <2>1, <2>2, Zenon DEF CameraState, Followed, Queued
<1>18. CASE UNCHANGED vars
  BY <1>1, <1>18, Zenon DEF vars
<1> QED
  BY <1>2, <1>3, <1>4, <1>5, <1>6, <1>7, <1>8, <1>9, <1>10, <1>13, <1>14,
     <1>15, <1>16, <1>17, <1>18, Zenon
  DEF Next, LooperStep, ServiceStep

\* The invariant of the capture with its controls.
CInv == IInv /\ Flags /\ Places /\ Data /\ AppliedFirst /\ Named /\ Followed

\* A capture that starts satisfies the invariant.
LEMMA ControlInit == Init => CInv
<1> SUFFICES ASSUME Init PROVE CInv
  OBVIOUS
<1> USE DEF Init
<1>1. IInv
  BY InitInv
<1>2. Flags
  BY Zenon DEF Flags
<1>3. Places
  BY StreamerOK, SMT DEF Places, RunPlace, StopPlace, Thread, StreamerOK
<1>4. Data
  <2>1. selected \in CameraId
    <3>1. 1 \in DOMAIN Supported
      BY StreamerOK DEF StreamerOK
    <3> QED BY <3>1, Zenon DEF CameraId
  <2>2. /\ asked \in [Command -> Requests \cup {NoControls}]
        /\ op \in [Command -> OpState]
    BY SMT DEF OpState
  <2>3. reports \in Seq(ReportType)
    BY SMT
  <2> QED BY <2>1, <2>2, <2>3, Zenon DEF Data
<1>5. AppliedFirst
  BY Names, SMT DEF AppliedFirst, Idle, Device
<1>6. Named
  <2>1. \A c \in Command : device[c] = "none" /\ camera # c /\ ~Queued(c)
    BY Names DEF Device, Queued
  <2>2. Idle /\ handler.at \notin {"publishCamera", "publishSession"}
    BY DEF Idle
  <2>3. \A t \in Thread : owned[t] = {}
    OBVIOUS
  <2> QED BY <2>1, <2>2, <2>3, Zenon DEF Named
<1>7. Followed
  BY SMT DEF Followed
<1> QED BY <1>1, <1>2, <1>3, <1>4, <1>5, <1>6, <1>7 DEF CInv

\* The invariant of the capture with its controls, for any cameras and controls.
THEOREM ControlInvariant == Spec => []CInv
<1>1. CInv /\ [Next]_vars => CInv'
  <2> SUFFICES ASSUME CInv, [Next]_vars PROVE CInv'
    OBVIOUS
  <2>1. Types
    BY DEF CInv, IInv
  <2> QED
    BY <2>1, StepInv, FlagsKept, PlacesKept, DataKept, AppliedFirstKept,
       NamedKept, FollowedKept, Zenon
    DEF CInv
<1> QED BY <1>1, ControlInit, PTL DEF Spec

\* Every variable of CameraStreamer keeps its type.
THEOREM StreamerTypes == Spec => []TypeOK
<1>1. CInv => TypeOK
  <2> SUFFICES ASSUME CInv PROVE TypeOK
    OBVIOUS
  <2>1. Len(Acquired) = 5
    BY SMT DEF Acquired
  <2>2. DOMAIN at = Thread /\ next \in 0 .. 5
    BY DEF CInv, IInv, Types
  <2>3. /\ device \in [Device -> DeviceState]
        /\ handler \in [at : HandlerStep, command : Command \cup {None}]
    BY DEF CInv, IInv, Types
  <2> QED
    BY <2>1, <2>2, <2>3, Zenon
    DEF TypeOK, CInv, IInv, Types, Flags, Places, Data, RunPlace, StopPlace,
        DeviceState, HandlerStep, KnownType, OpState
<1> QED BY <1>1, ControlInvariant, PTL

\* No control is lost as long as the capture goes on (applyControls,
\* publishState, captureResults): the service has its outcome or will have it.
THEOREM ControlsAreAnswered == Spec => []NoControlIsLost
<1>1. CInv => NoControlIsLost
  <2> SUFFICES ASSUME CInv, active, Idle, commands = <<>>, NEW c \in Command,
                      op[c] = "pending"
               PROVE  c = pending \/ ReportedFor(c)
    BY DEF NoControlIsLost, ReportedFor
  <2>1. handler.at # "apply" /\ ~Queued(c)
    BY DEF Idle, Queued
  <2> QED BY <2>1, Zenon DEF CInv, Followed
<1> QED BY <1>1, ControlInvariant, PTL

===============================================================================
