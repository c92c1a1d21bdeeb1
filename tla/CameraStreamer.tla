---------------------------- MODULE CameraStreamer ----------------------------
(***************************************************************************)
(* One capture of the phone application, from its start to the release of  *)
(* everything it took (CameraStreamer.kt, CaptureCallbackGate.kt,          *)
(* CaptureStartupCallbacks.kt), and the camera controls that the service   *)
(* sends to it (service_runtime.rs, capture.rs).                           *)
(*                                                                         *)
(* Three threads work on a capture: the one that runs it, the one that     *)
(* stops it (user interface or control connection, at most once), and the  *)
(* looper on which Camera2 calls back and controls are applied.  They      *)
(* share the fields that hold resources, the flag "active" and the gate.   *)
(* What happens under the gate's lock or the streamer's is one step, and   *)
(* so is what the looper does between two reads of what others change.     *)
(*                                                                         *)
(* Camera2 is external: opening a camera or a session may fail or take any *)
(* time, and what it answers after its looper has quit is never delivered. *)
(***************************************************************************)
EXTENDS CameraControls, FiniteSets

CONSTANTS
  Supported,   \* the cameras that selectCamera accepts, in order
  Info,        \* what each of them can do
  Command,     \* identifiers of camera controls
  Requests,    \* the controls that may be asked for
  MaxRecords   \* bound: records sent

CameraId == {Supported[i] : i \in DOMAIN Supported}
Range(min, max, step) == [min |-> min, max |-> max, step |-> step]

Resource == {"socket", "output", "encoder", "surface", "looper"}
Acquired == <<"socket", "output", "encoder", "surface", "looper">>
Device == Command \cup {"startup"}
Thread == {"run", "stop"}

ASSUME StreamerOK ==
  /\ 1 \in DOMAIN Supported /\ None \notin CameraId \cup Device
  /\ Command \cap (Resource \cup {"startup"}) = {}
  /\ \A c \in CameraId :
       Info[c].fps.min <= 30 * Thousand /\ 30 * Thousand <= Info[c].fps.max
  /\ MaxRecords \in Nat \ {0}

RangeType == [min : Int, max : Int, step : Int]
InfoType ==
  [fps : RangeType, zoom : RangeType \cup {None},
   exposure : RangeType \cup {None}, torch : BOOLEAN]
ControlsType ==
  [cameraId : CameraId \cup {None}, width : Int \cup {None},
   height : Int \cup {None}, fps : Int \cup {None}, zoom : Int \cup {None},
   exposure : Int \cup {None}, torch : BOOLEAN \cup {None},
   previewMirrored : BOOLEAN \cup {None}, screenDimmed : BOOLEAN \cup {None}]
AppliedType ==
  [cameraId : CameraId, width : Int, height : Int, fps : Int, zoom : Int,
   exposure : Int, torch : BOOLEAN, previewMirrored : BOOLEAN,
   screenDimmed : BOOLEAN]

\* What a request to the camera sets, and what that request is for.
Settings == [zoom : Int, exposure : Int, torch : BOOLEAN, fps : Int]
ShotType ==
  [zoom : Int, exposure : Int, torch : BOOLEAN, fps : Int,
   tag : Command \cup {None}]

ASSUME DataOK ==
  /\ Info \in [CameraId -> InfoType]
  /\ Requests \subseteq ControlsType
  /\ None \notin AppliedType \cup Settings \cup ShotType

\* cameraIdList names each camera once, and every range holds the value that a
\* camera starts with.
ASSUME CamerasOK ==
  /\ \A i, j \in DOMAIN Supported : Supported[i] = Supported[j] => i = j
  /\ \A c \in CameraId :
       /\ Info[c].zoom # None =>
            Contains(Info[c].zoom, Thousand) /\ Info[c].zoom.step >= 0
       /\ Info[c].exposure # None =>
            Contains(Info[c].exposure, 0) /\ Info[c].exposure.step > 0

VARIABLES
  \* the streamer
  active, gate, terminal, records,
  at,          \* where the threads that run and stop it are
  wasActive,   \* what the stopping thread found
  next,        \* how many resources the running thread has published
  open,        \* resources that exist
  fields,      \* resources that the streamer's fields hold
  camera, session,  \* the same for the camera and its session
  owned,       \* what a thread took from the fields to release it
  device,      \* the cameras opened: by the start, and by each control
  \* its looper
  handler, pending, selected, builder, applied, statePublished, dimmed,
  request,     \* what the camera was last told to repeat
  shot,        \* what it does
  \* the service
  known, op, asked,
  commands, reports  \* in transit

life == <<active, gate>>
wire == <<terminal, records>>
threads == <<at, wasActive, next>>
held == <<open, fields, camera, session, owned, device>>
looper == <<handler, pending, selected, builder, applied, statePublished,
            dimmed, request, shot>>
service == <<known, op, asked>>
vars == <<life, wire, threads, held, looper, service, commands, reports>>

\* TEMPLATE_RECORD and the camera's own range of frame rates.
Unset(id) ==
  [zoom |-> Thousand, exposure |-> 0, torch |-> FALSE, fps |-> Info[id].fps.max]

\* CameraCapabilities.toJson
Capabilities(id) ==
  [cameras |-> [i \in DOMAIN Supported |->
     [id |-> Supported[i],
      modes |-> {[width |-> 1280, height |-> 720, fps |-> 30 * Thousand]}]],
   zoom |-> Info[id].zoom, exposure |-> Info[id].exposure,
   torch |-> Info[id].torch, screenDimSupported |-> TRUE]

\* start(), and the thread that it starts.
Init ==
  /\ active = TRUE /\ gate = TRUE /\ terminal = FALSE /\ records = 0
  /\ at = [t \in Thread |-> IF t = "run" THEN "acquire" ELSE "idle"]
  /\ wasActive = FALSE /\ next = 0
  /\ open = {} /\ fields = {} /\ camera = None /\ session = None
  /\ owned = [t \in Thread |-> {}]
  /\ device = [d \in Device |-> "none"]
  /\ handler = [at |-> "idle", command |-> None]
  /\ pending = None /\ selected = Supported[1] /\ builder = None
  /\ applied = None /\ statePublished = FALSE /\ dimmed = FALSE
  /\ request = None /\ shot = None
  /\ known = None
  /\ op = [c \in Command |-> "none"] /\ asked = [c \in Command |-> NoControls]
  /\ commands = <<>> /\ reports = <<>>

Goto(t, step) == at' = [at EXCEPT ![t] = step]
-------------------------------------------------------------------------------
(* The thread that runs the capture. *)

\* An exception, or the end of the capture: on to the finally block.
Finally ==
  /\ at["run"] \in {"acquire", "open", "opening", "configure", "configuring",
                 "repeat", "drain", "write"}
  /\ Goto("run", "invalidate")
  /\ UNCHANGED <<life, wire, wasActive, next, held, looper, service, commands,
                 reports>>

Acquire ==
  /\ at["run"] = "acquire" /\ gate
  /\ open' = open \cup {Acquired[next + 1]}
  /\ Goto("run", "publish")
  /\ UNCHANGED <<life, wire, wasActive, next, fields, camera, session, owned,
                 device, looper, service, commands, reports>>

\* Mutation: what was acquired too late is forgotten.
PublishOrForget ==
  /\ at["run"] = "publish"
  /\ IF gate
     THEN /\ fields' = fields \cup {Acquired[next + 1]}
          /\ next' = next + 1
          /\ Goto("run", IF next' = Len(Acquired) THEN "open" ELSE "acquire")
     ELSE Goto("run", "invalidate") /\ UNCHANGED <<fields, next>>
  /\ UNCHANGED <<life, wire, wasActive, open, camera, session, owned, device,
                 looper, service, commands, reports>>

\* Published or released, under the lock that invalidates.
Publish ==
  /\ at["run"] = "publish"
  /\ \/ /\ gate
        /\ fields' = fields \cup {Acquired[next + 1]}
        /\ next' = next + 1
        /\ Goto("run", IF next' = Len(Acquired) THEN "open" ELSE "acquire")
        /\ UNCHANGED open
     \/ /\ ~gate
        /\ open' = open \ {Acquired[next + 1]}
        /\ Goto("run", "invalidate")
        /\ UNCHANGED <<fields, next>>
  /\ UNCHANGED <<life, wire, wasActive, camera, session, owned, device, looper,
                 service, commands, reports>>

\* openCamera and createCaptureSession return before the looper is called.
OpenCamera ==
  /\ at["run"] = "open"
  /\ device' = [device EXCEPT !["startup"] = "opening"]
  /\ Goto("run", "opening")
  /\ UNCHANGED <<life, wire, wasActive, next, open, fields, camera, session,
                 owned, looper, service, commands, reports>>

CameraAwaited ==
  /\ at["run"] = "opening" /\ gate /\ camera = "startup"
  /\ Goto("run", "configure")
  /\ UNCHANGED <<life, wire, wasActive, next, held, looper, service, commands,
                 reports>>

CreateSession ==
  /\ at["run"] = "configure" /\ device["startup"] = "opened"
  /\ device' = [device EXCEPT !["startup"] = "configuring"]
  /\ Goto("run", "configuring")
  /\ UNCHANGED <<life, wire, wasActive, next, open, fields, camera, session,
                 owned, looper, service, commands, reports>>

SessionAwaited ==
  /\ at["run"] = "configuring" /\ gate /\ session = "startup"
  /\ Goto("run", "repeat")
  /\ UNCHANGED <<life, wire, wasActive, next, held, looper, service, commands,
                 reports>>

Repeating(settings, tag) ==
  [zoom |-> settings.zoom, exposure |-> settings.exposure,
   torch |-> settings.torch, fps |-> settings.fps, tag |-> tag]

StartRepeating ==
  /\ at["run"] = "repeat" /\ session # None
  /\ builder' = Unset(selected)
  /\ request' = Repeating(builder', None)
  /\ Goto("run", "drain")
  /\ UNCHANGED <<life, wire, wasActive, next, held, handler, pending, selected,
                 applied, statePublished, dimmed, shot, service, commands,
                 reports>>

\* drainEncoder, as long as the capture is active and its lease holds.
Drain ==
  /\ at["run"] = "drain" /\ active
  /\ Goto("run", "write")
  /\ UNCHANGED <<life, wire, wasActive, next, held, looper, service, commands,
                 reports>>

\* Mutation: the record is written whatever has happened since.
WriteUnchecked ==
  /\ at["run"] = "write"
  /\ records' = IF records < MaxRecords THEN records + 1 ELSE records
  /\ Goto("run", "drain")
  /\ UNCHANGED <<life, terminal, wasActive, next, held, looper, service,
                 commands, reports>>

\* writeMediaRecord, under the streamer's lock.
WriteMediaRecord ==
  /\ at["run"] = "write"
  /\ records' = IF active /\ records < MaxRecords THEN records + 1 ELSE records
  /\ Goto("run", "drain")
  /\ UNCHANGED <<life, terminal, wasActive, next, held, looper, service,
                 commands, reports>>

RunStep ==
  \/ Finally \/ Acquire \/ Publish
  \/ OpenCamera \/ CameraAwaited \/ CreateSession \/ SessionAwaited
  \/ StartRepeating \/ Drain \/ WriteMediaRecord
-------------------------------------------------------------------------------
(* The end: stop(), and the finally block of the thread that runs. *)

\* The activity gives up the streamer before it stops it.
Stop ==
  /\ at["stop"] = "idle" /\ at["run"] # "end"
  /\ Goto("stop", "invalidate")
  /\ UNCHANGED <<life, wire, wasActive, next, held, looper, service, commands,
                 reports>>

EndsCapture(t) ==
  /\ at[t] = "invalidate"
  /\ active' = FALSE
  /\ wasActive' = IF t = "stop" THEN active ELSE wasActive
  /\ Goto(t, "gate")

Invalidate(t) ==
  /\ EndsCapture(t)
  /\ UNCHANGED <<gate, wire, next, held, looper, service, commands, reports>>

CloseGate(t) ==
  /\ at[t] = "gate"
  /\ gate' = FALSE
  /\ Goto(t, IF t = "stop" THEN "hangup" ELSE "terminal")
  /\ UNCHANGED <<active, wire, wasActive, next, held, looper, service,
                 commands, reports>>

\* A blocked write is interrupted before anything else is done.
HangUp ==
  /\ at["stop"] = "hangup"
  /\ open' = IF "socket" \in fields THEN open \ {"socket"} ELSE open
  /\ Goto("stop", "terminal")
  /\ UNCHANGED <<life, wire, wasActive, next, fields, camera, session, owned,
                 device, looper, service, commands, reports>>

\* sendTerminalStop, under the streamer's lock.
SendTerminalStop(t) ==
  /\ at[t] = "terminal"
  /\ terminal' =
       (terminal \/ t = "run" \/ wasActive \/ "output" \in fields)
  /\ Goto(t, "take")
  /\ UNCHANGED <<life, records, wasActive, next, held, looper, service,
                 commands, reports>>

\* releaseResources: what the fields hold is taken under the streamer's lock.
\* The stopping thread waits a second for the other one before that, at most.
Take(t) ==
  /\ at[t] = "take"
  /\ owned' = [owned EXCEPT ![t] = fields \cup ({camera} \ {None})]
  /\ fields' = {} /\ camera' = None /\ session' = None
  /\ Goto(t, "close")
  /\ UNCHANGED <<life, wire, wasActive, next, open, device, looper, service,
                 commands, reports>>

ClosedCameras(set) ==
  [d \in Device |-> IF d \in set THEN "closed" ELSE device[d]]

Close(t) ==
  /\ at[t] = "close"
  /\ device' = ClosedCameras(owned[t])
  /\ open' = open \ (owned[t] \ {"looper"})
  /\ Goto(t, "quit")
  /\ UNCHANGED <<life, wire, wasActive, next, fields, camera, session, owned,
                 looper, service, commands, reports>>

Quit(t) ==
  /\ at[t] = "quit"
  /\ open' = open \ owned[t]
  /\ owned' = [owned EXCEPT ![t] = {}]
  /\ Goto(t, "end")
  /\ UNCHANGED <<life, wire, wasActive, next, fields, camera, session, device,
                 looper, service, commands, reports>>

EndStep(t) ==
  \/ Invalidate(t) \/ CloseGate(t) \/ SendTerminalStop(t)
  \/ Take(t) \/ Close(t) \/ Quit(t)
-------------------------------------------------------------------------------
(* The looper: the cameras' callbacks. *)

Idle == handler.at = "idle"
Running == Idle /\ "looper" \in open

Rest == handler' = [at |-> "idle", command |-> None]

\* publishState, of the camera that is selected
Published(id, command, error) ==
  [command |-> command, caps |-> Capabilities(id), applied |-> applied,
   error |-> error]

PublishStateOf(id, command, error) ==
  reports' = IF active /\ applied # None
             THEN Append(reports, Published(id, command, error)) ELSE reports

PublishState(command, error) == PublishStateOf(selected, command, error)

\* CaptureStartupCallbacks: published or closed, under the gate's lock.
CameraOpened ==
  /\ Running /\ device["startup"] = "opening"
  /\ IF gate
     THEN camera' = "startup" /\ device' = [device EXCEPT !["startup"] = "opened"]
     ELSE device' = ClosedCameras({"startup"}) /\ UNCHANGED camera
  /\ UNCHANGED <<life, wire, threads, open, fields, session, owned, looper,
                 service, commands, reports>>

SessionConfigured ==
  /\ Running /\ device["startup"] = "configuring"
  /\ IF gate
     THEN /\ session' = "startup"
          /\ device' = [device EXCEPT !["startup"] = "configured"]
     ELSE /\ device' = [device EXCEPT !["startup"] = "opened"]
          /\ UNCHANGED session
  /\ UNCHANGED <<life, wire, threads, open, fields, camera, owned, looper,
                 service, commands, reports>>

\* terminalFailure: the camera is lost, or its session could not be configured.
TerminalFailure ==
  /\ Running
  /\ \/ /\ device["startup"] \in {"opening", "opened", "configuring", "configured"}
        /\ device' = ClosedCameras({"startup"})
     \/ /\ device["startup"] = "configuring"
        /\ device' = [device EXCEPT !["startup"] = "opened"]
  /\ gate' = FALSE
  /\ active' = (active /\ ~gate)
  /\ UNCHANGED <<wire, threads, open, fields, camera, session, owned, looper,
                 service, commands, reports>>

\* failCameraCommand: reported, for the command if it is still pending; then
\* the capture ends.
FailCameraCommand(id, command) ==
  /\ \/ pending = command /\ pending' = None /\ PublishStateOf(id, command, TRUE)
     \/ pending = None /\ PublishStateOf(id, None, TRUE) /\ UNCHANGED pending
     \/ pending \notin {command, None} /\ UNCHANGED <<pending, reports>>
  /\ active' = FALSE

\* restoreScreenDimmed: before a switch the screen was as it is applied.
RestoreScreenDimmed == dimmed' = applied.screenDimmed

\* onOpened of switchCamera: not the gate but "active" is looked at, ...
SwitchOpened(command) ==
  /\ Running /\ device[command] = "opening"
  /\ \/ /\ active
        /\ handler' = [at |-> "publishCamera", command |-> command]
        /\ UNCHANGED device
     \/ ~active /\ device' = ClosedCameras({command}) /\ UNCHANGED handler
  /\ UNCHANGED <<life, wire, threads, open, fields, camera, session, owned,
                 pending, selected, builder, applied, statePublished, dimmed,
                 request, shot, service, commands, reports>>

\* ... and the camera is published later.
PublishCamera ==
  /\ handler.at = "publishCamera"
  /\ Rest
  /\ \/ /\ camera' = handler.command
        /\ device' = [device EXCEPT ![handler.command] = "configuring"]
        /\ UNCHANGED <<active, pending, dimmed, reports>>
     \/ /\ device' = ClosedCameras({handler.command})
        /\ camera' = None
        /\ RestoreScreenDimmed
        /\ FailCameraCommand(selected, handler.command)
  /\ UNCHANGED <<gate, wire, threads, open, fields, session, owned, selected,
                 builder, applied, statePublished, request, shot, service,
                 commands>>

SwitchConfigured(command) ==
  /\ Running /\ device[command] = "configuring"
  /\ \/ /\ active
        /\ handler' = [at |-> "publishSession", command |-> command]
        /\ UNCHANGED device
     \/ ~active /\ device' = ClosedCameras({command}) /\ UNCHANGED handler
  /\ UNCHANGED <<life, wire, threads, open, fields, camera, session, owned,
                 pending, selected, builder, applied, statePublished, dimmed,
                 request, shot, service, commands, reports>>

\* The camera is lost or its session refused while it is switched to, or
\* after that.
SwitchFails(command) ==
  /\ Running /\ device[command] \in {"opening", "configuring", "configured"}
  /\ device' = ClosedCameras({command})
  /\ IF device[command] = "configured" THEN dimmed' \in BOOLEAN
     ELSE RestoreScreenDimmed
  /\ FailCameraCommand(selected, command)
  /\ UNCHANGED <<gate, wire, threads, open, fields, camera, session, owned,
                 handler, selected, builder, applied, statePublished, request,
                 shot, service, commands>>

\* validateAndApplyCameraSettings
SettingsOK(controls, id) ==
  /\ controls.zoom # None => Contains(Info[id].zoom, controls.zoom)
  /\ controls.exposure # None =>
       /\ Contains(Info[id].exposure, controls.exposure)
       /\ controls.exposure % Info[id].exposure.step = 0
  /\ controls.torch # None => Info[id].torch \/ ~controls.torch

Applying(controls, settings) ==
  [field \in DOMAIN settings |->
     IF field = "fps" \/ controls[field] = None THEN settings[field]
     ELSE controls[field]]

SetRepeating(settings, tag) == request' = Repeating(settings, tag)

\* A failure may come before the target is selected, or after it.
PublishSession ==
  /\ handler.at = "publishSession"
  /\ Rest
  /\ LET command  == handler.command
         target   == asked[command].cameraId
         settings == Applying(asked[command], Unset(target))
     IN  \/ /\ SettingsOK(asked[command], target)
            /\ device[command] = "configuring"
            /\ device' = [device EXCEPT ![command] = "configured"]
            /\ selected' = target
            /\ session' = command
            /\ builder' = settings
            /\ SetRepeating(settings, command)
            /\ UNCHANGED <<active, camera, pending, dimmed, reports>>
         \/ /\ device' = ClosedCameras({command})
            /\ camera' = None /\ session' = None
            /\ RestoreScreenDimmed
            /\ \/ UNCHANGED <<selected, builder>>
               \/ /\ SettingsOK(asked[command], target)
                  /\ selected' = target /\ builder' = settings
            /\ FailCameraCommand(selected', command)
            /\ UNCHANGED request
  /\ UNCHANGED <<gate, wire, threads, open, fields, owned, applied,
                 statePublished, shot, service, commands>>
-------------------------------------------------------------------------------
(* The looper: the controls. *)

\* applyControls, one at a time.
TakeControl ==
  /\ Running /\ commands # <<>>
  /\ LET command == Head(commands)
     IN  \/ ~active /\ UNCHANGED <<handler, reports>>
         \/ /\ active /\ pending # None
            /\ PublishState(command, TRUE)
            /\ UNCHANGED handler
         \/ /\ active /\ pending = None
            /\ handler' = [at |-> "apply", command |-> command]
            /\ UNCHANGED reports
  /\ commands' = Tail(commands)
  /\ UNCHANGED <<life, wire, threads, held, pending, selected, builder, applied,
                 statePublished, dimmed, request, shot, service>>

\* The format is the only one there is, and there is no preview to mirror.  A
\* control that names no camera says null, which optString takes for a name.
NativeOK(controls) ==
  /\ controls.cameraId \in CameraId
  /\ controls.width \in {1280, None} /\ controls.height \in {720, None}
  /\ controls.fps \in {30 * Thousand, None}
  /\ controls.previewMirrored = None

\* Mutation: what was not asked for is taken for a value.
DimUnasked(controls) == dimmed' = controls.screenDimmed

\* The screen was dimmed as asked, if it was asked for.
Dim(controls) ==
  dimmed' = IF controls.screenDimmed = None THEN dimmed
            ELSE controls.screenDimmed

\* Mutation: the command is dropped in silence.
RefuseSilently(command) == UNCHANGED <<reports, pending, dimmed>>

Refuse(command) ==
  /\ PublishState(command, TRUE)
  /\ UNCHANGED <<pending, dimmed>>

\* What was set in the request before a failure: zoom, exposure and torch are
\* set in this order, each once it is found to be valid.
HalfDone ==
  \E set \in {{}, {"zoom"}, {"zoom", "exposure"}, {"zoom", "exposure", "torch"}} :
    LET part == [field \in DOMAIN NoControls |->
                   IF field \in set THEN asked[handler.command][field] ELSE None]
    IN  SettingsOK(part, selected) /\ builder' = Applying(part, builder)

\* Mutation: what was set before the failure stays in the request.
KeepBuilder == HalfDone /\ UNCHANGED request

\* What is applied passes the camera's own tests again, unless it has no range
\* of zoom or exposure: its step may be zero, then.
Restorable(id) == None \notin {Info[id].zoom, Info[id].exposure}

\* rebuildConfirmedRequest, as long as there is a camera: as applied, but for
\* the frame rate, which is 30 whatever the camera's range is.  What it throws
\* is caught.
RebuildConfirmedRequest ==
  LET confirmed == [zoom |-> applied.zoom, exposure |-> applied.exposure,
                    torch |-> applied.torch, fps |-> 30 * Thousand]
  IN  \/ camera = None /\ UNCHANGED <<builder, request>>
      \/ /\ camera # None
         /\ builder' = confirmed
         /\ IF session = None THEN UNCHANGED request
            ELSE SetRepeating(confirmed, None)
      \/ /\ camera # None /\ ~Restorable(selected)
         /\ HalfDone /\ UNCHANGED request

\* applyCurrentCameraControls: all of it, or none if that can be restored.
ApplyCurrent(command) ==
  LET controls == asked[command]
  IN  \/ /\ SettingsOK(controls, selected) /\ builder # None /\ session # None
         /\ builder' = Applying(controls, builder)
         /\ Dim(controls)
         /\ pending' = command
         /\ SetRepeating(builder', command)
         /\ UNCHANGED reports
      \/ /\ builder # None
         /\ RebuildConfirmedRequest
         /\ Refuse(command)
      \/ builder = None /\ Refuse(command) /\ UNCHANGED <<builder, request>>

Apply ==
  /\ handler.at = "apply"
  /\ LET controls == asked[handler.command]
     IN  \/ /\ ~NativeOK(controls)
            /\ Refuse(handler.command) /\ UNCHANGED <<builder, request>>
         \/ /\ NativeOK(controls) /\ controls.cameraId = selected
            /\ ApplyCurrent(handler.command)
  /\ Rest
  /\ UNCHANGED <<life, wire, threads, held, selected, applied, statePublished,
                 shot, service, commands>>

\* switchCamera: the camera in use is closed before the other one is opened.
SwitchCamera ==
  /\ handler.at = "apply"
  /\ LET command  == handler.command
         controls == asked[command]
     IN  /\ NativeOK(controls) /\ controls.cameraId # selected
         /\ \/ /\ controls.screenDimmed # None
               /\ Refuse(command)
               /\ UNCHANGED <<active, camera, session, device, builder, request,
                              shot>>
            \/ /\ camera' = None /\ session' = None
               /\ builder' = None /\ request' = None /\ shot' = None
               /\ \/ /\ Dim(controls)
                     /\ pending' = command
                     /\ device' = [ClosedCameras({camera}) EXCEPT
                                     ![command] = "opening"]
                     /\ UNCHANGED <<active, reports>>
                  \/ /\ device' = ClosedCameras({camera})
                     /\ PublishState(command, TRUE)
                     /\ active' = FALSE
                     /\ UNCHANGED <<pending, dimmed>>
  /\ Rest
  /\ UNCHANGED <<gate, wire, threads, open, fields, owned, selected, applied,
                 statePublished, service, commands>>

\* Three seconds without an acknowledgement end the capture.
AcknowledgementTimeout ==
  /\ Running /\ pending # None /\ active
  /\ pending' = None
  /\ PublishState(pending, TRUE)
  /\ active' = FALSE
  /\ UNCHANGED <<gate, wire, threads, held, handler, selected, builder, applied,
                 statePublished, dimmed, request, shot, service, commands>>

\* The camera takes up what it was told; its zoom may stay as it was.
TakeUpRequest ==
  /\ session # None /\ device[session] = "configured"
  /\ request # None /\ shot # request
  /\ \E zoom \in {request.zoom, IF shot = None THEN Thousand ELSE shot.zoom} :
       shot' = [request EXCEPT !.zoom = zoom]
  /\ UNCHANGED <<life, wire, threads, held, handler, pending, selected, builder,
                 applied, statePublished, dimmed, request, service, commands,
                 reports>>

\* What a result of the camera says.
Now ==
  [cameraId |-> selected, width |-> 1280, height |-> 720,
   fps |-> shot.fps, zoom |-> shot.zoom,
   exposure |-> shot.exposure, torch |-> shot.torch,
   previewMirrored |-> FALSE, screenDimmed |-> dimmed]

\* appliedControlError: how far a value may be from the one asked for.
Tolerance(field, value) ==
  CASE field = "zoom" -> IF value > 10 * Thousand THEN value \div 500 ELSE 20
    [] field = "fps" -> 1
    [] OTHER -> 0

AppliedControlError(controls, result) ==
  \E field \in Asked(controls) :
    IF field \in {"zoom", "exposure", "fps"}
    THEN ~Near(result[field], controls[field], Tolerance(field, controls[field]))
    ELSE result[field] # controls[field]

\* Only a result of the request that a command made acknowledges it.
IsAcknowledgement == pending # None /\ shot.tag = pending

\* Mutation: the report is written before the result is taken into it.
ReportedBefore(command, error) ==
  [Published(selected, command, error) EXCEPT
     !.applied = IF applied = None THEN Now ELSE applied]

\* publishState, once the result is the state that is applied.
Reported(command, error) ==
  [Published(selected, command, error) EXCEPT !.applied = Now]

\* captureResults
Completes ==
  /\ Running /\ active
  /\ session # None /\ device[session] = "configured" /\ shot # None
  /\ applied' = Now
  /\ statePublished' = TRUE

CaptureCompleted ==
  /\ Completes
  /\ \/ /\ IsAcknowledgement
        /\ LET error == AppliedControlError(asked[pending], Now)
           IN  /\ reports' = Append(reports, Reported(pending, error))
               /\ active' = ~error
        /\ pending' = None
     \/ /\ ~IsAcknowledgement
        /\ reports' = IF statePublished THEN reports
                      ELSE Append(reports, Reported(None, FALSE))
        /\ UNCHANGED <<active, pending>>
  /\ UNCHANGED <<gate, wire, threads, held, handler, selected, builder, dimmed,
                 request, shot, service, commands>>

\* publishState looks at "active" again: if another thread has ended the
\* capture meanwhile, nothing is said.
CaptureOvertaken(t) ==
  /\ Completes /\ EndsCapture(t)
  /\ pending' = IF IsAcknowledgement THEN None ELSE pending
  /\ UNCHANGED <<gate, wire, next, held, handler, selected, builder, dimmed,
                 request, shot, service, commands, reports>>

LooperStep ==
  \/ CameraOpened \/ SessionConfigured \/ TerminalFailure
  \/ \E c \in Command : SwitchOpened(c) \/ SwitchConfigured(c) \/ SwitchFails(c)
  \/ PublishCamera \/ PublishSession
  \/ TakeControl \/ Apply \/ SwitchCamera
  \/ AcknowledgementTimeout \/ CaptureCompleted
  \/ \E t \in Thread : CaptureOvertaken(t)
-------------------------------------------------------------------------------
(* The service. *)

\* camera_control, and what the capture loop sends to the phone for it.
CameraControl(command, controls) ==
  /\ op[command] = "none" /\ known # None
  /\ Admits(controls, known.caps, known.applied)
  /\ op' = [op EXCEPT ![command] = "pending"]
  /\ asked' = [asked EXCEPT ![command] = controls]
  /\ commands' = Append(commands, command)
  /\ UNCHANGED <<life, wire, threads, held, looper, known, reports>>

\* The capture loop publishes what the phone reports, and what became of the
\* operation that it names.
CameraState ==
  /\ reports # <<>>
  /\ LET report == Head(reports)
     IN  /\ known' = [caps |-> report.caps, applied |-> report.applied]
         /\ op' = [c \in Command |->
                     IF c = report.command /\ op[c] = "pending"
                     THEN IF report.error THEN "failed" ELSE "succeeded"
                     ELSE op[c]]
  /\ reports' = Tail(reports)
  /\ UNCHANGED <<life, wire, threads, held, looper, asked, commands>>

ServiceStep ==
  \/ \E c \in Command, controls \in Requests : CameraControl(c, controls)
  \/ CameraState

Next ==
  \/ RunStep
  \/ Stop \/ HangUp
  \/ \E t \in Thread : EndStep(t)
  \/ LooperStep \/ TakeUpRequest
  \/ ServiceStep

Spec == Init /\ [][Next]_vars
-------------------------------------------------------------------------------
(* Properties. *)

CapsType == {Capabilities(id) : id \in CameraId}
ReportType ==
  [command : Command \cup {None}, caps : CapsType, applied : AppliedType,
   error : BOOLEAN]

\* Every variable has its type.
TypeOK ==
  /\ active \in BOOLEAN /\ gate \in BOOLEAN /\ terminal \in BOOLEAN
  /\ records \in 0 .. MaxRecords
  /\ at["run"] \in {"acquire", "publish", "open", "opening", "configure",
                 "configuring", "repeat", "drain", "write", "invalidate",
                 "gate", "terminal", "take", "close", "quit", "end"}
  /\ at["stop"] \in {"idle", "invalidate", "gate", "hangup", "terminal", "take",
                  "close", "quit", "end"}
  /\ DOMAIN at = Thread
  /\ wasActive \in BOOLEAN /\ next \in 0 .. Len(Acquired)
  /\ open \subseteq Resource /\ fields \subseteq Resource
  /\ camera \in Device \cup {None} /\ session \in Device \cup {None}
  /\ owned \in [Thread -> SUBSET (Resource \cup Device)]
  /\ device \in [Device -> {"none", "opening", "opened", "configuring",
                            "configured", "closed"}]
  /\ handler \in [at : {"idle", "apply", "publishCamera", "publishSession"},
                  command : Command \cup {None}]
  /\ pending \in Command \cup {None} /\ selected \in CameraId
  /\ builder \in Settings \cup {None}
  /\ request \in ShotType \cup {None} /\ shot \in ShotType \cup {None}
  /\ applied \in AppliedType \cup {None}
  /\ statePublished \in BOOLEAN /\ dimmed \in BOOLEAN
  /\ known \in [caps : CapsType, applied : AppliedType] \cup {None}
  /\ op \in [Command -> {"none", "pending", "succeeded", "failed"}]
  /\ asked \in [Command -> Requests \cup {NoControls}]
  /\ commands \in Seq(Command)
  /\ reports \in Seq(ReportType)

\* When the threads are done, nothing that the fields of the streamer held
\* before it was invalidated is left: what is open was never published, or a
\* camera that was published too late ("Camera, capture session, encoder,
\* surface, socket, and handler thread are owned by one object and released
\* deterministically").
PublishedIsReleased ==
  at["run"] = "end" /\ at["stop"] \in {"idle", "end"} =>
    /\ open = {}
    /\ \A d \in Device :
         device[d] \in {"opened", "configuring", "configured"} => camera = d

\* After the terminal record no media record follows, whichever thread writes
\* it (writeMediaRecord, sendTerminalStop).
NothingFollowsTheTerminal == [][terminal => records' = records]_vars

\* A zoom within the tolerance that it was acknowledged with.
SameZoom(a, b) ==
  Near(a, b, Tolerance("zoom", a)) \/ Near(a, b, Tolerance("zoom", b))

\* A state without what its camera has no range for, and without its frame rate.
Offered(state, caps) ==
  [state EXCEPT !.fps = 30 * Thousand,
                !.zoom = IF caps.zoom = None THEN None ELSE @,
                !.exposure = IF caps.exposure = None THEN None ELSE @]

\* Between two controls of a capture that goes on, the service shows what the
\* camera does, and that is a valid state of the camera it has selected: no
\* refused, late or half-done control has changed it in silence.  The zoom may
\* still move within the tolerance of its acknowledgement, or further if the
\* request could not be rebuilt; of the frame rate, which
\* rebuildConfirmedRequest sets to 30, nothing is said.
QuietCapture ==
  /\ active /\ Idle /\ pending = None /\ known # None /\ shot # None
  /\ commands = <<>> /\ reports = <<>>
KnowsTheCamera ==
  QuietCapture =>
    /\ known.caps = Capabilities(selected)
    /\ AppliedOK(Offered(known.applied, known.caps), known.caps)
    /\ \A field \in DOMAIN Now \ {"fps", "zoom"} :
         known.applied[field] = Now[field]
    /\ Restorable(selected) => SameZoom(known.applied.zoom, Now.zoom)

\* No control is lost as long as the capture goes on: the service has its
\* outcome, it is on its way, or the camera still has to acknowledge it.
NoControlIsLost ==
  active /\ Idle /\ commands = <<>> =>
    \A c \in Command : op[c] = "pending" =>
      c = pending \/ \E i \in DOMAIN reports : reports[i].command = c

\* What was asked for is shown, and on the same camera, if its request can be
\* rebuilt, nothing else changed but the frame rate.
Done(controls, before, after) ==
  /\ Reflects(after, [controls EXCEPT !.zoom = None])
  /\ controls.zoom # None => SameZoom(after.zoom, controls.zoom)
  /\ after.cameraId = before.cameraId /\ Restorable(after.cameraId) =>
       /\ \A field \in DOMAIN NoControls \ (Asked(controls) \cup {"fps", "zoom"}) :
            after[field] = before[field]
       /\ controls.zoom = None => SameZoom(after.zoom, before.zoom)

\* A control that succeeded was done, and nothing that it did not ask for was
\* done to the same camera with it, by what the service is told
\* (is_reflected_by, appliedControlError, applyCurrentCameraControls).
Succeeds(c) == op[c] = "pending" /\ op'[c] = "succeeded"
OnlyWhatWasAskedIsDone ==
  [][\A c \in Command : Succeeds(c) =>
       Done(asked[c], known.applied, known'.applied)]_vars

\* "A callback from a stopped generation cannot republish a camera or session":
\* once the gate is closed, neither field is given a value.
StoppedPublishesNothing ==
  [][~gate => camera' \in {camera, None} /\ session' \in {session, None}]_vars
===============================================================================
