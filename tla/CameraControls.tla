---------------------------- MODULE CameraControls ----------------------------
(***************************************************************************)
(* What a phone may report of its cameras, what may be asked of them, and  *)
(* when a report shows that it was done                                    *)
(* (crates/omacam-core/src/camera.rs), and the service's own test of a     *)
(* control for the phone application (service_runtime.rs).                 *)
(*                                                                         *)
(* A number that the code keeps as a float is a count of thousandths here: *)
(* JSON carries no other than finite ones.  Labels, focus modes, lists of  *)
(* frame rates and the bounds on lengths are left out.                     *)
(***************************************************************************)
EXTENDS Integers, Sequences

CONSTANT None

Thousand == 1000

NoControls ==
  [cameraId |-> None, width |-> None, height |-> None, fps |-> None,
   zoom |-> None, exposure |-> None, torch |-> None,
   previewMirrored |-> None, screenDimmed |-> None]

Asked(controls) == {f \in DOMAIN controls : controls[f] # None}

Contains(range, value) ==
  range # None /\ range.min <= value /\ value <= range.max

RangeOK(range) == range # None => range.min <= range.max /\ range.step >= 0

WidthOK(width)   == width  \in 320 .. 4096 /\ width % 2 = 0
HeightOK(height) == height \in 240 .. 4096 /\ height % 2 = 0
PixelsOK(width, height) == width * height <= 3840 * 2160
FpsOK(fps) == fps \in 15 * Thousand .. 60 * Thousand

FormatOK(format) ==
  /\ WidthOK(format.width) /\ HeightOK(format.height)
  /\ PixelsOK(format.width, format.height)
  /\ FpsOK(format.fps)

CamerasOf(caps) == {caps.cameras[i] : i \in DOMAIN caps.cameras}

\* CameraCapabilities::validate
CapabilitiesOK(caps) ==
  /\ \A i, j \in DOMAIN caps.cameras :
       caps.cameras[i].id = caps.cameras[j].id => i = j
  /\ \A camera \in CamerasOf(caps) : \A mode \in camera.modes : FormatOK(mode)
  /\ RangeOK(caps.zoom) /\ RangeOK(caps.exposure)

\* AppliedCameraState::validate
AppliedOK(applied, caps) ==
  /\ CapabilitiesOK(caps)
  /\ \E camera \in CamerasOf(caps) : camera.id = applied.cameraId
  /\ FormatOK(applied)
  /\ applied.zoom # None => Contains(caps.zoom, applied.zoom)
  /\ applied.exposure # None => Contains(caps.exposure, applied.exposure)
  /\ applied.torch => caps.torch
  /\ applied.screenDimmed => caps.screenDimSupported

Near(a, b, tolerance) == a - b \in -tolerance .. tolerance

Format(controls) == {controls.width, controls.height, controls.fps}

\* A whole format has to be a mode of the camera asked for, or of the first.
ModeOffered(controls, caps) ==
  \A i \in DOMAIN caps.cameras :
    LET camera == caps.cameras[i]
        meant  == IF controls.cameraId = None THEN i = 1
                  ELSE camera.id = controls.cameraId
    IN  meant /\ camera.modes # {} /\ None \notin Format(controls) =>
          \E mode \in camera.modes :
            /\ mode.width = controls.width /\ mode.height = controls.height
            /\ Near(mode.fps, controls.fps, Thousand \div 2)

\* RequestedControls::validate
ControlsOK(controls, caps) ==
  /\ CapabilitiesOK(caps)
  /\ controls.cameraId # None =>
       \E camera \in CamerasOf(caps) : camera.id = controls.cameraId
  /\ controls.width # None => WidthOK(controls.width)
  /\ controls.height # None => HeightOK(controls.height)
  /\ controls.fps # None => FpsOK(controls.fps)
  /\ None \notin {controls.width, controls.height} =>
       PixelsOK(controls.width, controls.height)
  /\ ModeOffered(controls, caps)
  /\ controls.zoom # None => Contains(caps.zoom, controls.zoom)
  /\ controls.exposure # None => Contains(caps.exposure, controls.exposure)
  /\ controls.torch # None => caps.torch
  /\ controls.screenDimmed # None => caps.screenDimSupported

\* RequestedControls::is_reflected_by: fields that were not asked for are
\* ignored, and the frame rate is compared more loosely than the others.
Reflects(applied, controls) ==
  \A field \in Asked(controls) :
    \/ applied[field] = controls[field]
    \/ field = "fps" /\ Near(applied.fps, controls.fps, Thousand \div 2)
    \/ /\ field \in {"zoom", "exposure"} /\ applied[field] # None
       /\ Near(applied[field], controls[field], 1)

\* ServiceRuntime::camera_control: what is not asked for stays as it is, and
\* the format that results must be a mode of the camera that results.
Admits(controls, caps, applied) ==
  LET Or(field) == IF controls[field] = None THEN applied[field]
                   ELSE controls[field]
  IN  /\ ControlsOK(controls, caps)
      /\ Or("cameraId") # applied.cameraId =>
           Asked(controls) \cap {"zoom", "exposure", "torch"} = {}
      /\ \E camera \in CamerasOf(caps) :
           /\ camera.id = Or("cameraId")
           /\ [width |-> Or("width"), height |-> Or("height"),
               fps |-> Or("fps")] \in camera.modes
===============================================================================
