--------------------------- MODULE MCCameraStreamer ---------------------------
(* A small instance of CameraStreamer: a rear camera and a front camera that  *)
(* can do less, two controls.                                                 *)
EXTENDS CameraStreamer, TLC

CONSTANTS rear, front, com1, com2

RearThenFront == <<rear, front>>

CanDo ==
  rear :> [fps |-> Range(30000, 30000, 0), zoom |-> Range(1000, 4000, 0),
           exposure |-> Range(-2000, 2000, 500), torch |-> TRUE] @@
  front :> [fps |-> Range(30000, 60000, 0), zoom |-> Range(1000, 1500, 0),
            exposure |-> None, torch |-> FALSE]

\* A switch, a zoom that only one camera has and one that both have, an
\* adjustment of the front camera as it is, a step of exposure that the camera
\* does not have together with a zoom that it has, the screen, and a control
\* that names no camera.
SomeControls ==
  LET Rear == [NoControls EXCEPT !.cameraId = rear]
  IN  {[NoControls EXCEPT !.cameraId = front],
       [Rear EXCEPT !.zoom = 2000],
       [Rear EXCEPT !.zoom = 1010],
       [NoControls EXCEPT !.cameraId = front, !.fps = 30000, !.zoom = 1010],
       [Rear EXCEPT !.zoom = 3000, !.exposure = 700],
       [Rear EXCEPT !.fps = 30000, !.screenDimmed = TRUE],
       [NoControls EXCEPT !.zoom = 2000]}

\* Which control has which name makes no difference.
Symmetry == Permutations(Command)
===============================================================================
