------------------------- MODULE CameraStreamerProofs -------------------------
(***************************************************************************)
(* Proofs about CameraStreamer, for any cameras, controls and bounds: the  *)
(* media stream ends with its terminal record, and whatever was published  *)
(* is released.                                                            *)
(*                                                                         *)
(* The invariant that carries them accounts for every resource (it is in   *)
(* the fields, taken by a thread that ends, or about to be published) and  *)
(* for every camera: at most one exists that no thread is closing, and it  *)
(* is the one in the field or on its way there.                            *)
(***************************************************************************)
EXTENDS CameraStreamer, TLAPS

Step ==
  {"acquire", "publish", "open", "opening", "configure", "configuring",
   "repeat", "drain", "write", "idle", "invalidate", "gate", "hangup",
   "terminal", "take", "close", "quit", "end"}
DeviceState ==
  {"none", "opening", "opened", "configuring", "configured", "closed"}
HandlerStep == {"idle", "apply", "publishCamera", "publishSession"}

\* Once a thread has invalidated the streamer, and once it has closed the gate.
Ended == {"gate", "hangup", "terminal", "take", "close", "quit", "end"}
Closed == Ended \ {"gate"}

\* A camera that exists, and one that does or will.
Held == {"opened", "configuring", "configured"}
Live == Held \cup {"opening"}

\* The cameras that a thread is about to close.
Closing == {d \in Device : \E t \in Thread : at[t] = "close" /\ d \in owned[t]}

Types ==
  /\ at \in [Thread -> Step] /\ next \in 0 .. 5
  /\ open \subseteq Resource /\ fields \subseteq Resource
  /\ camera \in Device \cup {None} /\ session \in Device \cup {None}
  /\ owned \in [Thread -> SUBSET (Resource \cup Device)]
  /\ device \in [Device -> DeviceState]
  /\ handler \in [at : HandlerStep, command : Command \cup {None}]
  /\ ~Idle => handler.command \in Command
  /\ pending \in Command \cup {None}
  /\ commands \in Seq(Command)

\* Whoever ends the capture has invalidated it and closed the gate before.
EndsInvalidated ==
  /\ \A t \in Thread : at[t] \in Ended => ~active
  /\ \A t \in Thread : at[t] \in Closed => ~gate
  /\ terminal => ~active

\* What is open is held by somebody.
Accounted ==
  /\ \A r \in open :
       \/ r \in fields
       \/ \E t \in Thread : r \in owned[t]
       \/ at["run"] = "publish" /\ r = Acquired[next + 1]
  /\ \A t \in Thread : owned[t] # {} => at[t] \in {"close", "quit"}
  /\ at["run"] \in {"close", "quit", "end"} => fields = {}
  /\ at["run"] \in {"acquire", "publish"} => next \in 0 .. 4

\* Nothing happens on the looper before the camera of the start has opened.
StartsFirst ==
  /\ at["run"] \in {"acquire", "publish", "open"} => device["startup"] = "none"
  /\ device["startup"] \in {"none", "opening"} =>
       /\ camera = None /\ session = None /\ Idle /\ pending = None
       /\ applied = None /\ known = None /\ commands = <<>> /\ reports = <<>>
       /\ \A c \in Command : device[c] = "none"
       /\ \A t \in Thread : owned[t] \subseteq Resource

\* There is one camera: in the field, or on its way there.
OneCamera ==
  /\ \A d \in Device : device[d] \in Held => camera = d \/ d \in Closing
  /\ \A d, e \in Device :
       d # e /\ device[d] \in Live /\ device[e] \in Live
         => d \in Closing \/ e \in Closing
  /\ handler.at \in {"publishCamera", "publishSession"} =>
       \A d \in Device \ {handler.command} :
         device[d] \in Live => d \in Closing
  /\ \A c \in Command : device[c] = "opening" =>
       handler.at # "apply" /\ (active => pending = c)

IInv == Types /\ EndsInvalidated /\ Accounted /\ StartsFirst /\ OneCamera

\* The names of the constants stand for different things.
LEMMA Names ==
  None \notin Device /\ Command \cap (Resource \cup {"startup"}) = {}
BY StreamerOK, Zenon DEF StreamerOK

\* Every place of the order in which resources are acquired names one.
LEMMA AcquiredIs == \A n \in 0 .. 4 : Acquired[n + 1] \in Resource
BY SMT DEF Acquired, Resource

\* failCameraCommand ends the capture, and forgets a command at most.
LEMMA Failing ==
  ASSUME NEW id, NEW c \in Command, FailCameraCommand(id, c)
  PROVE  ~active' /\ pending' \in {pending, None}
<1>1. ~active'
  BY Zenon DEF FailCameraCommand
<1>2. pending' = None \/ UNCHANGED pending
  BY Zenon DEF FailCameraCommand
<1> QED BY <1>1, <1>2

\* What is taken from a queue of commands, and what is left.
LEMMA HeadTail ==
  ASSUME NEW q \in Seq(Command), q # <<>>
  PROVE  Head(q) \in Command /\ Tail(q) \in Seq(Command)
BY SMT

\* A capture that starts satisfies the invariant.
LEMMA InitInv == Init => IInv
<1> SUFFICES ASSUME Init PROVE IInv
  OBVIOUS
<1> USE Names DEF Init, Device
<1>1. Types
  <2>1. at \in [Thread -> Step] /\ owned \in [Thread -> SUBSET (Resource \cup Device)]
    BY SMT DEF Thread, Step
  <2>2. device \in [Device -> DeviceState]
    BY SMT DEF DeviceState
  <2>3. handler \in [at : HandlerStep, command : Command \cup {None}] /\ Idle
    BY SMT DEF Idle, HandlerStep
  <2>4. commands \in Seq(Command)
    BY SMT
  <2>5. open \subseteq Resource /\ fields \subseteq Resource
    BY SMT
  <2>6. camera \in Device \cup {None} /\ session \in Device \cup {None}
    BY SMT
  <2>7. next \in 0 .. 5 /\ pending \in Command \cup {None}
    BY SMT
  <2> QED BY <2>1, <2>2, <2>3, <2>4, <2>5, <2>6, <2>7, Zenon DEF Types
<1>2. EndsInvalidated
  BY SMT DEF EndsInvalidated, Thread, Ended, Closed
<1>3. Accounted
  BY SMT DEF Accounted, Thread
<1>4. StartsFirst
  BY SMT DEF StartsFirst, Thread, Idle
<1>5. OneCamera
  BY SMT DEF OneCamera, Held, Live, Closing, Thread
<1> QED BY <1>1, <1>2, <1>3, <1>4, <1>5 DEF IInv

\* Every step of the threads, the looper and the service keeps it.
LEMMA StepInv == IInv /\ [Next]_vars => IInv'
<1> SUFFICES ASSUME IInv, [Next]_vars PROVE IInv'
  OBVIOUS
<1> USE Names, AcquiredIs
    DEF IInv, Thread, Step, DeviceState, HandlerStep, Ended, Closed, Held, Live,
        Closing, Idle, Running, Goto, Device, life, wire, threads, held, looper,
        service
<1>1. CASE Finally
  <2>1. Types'
    BY <1>1, SMTT(20) DEF Finally, Types
  <2>2. EndsInvalidated'
    BY <1>1, SMTT(20) DEF Finally, EndsInvalidated, Types
  <2>3. Accounted'
    BY <1>1, SMTT(20) DEF Finally, Accounted, EndsInvalidated, Types
  <2>4. StartsFirst'
    BY <1>1, SMTT(20)
    DEF Finally, Types, EndsInvalidated, Accounted, StartsFirst, OneCamera
  <2>5. OneCamera'
    BY <1>1, SMTT(20)
    DEF Finally, Types, EndsInvalidated, Accounted, StartsFirst, OneCamera
  <2> QED BY <2>1, <2>2, <2>3, <2>4, <2>5 DEF IInv
<1>2. CASE Acquire
  <2>1. Acquired[next + 1] \in Resource
    BY <1>2, SMT DEF Acquire, Accounted
  <2>2. Types'
    BY <1>2, <2>1, SMTT(20) DEF Acquire, Types
  <2>3. EndsInvalidated'
    BY <1>2, SMTT(20) DEF Acquire, EndsInvalidated, Types
  <2>4. Accounted'
    BY <1>2, SMTT(20) DEF Acquire, Accounted, EndsInvalidated, Types
  <2>5. StartsFirst'
    BY <1>2, SMTT(20)
    DEF Acquire, Types, EndsInvalidated, Accounted, StartsFirst, OneCamera
  <2>6. OneCamera'
    BY <1>2, SMTT(20)
    DEF Acquire, Types, EndsInvalidated, Accounted, StartsFirst, OneCamera
  <2> QED BY <2>2, <2>3, <2>4, <2>5, <2>6 DEF IInv
<1>3. CASE Publish
  <2>1. Acquired[next + 1] \in Resource /\ Len(Acquired) = 5 /\ next \in 0 .. 4
    <3>1. Len(Acquired) = 5
      BY SMT DEF Acquired
    <3> QED BY <1>3, <3>1, SMT DEF Publish, Accounted
  <2>2. Types'
    <3>1. CASE gate
      BY <1>3, <2>1, <3>1, SMTT(20) DEF Publish, Types
    <3>2. CASE ~gate
      BY <1>3, <2>1, <3>2, SMTT(20) DEF Publish, Types
    <3> QED BY <3>1, <3>2
  <2>3. EndsInvalidated'
    BY <1>3, SMTT(20) DEF Publish, EndsInvalidated, Types
  <2>4. Accounted'
    <3>1. CASE gate
      BY <1>3, <2>1, <3>1, SMTT(20) DEF Publish, Accounted, Types
    <3>2. CASE ~gate
      BY <1>3, <2>1, <3>2, SMTT(20) DEF Publish, Accounted, Types
    <3> QED BY <3>1, <3>2
  <2>5. StartsFirst'
    BY <1>3, SMTT(20)
    DEF Publish, Types, EndsInvalidated, Accounted, StartsFirst, OneCamera
  <2>6. OneCamera'
    BY <1>3, SMTT(20)
    DEF Publish, Types, EndsInvalidated, Accounted, StartsFirst, OneCamera
  <2> QED BY <2>2, <2>3, <2>4, <2>5, <2>6 DEF IInv
<1>4. CASE OpenCamera
  <2>1. Types'
    BY <1>4, SMTT(20) DEF OpenCamera, Types
  <2>2. EndsInvalidated'
    BY <1>4, SMTT(20) DEF OpenCamera, EndsInvalidated, Types
  <2>3. Accounted'
    BY <1>4, SMTT(20) DEF OpenCamera, Accounted, EndsInvalidated, Types
  <2>4. StartsFirst'
    BY <1>4, SMTT(20)
    DEF OpenCamera, Types, EndsInvalidated, Accounted, StartsFirst, OneCamera
  <2>5. OneCamera'
    BY <1>4, SMTT(20)
    DEF OpenCamera, Types, EndsInvalidated, Accounted, StartsFirst, OneCamera
  <2> QED BY <2>1, <2>2, <2>3, <2>4, <2>5 DEF IInv
<1>5. CASE CameraAwaited
  <2>1. Types'
    BY <1>5, SMTT(20) DEF CameraAwaited, Types
  <2>2. EndsInvalidated'
    BY <1>5, SMTT(20) DEF CameraAwaited, EndsInvalidated, Types
  <2>3. Accounted'
    BY <1>5, SMTT(20) DEF CameraAwaited, Accounted, EndsInvalidated, Types
  <2>4. StartsFirst'
    BY <1>5, SMTT(20)
    DEF CameraAwaited, Types, EndsInvalidated, Accounted, StartsFirst,
        OneCamera
  <2>5. OneCamera'
    BY <1>5, SMTT(20)
    DEF CameraAwaited, Types, EndsInvalidated, Accounted, StartsFirst,
        OneCamera
  <2> QED BY <2>1, <2>2, <2>3, <2>4, <2>5 DEF IInv
<1>6. CASE CreateSession
  <2>1. Types'
    BY <1>6, SMTT(20) DEF CreateSession, Types
  <2>2. EndsInvalidated'
    BY <1>6, SMTT(20) DEF CreateSession, EndsInvalidated, Types
  <2>3. Accounted'
    BY <1>6, SMTT(20) DEF CreateSession, Accounted, EndsInvalidated, Types
  <2>4. StartsFirst'
    BY <1>6, SMTT(20)
    DEF CreateSession, Types, EndsInvalidated, Accounted, StartsFirst,
        OneCamera
  <2>5. OneCamera'
    BY <1>6, SMTT(20)
    DEF CreateSession, Types, EndsInvalidated, Accounted, StartsFirst,
        OneCamera
  <2> QED BY <2>1, <2>2, <2>3, <2>4, <2>5 DEF IInv
<1>7. CASE SessionAwaited
  <2>1. Types'
    BY <1>7, SMTT(20) DEF SessionAwaited, Types
  <2>2. EndsInvalidated'
    BY <1>7, SMTT(20) DEF SessionAwaited, EndsInvalidated, Types
  <2>3. Accounted'
    BY <1>7, SMTT(20) DEF SessionAwaited, Accounted, EndsInvalidated, Types
  <2>4. StartsFirst'
    BY <1>7, SMTT(20)
    DEF SessionAwaited, Types, EndsInvalidated, Accounted, StartsFirst,
        OneCamera
  <2>5. OneCamera'
    BY <1>7, SMTT(20)
    DEF SessionAwaited, Types, EndsInvalidated, Accounted, StartsFirst,
        OneCamera
  <2> QED BY <2>1, <2>2, <2>3, <2>4, <2>5 DEF IInv
<1>8. CASE StartRepeating
  <2>1. Types'
    BY <1>8, SMTT(20) DEF StartRepeating, Types
  <2>2. EndsInvalidated'
    BY <1>8, SMTT(20) DEF StartRepeating, EndsInvalidated, Types
  <2>3. Accounted'
    BY <1>8, SMTT(20) DEF StartRepeating, Accounted, EndsInvalidated, Types
  <2>4. StartsFirst'
    BY <1>8, SMTT(20)
    DEF StartRepeating, Types, EndsInvalidated, Accounted, StartsFirst,
        OneCamera
  <2>5. OneCamera'
    BY <1>8, SMTT(20)
    DEF StartRepeating, Types, EndsInvalidated, Accounted, StartsFirst,
        OneCamera
  <2> QED BY <2>1, <2>2, <2>3, <2>4, <2>5 DEF IInv
<1>9. CASE Drain
  <2>1. Types'
    BY <1>9, SMTT(20) DEF Drain, Types
  <2>2. EndsInvalidated'
    BY <1>9, SMTT(20) DEF Drain, EndsInvalidated, Types
  <2>3. Accounted'
    BY <1>9, SMTT(20) DEF Drain, Accounted, EndsInvalidated, Types
  <2>4. StartsFirst'
    BY <1>9, SMTT(20)
    DEF Drain, Types, EndsInvalidated, Accounted, StartsFirst, OneCamera
  <2>5. OneCamera'
    BY <1>9, SMTT(20)
    DEF Drain, Types, EndsInvalidated, Accounted, StartsFirst, OneCamera
  <2> QED BY <2>1, <2>2, <2>3, <2>4, <2>5 DEF IInv
<1>10. CASE WriteMediaRecord
  <2>1. Types'
    BY <1>10, SMTT(20) DEF WriteMediaRecord, Types
  <2>2. EndsInvalidated'
    BY <1>10, SMTT(20) DEF WriteMediaRecord, EndsInvalidated, Types
  <2>3. Accounted'
    BY <1>10, SMTT(20) DEF WriteMediaRecord, Accounted, EndsInvalidated, Types
  <2>4. StartsFirst'
    BY <1>10, SMTT(20)
    DEF WriteMediaRecord, Types, EndsInvalidated, Accounted, StartsFirst,
        OneCamera
  <2>5. OneCamera'
    BY <1>10, SMTT(20)
    DEF WriteMediaRecord, Types, EndsInvalidated, Accounted, StartsFirst,
        OneCamera
  <2> QED BY <2>1, <2>2, <2>3, <2>4, <2>5 DEF IInv
<1>11. CASE Stop
  <2>1. Types'
    BY <1>11, SMTT(20) DEF Stop, Types
  <2>2. EndsInvalidated'
    BY <1>11, SMTT(20) DEF Stop, EndsInvalidated, Types
  <2>3. Accounted'
    BY <1>11, SMTT(20) DEF Stop, Accounted, EndsInvalidated, Types
  <2>4. StartsFirst'
    BY <1>11, SMTT(20)
    DEF Stop, Types, EndsInvalidated, Accounted, StartsFirst, OneCamera
  <2>5. OneCamera'
    BY <1>11, SMTT(20)
    DEF Stop, Types, EndsInvalidated, Accounted, StartsFirst, OneCamera
  <2> QED BY <2>1, <2>2, <2>3, <2>4, <2>5 DEF IInv
<1>12. CASE HangUp
  <2>1. Types'
    BY <1>12, SMTT(20) DEF HangUp, Types
  <2>2. EndsInvalidated'
    BY <1>12, SMTT(20) DEF HangUp, EndsInvalidated, Types
  <2>3. Accounted'
    BY <1>12, SMTT(20) DEF HangUp, Accounted, EndsInvalidated, Types
  <2>4. StartsFirst'
    BY <1>12, SMTT(20)
    DEF HangUp, Types, EndsInvalidated, Accounted, StartsFirst, OneCamera
  <2>5. OneCamera'
    BY <1>12, SMTT(20)
    DEF HangUp, Types, EndsInvalidated, Accounted, StartsFirst, OneCamera
  <2> QED BY <2>1, <2>2, <2>3, <2>4, <2>5 DEF IInv
<1>13. ASSUME NEW t \in Thread, Invalidate(t) PROVE IInv'
  <2>1. Types'
    BY <1>13, SMTT(20) DEF Invalidate, EndsCapture, Types
  <2>2. EndsInvalidated'
    BY <1>13, SMTT(20) DEF Invalidate, EndsCapture, EndsInvalidated, Types
  <2>3. Accounted'
    BY <1>13, SMTT(20) DEF Invalidate, EndsCapture, Accounted, EndsInvalidated, Types
  <2>4. StartsFirst'
    BY <1>13, SMTT(20)
    DEF Invalidate, EndsCapture, Types, EndsInvalidated, Accounted, StartsFirst, OneCamera
  <2>5. OneCamera'
    BY <1>13, SMTT(20)
    DEF Invalidate, EndsCapture, Types, EndsInvalidated, Accounted, StartsFirst, OneCamera
  <2> QED BY <2>1, <2>2, <2>3, <2>4, <2>5 DEF IInv
<1>14. ASSUME NEW t \in Thread, CloseGate(t) PROVE IInv'
  <2>1. Types'
    BY <1>14, SMTT(20) DEF CloseGate, Types
  <2>2. EndsInvalidated'
    BY <1>14, SMTT(20) DEF CloseGate, EndsInvalidated, Types
  <2>3. Accounted'
    BY <1>14, SMTT(20) DEF CloseGate, Accounted, EndsInvalidated, Types
  <2>4. StartsFirst'
    BY <1>14, SMTT(20)
    DEF CloseGate, Types, EndsInvalidated, Accounted, StartsFirst, OneCamera
  <2>5. OneCamera'
    BY <1>14, SMTT(20)
    DEF CloseGate, Types, EndsInvalidated, Accounted, StartsFirst, OneCamera
  <2> QED BY <2>1, <2>2, <2>3, <2>4, <2>5 DEF IInv
<1>15. ASSUME NEW t \in Thread, SendTerminalStop(t) PROVE IInv'
  <2>1. Types'
    BY <1>15, SMTT(20) DEF SendTerminalStop, Types
  <2>2. EndsInvalidated'
    BY <1>15, SMTT(20) DEF SendTerminalStop, EndsInvalidated, Types
  <2>3. Accounted'
    BY <1>15, SMTT(20) DEF SendTerminalStop, Accounted, EndsInvalidated, Types
  <2>4. StartsFirst'
    BY <1>15, SMTT(20)
    DEF SendTerminalStop, Types, EndsInvalidated, Accounted, StartsFirst,
        OneCamera
  <2>5. OneCamera'
    BY <1>15, SMTT(20)
    DEF SendTerminalStop, Types, EndsInvalidated, Accounted, StartsFirst,
        OneCamera
  <2> QED BY <2>1, <2>2, <2>3, <2>4, <2>5 DEF IInv
<1>16. ASSUME NEW t \in Thread, Take(t) PROVE IInv'
  <2>1. "startup" \notin Resource
    BY DEF Resource
  <2>2. Types'
    BY <1>16, SMTT(20) DEF Take, Types
  <2>3. EndsInvalidated'
    BY <1>16, SMTT(20) DEF Take, EndsInvalidated, Types
  <2>4. Accounted'
    BY <1>16, SMTT(20) DEF Take, Accounted, EndsInvalidated, Types
  <2>5. StartsFirst'
    BY <1>16, <2>1, SMTT(20) DEF Take, Types, StartsFirst
  <2>6. OneCamera'
    BY <1>16, SMTT(20)
    DEF Take, Types, EndsInvalidated, Accounted, StartsFirst, OneCamera
  <2> QED BY <2>2, <2>3, <2>4, <2>5, <2>6 DEF IInv
<1>17. ASSUME NEW t \in Thread, Close(t) PROVE IInv'
  <2>1. "startup" \notin Resource
    BY DEF Resource
  <2>2. Types'
    BY <1>17, SMTT(20) DEF Close, ClosedCameras, Types
  <2>3. EndsInvalidated'
    BY <1>17, SMTT(20) DEF Close, ClosedCameras, EndsInvalidated, Types
  <2>4. Accounted'
    BY <1>17, SMTT(20)
    DEF Close, ClosedCameras, Accounted, EndsInvalidated, Types
  <2>5. StartsFirst'
    BY <1>17, <2>1, SMTT(20) DEF Close, ClosedCameras, Types, StartsFirst
  <2>6. OneCamera'
    BY <1>17, SMTT(20)
    DEF Close, ClosedCameras, Types, EndsInvalidated, Accounted, StartsFirst,
        OneCamera
  <2> QED BY <2>2, <2>3, <2>4, <2>5, <2>6 DEF IInv
<1>18. ASSUME NEW t \in Thread, Quit(t) PROVE IInv'
  <2>1. Types'
    BY <1>18, SMTT(20) DEF Quit, Types
  <2>2. EndsInvalidated'
    BY <1>18, SMTT(20) DEF Quit, EndsInvalidated, Types
  <2>3. Accounted'
    BY <1>18, SMTT(20) DEF Quit, Accounted, EndsInvalidated, Types
  <2>4. StartsFirst'
    BY <1>18, SMTT(20)
    DEF Quit, Types, EndsInvalidated, Accounted, StartsFirst, OneCamera
  <2>5. OneCamera'
    BY <1>18, SMTT(20)
    DEF Quit, Types, EndsInvalidated, Accounted, StartsFirst, OneCamera
  <2> QED BY <2>1, <2>2, <2>3, <2>4, <2>5 DEF IInv
<1>19. CASE CameraOpened
  <2>1. Types'
    BY <1>19, SMTT(20) DEF CameraOpened, ClosedCameras, Types
  <2>2. EndsInvalidated'
    BY <1>19, SMTT(20) DEF CameraOpened, ClosedCameras, EndsInvalidated, Types
  <2>3. Accounted'
    BY <1>19, SMTT(20)
    DEF CameraOpened, ClosedCameras, Accounted, EndsInvalidated, Types
  <2>4. StartsFirst'
    BY <1>19, SMTT(20)
    DEF CameraOpened, ClosedCameras, Types, EndsInvalidated, Accounted,
        StartsFirst, OneCamera
  <2>5. OneCamera'
    BY <1>19, SMTT(20)
    DEF CameraOpened, ClosedCameras, Types, EndsInvalidated, Accounted,
        StartsFirst, OneCamera
  <2> QED BY <2>1, <2>2, <2>3, <2>4, <2>5 DEF IInv
<1>20. CASE SessionConfigured
  <2>1. Types'
    BY <1>20, SMTT(20) DEF SessionConfigured, Types
  <2>2. EndsInvalidated'
    BY <1>20, SMTT(20) DEF SessionConfigured, EndsInvalidated, Types
  <2>3. Accounted'
    BY <1>20, SMTT(20) DEF SessionConfigured, Accounted, EndsInvalidated, Types
  <2>4. StartsFirst'
    BY <1>20, SMTT(20)
    DEF SessionConfigured, Types, EndsInvalidated, Accounted, StartsFirst,
        OneCamera
  <2>5. OneCamera'
    BY <1>20, SMTT(20)
    DEF SessionConfigured, Types, EndsInvalidated, Accounted, StartsFirst,
        OneCamera
  <2> QED BY <2>1, <2>2, <2>3, <2>4, <2>5 DEF IInv
<1>21. CASE TerminalFailure
  <2>1. (active' => active) /\ ~gate'
    BY <1>21, Zenon DEF TerminalFailure
  <2>2. /\ device["startup"] \in Live
        /\ \/ device' = [device EXCEPT !["startup"] = "closed"]
           \/ /\ device["startup"] = "configuring"
              /\ device' = [device EXCEPT !["startup"] = "opened"]
    BY <1>21, SMT DEF TerminalFailure, ClosedCameras, Types
  <2>3. UNCHANGED <<wire, threads, open, fields, camera, session, owned, looper>>
    BY <1>21 DEF TerminalFailure
  <2>4. Types'
    BY <1>21, SMTT(20) DEF TerminalFailure, ClosedCameras, Types
  <2>5. EndsInvalidated'
    BY <2>1, <2>3, SMTT(20) DEF EndsInvalidated, Types
  <2>6. Accounted'
    BY <1>21, SMTT(20)
    DEF TerminalFailure, ClosedCameras, Accounted, EndsInvalidated, Types
  <2>7. StartsFirst'
    BY <1>21, SMTT(20)
    DEF TerminalFailure, ClosedCameras, Types, EndsInvalidated, Accounted,
        StartsFirst, OneCamera
  <2>8. OneCamera'
    BY <2>1, <2>2, <2>3, SMTT(20) DEF Types, StartsFirst, OneCamera
  <2> QED BY <2>4, <2>5, <2>6, <2>7, <2>8 DEF IInv
<1>22. ASSUME NEW c \in Command, SwitchOpened(c) PROVE IInv'
  <2>1. Types'
    BY <1>22, SMTT(20) DEF SwitchOpened, ClosedCameras, Types
  <2>2. EndsInvalidated'
    BY <1>22, SMTT(20) DEF SwitchOpened, ClosedCameras, EndsInvalidated, Types
  <2>3. Accounted'
    BY <1>22, SMTT(20)
    DEF SwitchOpened, ClosedCameras, Accounted, EndsInvalidated, Types
  <2>4. StartsFirst'
    BY <1>22, SMTT(20)
    DEF SwitchOpened, ClosedCameras, Types, EndsInvalidated, Accounted,
        StartsFirst, OneCamera
  <2>5. OneCamera'
    BY <1>22, SMTT(20)
    DEF SwitchOpened, ClosedCameras, Types, EndsInvalidated, Accounted,
        StartsFirst, OneCamera
  <2> QED BY <2>1, <2>2, <2>3, <2>4, <2>5 DEF IInv
<1>23. ASSUME NEW c \in Command, SwitchConfigured(c) PROVE IInv'
  <2>1. Types'
    BY <1>23, SMTT(20) DEF SwitchConfigured, ClosedCameras, Types
  <2>2. EndsInvalidated'
    BY <1>23, SMTT(20)
    DEF SwitchConfigured, ClosedCameras, EndsInvalidated, Types
  <2>3. Accounted'
    BY <1>23, SMTT(20)
    DEF SwitchConfigured, ClosedCameras, Accounted, EndsInvalidated, Types
  <2>4. StartsFirst'
    BY <1>23, SMTT(20)
    DEF SwitchConfigured, ClosedCameras, Types, EndsInvalidated, Accounted,
        StartsFirst, OneCamera
  <2>5. OneCamera'
    BY <1>23, SMTT(20)
    DEF SwitchConfigured, ClosedCameras, Types, EndsInvalidated, Accounted,
        StartsFirst, OneCamera
  <2> QED BY <2>1, <2>2, <2>3, <2>4, <2>5 DEF IInv
<1>24. ASSUME NEW c \in Command, SwitchFails(c) PROVE IInv'
  <2>1. ~active' /\ pending' \in {pending, None}
    BY <1>24, Failing DEF SwitchFails
  <2>2. Types'
    BY <1>24, <2>1, SMTT(20) DEF SwitchFails, ClosedCameras, Types
  <2>3. EndsInvalidated'
    BY <1>24, SMTT(20)
    DEF SwitchFails, FailCameraCommand, ClosedCameras, EndsInvalidated, Types
  <2>4. Accounted'
    BY <1>24, SMTT(20)
    DEF SwitchFails, FailCameraCommand, ClosedCameras, Accounted,
        EndsInvalidated, Types
  <2>5. StartsFirst'
    BY <1>24, SMTT(20)
    DEF SwitchFails, FailCameraCommand, ClosedCameras, Types, EndsInvalidated,
        Accounted, StartsFirst, OneCamera
  <2>6. OneCamera'
    BY <1>24, SMTT(20)
    DEF SwitchFails, FailCameraCommand, ClosedCameras, Types, EndsInvalidated,
        Accounted, StartsFirst, OneCamera
  <2> QED BY <2>2, <2>3, <2>4, <2>5, <2>6 DEF IInv
<1>25. CASE PublishCamera
  <2>1. /\ handler.at = "publishCamera" /\ handler' = [at |-> "idle", command |-> None]
        /\ handler.command \in Command
        /\ UNCHANGED <<gate, wire, threads, open, fields, owned, applied, service,
                       commands>>
    BY <1>25, SMT DEF PublishCamera, Rest, Types
  <2>2. \/ /\ camera' = handler.command /\ UNCHANGED session
           /\ device' = [device EXCEPT ![handler.command] = "configuring"]
           /\ UNCHANGED <<active, pending, reports>>
        \/ /\ device' = ClosedCameras({handler.command})
           /\ camera' = None /\ session' \in {session, None}
           /\ ~active' /\ pending' \in {pending, None}
    BY <1>25, <2>1, Failing, Zenon DEF PublishCamera
  <2>3. device["startup"] \notin {"none", "opening"}
    BY <2>1, SMT DEF StartsFirst
  <2>4. Types'
    BY <2>1, <2>2, SMTT(20) DEF ClosedCameras, Types
  <2>5. EndsInvalidated'
    BY <2>1, <2>2, SMTT(20) DEF EndsInvalidated, Types
  <2>6. Accounted'
    BY <2>1, <2>2, SMTT(20) DEF Accounted, Types
  <2>7. StartsFirst'
    BY <2>1, <2>2, <2>3, SMTT(20) DEF ClosedCameras, StartsFirst, Types
  <2>8. OneCamera'
    BY <2>1, <2>2, SMTT(20) DEF ClosedCameras, EndsInvalidated, OneCamera, Types
  <2> QED BY <2>4, <2>5, <2>6, <2>7, <2>8 DEF IInv
<1>26. CASE PublishSession
  <2>1. /\ handler.at = "publishSession" /\ handler' = [at |-> "idle", command |-> None]
        /\ handler.command \in Command
        /\ UNCHANGED <<gate, wire, threads, open, fields, owned, applied, service,
                       commands>>
    BY <1>26, SMT DEF PublishSession, Rest, Types
  <2>2. \/ /\ session' = handler.command /\ UNCHANGED camera
           /\ device[handler.command] = "configuring"
           /\ device' = [device EXCEPT ![handler.command] = "configured"]
           /\ UNCHANGED <<active, pending, reports>>
        \/ /\ device' = ClosedCameras({handler.command})
           /\ camera' = None /\ session' \in {session, None}
           /\ ~active' /\ pending' \in {pending, None}
    BY <1>26, <2>1, Failing, Zenon DEF PublishSession
  <2>3. device["startup"] \notin {"none", "opening"}
    BY <2>1, SMT DEF StartsFirst
  <2>4. Types'
    BY <2>1, <2>2, SMTT(20) DEF ClosedCameras, Types
  <2>5. EndsInvalidated'
    BY <2>1, <2>2, SMTT(20) DEF EndsInvalidated, Types
  <2>6. Accounted'
    BY <2>1, <2>2, SMTT(20) DEF Accounted, Types
  <2>7. StartsFirst'
    BY <2>1, <2>2, <2>3, SMTT(20) DEF ClosedCameras, StartsFirst, Types
  <2>8. OneCamera'
    BY <2>1, <2>2, SMTT(20) DEF ClosedCameras, EndsInvalidated, OneCamera, Types
  <2> QED BY <2>4, <2>5, <2>6, <2>7, <2>8 DEF IInv
<1>27. CASE TakeControl
  <2>1. Head(commands) \in Command /\ commands' \in Seq(Command)
    BY <1>27, HeadTail, Zenon DEF TakeControl, Types
  <2>2. /\ Idle /\ UNCHANGED <<life, wire, threads, held, pending, applied, known>>
        /\ \/ UNCHANGED handler
           \/ /\ active /\ pending = None
              /\ handler' = [at |-> "apply", command |-> Head(commands)]
    BY <1>27, Zenon DEF TakeControl, looper, service
  <2>3. Types'
    BY <2>1, <2>2, SMTT(20) DEF Types
  <2>4. EndsInvalidated'
    BY <1>27, SMTT(20) DEF TakeControl, EndsInvalidated, Types
  <2>5. Accounted'
    BY <1>27, SMTT(20) DEF TakeControl, Accounted, EndsInvalidated, Types
  <2>6. StartsFirst'
    BY <1>27, SMTT(20)
    DEF TakeControl, Types, EndsInvalidated, Accounted, StartsFirst, OneCamera
  <2>7. OneCamera'
    BY <2>1, <2>2, SMTT(20) DEF EndsInvalidated, OneCamera, Types
  <2> QED BY <2>3, <2>4, <2>5, <2>6, <2>7 DEF IInv
<1>28. CASE Apply
  <2>1. /\ handler.at = "apply" /\ handler.command \in Command
        /\ handler' = [at |-> "idle", command |-> None]
        /\ UNCHANGED <<life, wire, threads, held, applied, service, commands>>
    BY <1>28, SMT DEF Apply, Rest, Types
  <2>2. pending' \in {pending, handler.command}
    BY <1>28, Zenon DEF Apply, ApplyCurrent, Refuse
  <2>3. Types'
    BY <2>1, <2>2, SMTT(20) DEF Types
  <2>4. EndsInvalidated'
    BY <1>28, SMTT(20)
    DEF Apply, Rest, ApplyCurrent, Refuse, EndsInvalidated, Types
  <2>5. Accounted'
    BY <1>28, SMTT(20)
    DEF Apply, Rest, ApplyCurrent, Refuse, Accounted, EndsInvalidated, Types
  <2>6. StartsFirst'
    BY <1>28, SMTT(20)
    DEF Apply, Rest, ApplyCurrent, Refuse, Types, EndsInvalidated, Accounted,
        StartsFirst, OneCamera
  <2>7. OneCamera'
    BY <1>28, SMTT(20)
    DEF Apply, Rest, ApplyCurrent, Refuse, Types, EndsInvalidated, Accounted,
        StartsFirst, OneCamera
  <2> QED BY <2>3, <2>4, <2>5, <2>6, <2>7 DEF IInv
<1>29. CASE SwitchCamera
  <2>1. /\ handler.at = "apply" /\ handler.command \in Command
        /\ handler' = [at |-> "idle", command |-> None]
        /\ UNCHANGED <<gate, wire, threads, open, fields, owned, applied, service,
                       commands>>
    BY <1>29, SMT DEF SwitchCamera, Rest, Types
  <2>2. \/ UNCHANGED <<active, camera, session, device, pending>>
        \/ /\ camera' = None /\ session' = None /\ UNCHANGED active
           /\ device' = [ClosedCameras({camera}) EXCEPT
                           ![handler.command] = "opening"]
           /\ pending' = handler.command
        \/ /\ camera' = None /\ session' = None /\ ~active'
           /\ device' = ClosedCameras({camera})
           /\ UNCHANGED pending
    BY <1>29, Zenon DEF SwitchCamera, Refuse
  <2>3. \/ UNCHANGED <<active, camera, session, device, pending>>
        \/ /\ camera' = None /\ session' = None
           /\ device' \in [Device -> DeviceState]
           /\ \A d \in Device \ {handler.command} :
                device'[d] = IF d = camera THEN "closed" ELSE device[d]
           /\ \/ /\ device'[handler.command] = "opening"
                 /\ pending' = handler.command /\ UNCHANGED active
              \/ /\ device'[handler.command] =
                      IF handler.command = camera THEN "closed"
                      ELSE device[handler.command]
                 /\ ~active' /\ UNCHANGED pending
    <3>1. CASE UNCHANGED <<active, camera, session, device, pending>>
      BY <3>1
    <3>2. CASE /\ camera' = None /\ session' = None /\ UNCHANGED active
               /\ device' = [ClosedCameras({camera}) EXCEPT
                               ![handler.command] = "opening"]
               /\ pending' = handler.command
      BY <2>1, <3>2, SMTT(20) DEF ClosedCameras, Types
    <3>3. CASE /\ camera' = None /\ session' = None /\ ~active'
               /\ device' = ClosedCameras({camera})
               /\ UNCHANGED pending
      BY <2>1, <3>3, SMTT(20) DEF ClosedCameras, Types
    <3> QED BY <2>2, <3>1, <3>2, <3>3
  <2>4. device["startup"] \notin {"none", "opening"}
    BY <2>1, SMT DEF StartsFirst
  <2>5. Types'
    <3>1. CASE UNCHANGED <<active, camera, session, device, pending>>
      BY <2>1, <3>1, SMTT(20) DEF Types
    <3> QED BY <2>1, <2>3, <2>4, <3>1, SMTT(20) DEF Types
  <2>6. EndsInvalidated'
    BY <2>1, <2>2, SMTT(20) DEF EndsInvalidated, Types
  <2>7. Accounted'
    BY <2>1, <2>2, SMTT(20) DEF Accounted, Types
  <2>8. StartsFirst'
    <3>1. CASE UNCHANGED <<active, camera, session, device, pending>>
      BY <2>1, <3>1, SMTT(20) DEF StartsFirst, Types
    <3> QED BY <2>1, <2>3, <2>4, <3>1, SMTT(20) DEF StartsFirst, Types
  <2>9. OneCamera'
    <3>1. CASE UNCHANGED <<active, camera, session, device, pending>>
      BY <2>1, <3>1, SMTT(20) DEF EndsInvalidated, OneCamera, StartsFirst, Types
    <3> QED BY <2>1, <2>3, <2>4, <3>1, SMTT(20)
    DEF EndsInvalidated, OneCamera, StartsFirst, Types
  <2> QED BY <2>5, <2>6, <2>7, <2>8, <2>9 DEF IInv
<1>30. CASE AcknowledgementTimeout
  <2>1. Types'
    BY <1>30, SMTT(20) DEF AcknowledgementTimeout, Types
  <2>2. EndsInvalidated'
    BY <1>30, SMTT(20) DEF AcknowledgementTimeout, EndsInvalidated, Types
  <2>3. Accounted'
    BY <1>30, SMTT(20)
    DEF AcknowledgementTimeout, Accounted, EndsInvalidated, Types
  <2>4. StartsFirst'
    BY <1>30, SMTT(20)
    DEF AcknowledgementTimeout, Types, EndsInvalidated, Accounted, StartsFirst,
        OneCamera
  <2>5. OneCamera'
    BY <1>30, SMTT(20)
    DEF AcknowledgementTimeout, Types, EndsInvalidated, Accounted, StartsFirst,
        OneCamera
  <2> QED BY <2>1, <2>2, <2>3, <2>4, <2>5 DEF IInv
<1>31. CASE CaptureCompleted
  <2>1. /\ pending' \in {pending, None} /\ session # None
        /\ device[session] = "configured"
        /\ UNCHANGED <<gate, wire, threads, held, handler, service, commands>>
    BY <1>31, Zenon DEF CaptureCompleted, Completes, Completes
  <2>2. Types'
    BY <2>1, SMTT(20) DEF Types
  <2>3. EndsInvalidated'
    BY <1>31, SMTT(20) DEF CaptureCompleted, Completes, EndsInvalidated, Types
  <2>4. Accounted'
    BY <1>31, SMTT(20) DEF CaptureCompleted, Completes, Accounted, EndsInvalidated, Types
  <2>5. StartsFirst'
    BY <1>31, SMTT(20)
    DEF CaptureCompleted, Completes, Types, EndsInvalidated, Accounted, StartsFirst,
        OneCamera
  <2>6. OneCamera'
    BY <1>31, SMTT(20)
    DEF CaptureCompleted, Completes, Types, EndsInvalidated, Accounted, StartsFirst,
        OneCamera
  <2> QED BY <2>2, <2>3, <2>4, <2>5, <2>6 DEF IInv
<1>32. CASE TakeUpRequest
  <2>1. Types'
    BY <1>32, SMTT(20) DEF TakeUpRequest, Types
  <2>2. EndsInvalidated'
    BY <1>32, SMTT(20) DEF TakeUpRequest, EndsInvalidated, Types
  <2>3. Accounted'
    BY <1>32, SMTT(20) DEF TakeUpRequest, Accounted, EndsInvalidated, Types
  <2>4. StartsFirst'
    BY <1>32, SMTT(20)
    DEF TakeUpRequest, Types, EndsInvalidated, Accounted, StartsFirst,
        OneCamera
  <2>5. OneCamera'
    BY <1>32, SMTT(20)
    DEF TakeUpRequest, Types, EndsInvalidated, Accounted, StartsFirst,
        OneCamera
  <2> QED BY <2>1, <2>2, <2>3, <2>4, <2>5 DEF IInv
<1>33. ASSUME NEW c \in Command, NEW controls \in Requests,
              CameraControl(c, controls)
       PROVE  IInv'
  <2>1. Types'
    BY <1>33, SMTT(20) DEF CameraControl, Types
  <2>2. EndsInvalidated'
    BY <1>33, SMTT(20) DEF CameraControl, EndsInvalidated, Types
  <2>3. Accounted'
    BY <1>33, SMTT(20) DEF CameraControl, Accounted, EndsInvalidated, Types
  <2>4. StartsFirst'
    BY <1>33, SMTT(20)
    DEF CameraControl, Types, EndsInvalidated, Accounted, StartsFirst,
        OneCamera
  <2>5. OneCamera'
    BY <1>33, SMTT(20)
    DEF CameraControl, Types, EndsInvalidated, Accounted, StartsFirst,
        OneCamera
  <2> QED BY <2>1, <2>2, <2>3, <2>4, <2>5 DEF IInv
<1>34. CASE CameraState
  <2>1. Types'
    BY <1>34, SMTT(20) DEF CameraState, Types
  <2>2. EndsInvalidated'
    BY <1>34, SMTT(20) DEF CameraState, EndsInvalidated, Types
  <2>3. Accounted'
    BY <1>34, SMTT(20) DEF CameraState, Accounted, EndsInvalidated, Types
  <2>4. StartsFirst'
    BY <1>34, SMTT(20)
    DEF CameraState, Types, EndsInvalidated, Accounted, StartsFirst, OneCamera
  <2>5. OneCamera'
    BY <1>34, SMTT(20)
    DEF CameraState, Types, EndsInvalidated, Accounted, StartsFirst, OneCamera
  <2> QED BY <2>1, <2>2, <2>3, <2>4, <2>5 DEF IInv
<1>35. ASSUME NEW t \in Thread, CaptureOvertaken(t) PROVE IInv'
  <2>1. /\ pending' \in {pending, None} /\ session # None
        /\ device[session] = "configured" /\ ~active'
        /\ at[t] = "invalidate" /\ at' = [at EXCEPT ![t] = "gate"]
        /\ wasActive' \in {wasActive, active}
        /\ UNCHANGED <<gate, wire, next, held, handler, service, commands, reports>>
    BY <1>35, Zenon DEF CaptureOvertaken, Completes, EndsCapture, Goto
  <2>2. Types'
    BY <2>1, SMTT(20) DEF Types
  <2>3. EndsInvalidated'
    BY <2>1, SMTT(20) DEF EndsInvalidated, Types
  <2>4. Accounted'
    BY <2>1, SMTT(20) DEF Accounted, EndsInvalidated, Types
  <2>5. StartsFirst'
    BY <2>1, SMTT(20) DEF Types, EndsInvalidated, Accounted, StartsFirst, OneCamera
  <2>6. OneCamera'
    BY <2>1, SMTT(20) DEF Types, EndsInvalidated, Accounted, StartsFirst, OneCamera
  <2> QED BY <2>2, <2>3, <2>4, <2>5, <2>6 DEF IInv
<1>36. CASE UNCHANGED vars
  <2>1. Types'
    BY <1>36, SMTT(20) DEF vars, Types
  <2>2. EndsInvalidated'
    BY <1>36, SMTT(20) DEF vars, EndsInvalidated
  <2>3. Accounted'
    BY <1>36, SMTT(20) DEF vars, Accounted
  <2>4. StartsFirst'
    BY <1>36, SMTT(20) DEF vars, StartsFirst
  <2>5. OneCamera'
    BY <1>36, SMTT(20) DEF vars, OneCamera
  <2> QED BY <2>1, <2>2, <2>3, <2>4, <2>5 DEF IInv
<1> QED
  BY <1>1, <1>2, <1>3, <1>4, <1>5, <1>6, <1>7, <1>8, <1>9, <1>10, <1>11,
     <1>12, <1>13, <1>14, <1>15, <1>16, <1>17, <1>18, <1>19, <1>20,
     <1>21, <1>22, <1>23, <1>24, <1>25, <1>26, <1>27, <1>28, <1>29,
     <1>30, <1>31, <1>32, <1>33, <1>34, <1>35, <1>36, Zenon
  DEF Next, RunStep, EndStep, LooperStep, ServiceStep

\* The streamer's invariant: who holds what, and that there is one camera.
THEOREM StreamerInvariant == Spec => []IInv
<1> QED BY InitInv, StepInv, PTL DEF Spec

\* Whatever the fields of the streamer held is released when its threads are
\* done, whichever of them took it (releaseResources, CaptureCallbackGate).
THEOREM PublishedAreReleased == Spec => []PublishedIsReleased
<1>1. IInv => PublishedIsReleased
  <2> SUFFICES ASSUME IInv, at["run"] = "end", at["stop"] \in {"idle", "end"}
               PROVE  /\ open = {}
                      /\ \A d \in Device :
                           device[d] \in {"opened", "configuring", "configured"}
                             => camera = d
    BY DEF PublishedIsReleased
  <2>1. \A t \in Thread : owned[t] = {} /\ at[t] # "close"
    BY SMT DEF IInv, Accounted, Thread
  <2>2. open = {}
    BY <2>1, SMT DEF IInv, Accounted
  <2>3. Closing = {}
    BY <2>1 DEF Closing
  <2> QED BY <2>2, <2>3, Zenon DEF IInv, OneCamera, Held
<1> QED BY <1>1, StreamerInvariant, PTL

\* Nothing is written to the media stream after its terminal record.
THEOREM TerminalIsLast == Spec => NothingFollowsTheTerminal
<1>1. IInv /\ [Next]_vars => [terminal => records' = records]_vars
  <2> SUFFICES ASSUME IInv, Next, terminal PROVE records' = records
    OBVIOUS
  <2>1. ~active
    BY DEF IInv, EndsInvalidated
  <2>2. CASE WriteMediaRecord
    BY <2>1, <2>2 DEF WriteMediaRecord
  <2>3. CASE UNCHANGED wire \/ UNCHANGED records
    BY <2>3 DEF wire
  <2>4. CASE RunStep /\ ~WriteMediaRecord
    BY <2>3, <2>4, Zenon
    DEF RunStep, Finally, Acquire, Publish, OpenCamera, CameraAwaited,
        CreateSession, SessionAwaited, StartRepeating, Drain
  <2>5. CASE Stop \/ HangUp \/ \E t \in Thread : EndStep(t)
    BY <2>3, <2>5, Zenon
    DEF Stop, HangUp, EndStep, Invalidate, EndsCapture, CloseGate, SendTerminalStop, Take,
        Close, Quit
  <2>6. CASE LooperStep \/ TakeUpRequest
    BY <2>3, <2>6, Zenon
    DEF LooperStep, CameraOpened, SessionConfigured, TerminalFailure,
        SwitchOpened, SwitchConfigured, SwitchFails, PublishCamera,
        PublishSession, TakeControl, Apply, SwitchCamera,
        AcknowledgementTimeout, CaptureCompleted, CaptureOvertaken,
        TakeUpRequest
  <2>7. CASE ServiceStep
    BY <2>3, <2>7, Zenon DEF ServiceStep, CameraControl, CameraState
  <2> QED BY <2>2, <2>4, <2>5, <2>6, <2>7 DEF Next
<1> QED BY <1>1, StreamerInvariant, PTL DEF Spec, NothingFollowsTheTerminal
===============================================================================
