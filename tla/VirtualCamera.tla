------------------------------ MODULE VirtualCamera ------------------------------
(***************************************************************************)
(* What the virtual camera promises the programs that use it: at any time  *)
(* it serves at most one capture session, shows pictures of that session   *)
(* only, in their order, and shows nothing of a session that was closed.   *)
(***************************************************************************)
EXTENDS Naturals

CONSTANTS Session, Picture, Neutral, None

VARIABLES
  session,  \* the capture session being served, or None
  current,  \* the newest picture of that session, or None
  picture   \* what the camera shows

vars == <<session, current, picture>>

Init == session = None /\ current = None /\ picture = Neutral

Open ==
  /\ session = None
  /\ session' \in Session
  /\ current' = None
  /\ UNCHANGED picture

\* A newer picture of the session takes the place of the current one.
Accept ==
  /\ current' \in Picture
  /\ current'.binding = session
  /\ current # None => current'.sequence > current.sequence
  /\ UNCHANGED <<session, picture>>

\* What is shown next is the current picture or nothing.
Show ==
  /\ current # None
  /\ picture' = current
  /\ UNCHANGED <<session, current>>

Blank == picture' = Neutral /\ UNCHANGED <<session, current>>

\* The session ends; its last picture may stand until the next tick.
Close == session' = None /\ current' = None /\ UNCHANGED picture

Off == session' = None /\ current' = None /\ picture' = Neutral

Next == Open \/ Accept \/ Show \/ Blank \/ Close \/ Off

Spec == Init /\ [][Next]_vars
===============================================================================
