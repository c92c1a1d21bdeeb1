------------------------------ MODULE BrowserCalls ------------------------------
(***************************************************************************)
(* What the phone's page and the browser service say to each other over    *)
(* HTTP.  A setting stands for everything a camera can be asked for and    *)
(* report (core/camera.rs); which camera it belongs to is all that the     *)
(* page tells apart.                                                       *)
(***************************************************************************)
EXTENDS Naturals

CONSTANTS
  Setting,      \* camera settings
  LensOf,       \* the camera each of them belongs to
  StartSetting, \* bound: those a page may start with
  MaxCommands,  \* bound: commands the desktop sends
  None

ASSUME BrowserConstantsOK ==
  /\ MaxCommands \in Nat
  /\ StartSetting \subseteq Setting
  /\ LensOf \in [Setting -> Nat]
  /\ None \notin Nat

\* The desktop page makes a fresh identifier for every command.
CommandId == 1..MaxCommands
Command   == [id: CommandId, setting: Setting]

\* A heartbeat on its way: to the service (sent), or back (accepted, refused).
\* A refused one stands for any error the page's fetch may meet.
Call == [state: {"none", "sent", "accepted", "refused"},
         setting: Setting \cup {None}, ack: CommandId \cup {None},
         error: BOOLEAN, pending: Command \cup {None}]

NoCall == [state |-> "none", setting |-> None, ack |-> None, error |-> FALSE,
           pending |-> None]

\* An offer and its answer; gen is the generation of the page that made it.
Offer == [gen: Nat, state: {"sent", "claimed", "active", "answered", "refused"},
          setting: Setting]
===============================================================================
