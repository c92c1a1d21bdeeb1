------------------------- MODULE CaptureAuthorization -------------------------
(***************************************************************************)
(* What the capture policy promises, without its clocks, connection and    *)
(* output device (docs/04-contracts-and-states.md, "Capture transitions"). *)
(*                                                                         *)
(* A trusted peer is asked, the phone consents, and only then is capture   *)
(* armed, under a session number never used before.  Captured frames are   *)
(* visible only while it is armed.  Ending an authorization changes the    *)
(* session number, so whatever still holds the old one is refused.         *)
(***************************************************************************)
EXTENDS Naturals

VARIABLES
  trusted,   \* is the selected peer trusted now?
  phase,     \* "idle", "asked" or "armed"
  live,      \* do captured frames reach applications?
  session    \* number of the current authorization

vars == <<trusted, phase, live, session>>

Init ==
  /\ trusted = FALSE
  /\ phase = "idle"
  /\ live = FALSE
  /\ session = 0

Trust ==
  /\ trusted' = TRUE
  /\ UNCHANGED <<phase, live, session>>

Ask ==
  /\ trusted
  /\ phase = "idle"
  /\ phase' = "asked"
  /\ UNCHANGED <<trusted, live, session>>

Consent ==
  /\ trusted
  /\ phase = "asked"
  /\ phase' = "armed"
  /\ session' = session + 1
  /\ UNCHANGED <<trusted, live>>

Show ==
  /\ phase = "armed"
  /\ live' = TRUE
  /\ UNCHANGED <<trusted, phase, session>>

Blank ==
  /\ live' = FALSE
  /\ UNCHANGED <<trusted, phase, session>>

\* Every end of an authorization is one step: nothing is left half revoked.
End ==
  /\ phase # "idle"
  /\ phase' = "idle"
  /\ live' = FALSE
  /\ session' = session + 1
  /\ UNCHANGED trusted

Revoke ==
  /\ trusted' = FALSE
  /\ phase' = "idle"
  /\ live' = FALSE
  /\ session' = IF phase = "idle" THEN session ELSE session + 1

Next == Trust \/ Ask \/ Consent \/ Show \/ Blank \/ End \/ Revoke

Spec == Init /\ [][Next]_vars
===============================================================================
