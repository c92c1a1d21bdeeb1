---------------------------- MODULE PairingSession ----------------------------
(***************************************************************************)
(* The one-use invitation of crates/omacam-core/src/pairing.rs: what a QR  *)
(* carries, what a phone checks before it connects, what it claims, and    *)
(* the life of the session that the claim is made to.                      *)
(*                                                                         *)
(* The random identifier, secret and challenge of an invitation are the    *)
(* ceremony that drew them.  A signature is the transcript it signs, and   *)
(* so is the six-digit code computed from it: two transcripts with the     *)
(* same code are one chance in a million.                                  *)
(***************************************************************************)
EXTENDS Integers

CONSTANTS
  Lifetime,  \* INVITATION_LIFETIME_SECS
  Skew,      \* MAX_CLOCK_SKEW_SECS
  None

ASSUME DurationsOK == Lifetime \in Nat \ {0} /\ Skew \in Nat

Invitation(c, endpoint, clock) ==
  [ceremony |-> c, endpoint |-> endpoint, expires |-> clock + Lifetime]

\* What a phone whose clock shows clock accepts from a QR.
Parses(invitation, clock) ==
  /\ invitation.expires + Skew > clock
  /\ invitation.expires <= clock + Lifetime + Skew

\* Everything both sides bind the claim to: the signature and the code.
Transcript(invitation, phone) == <<invitation, phone>>

Claim(invitation, phone) ==
  [ceremony |-> invitation.ceremony,
   phone |-> phone,
   signed |-> Transcript(invitation, phone)]

InvitationState ==
  {"available", "awaiting_approvals", "paired", "rejected", "expired"}

ApprovalSide == {"phone", "desktop"}

NewSession(invitation) ==
  [invitation |-> invitation, state |-> "available", claim |-> None,
   approvals |-> {}]

\* reject and expire_if_needed drop the claim and both approvals.
Closed(session, state) ==
  IF session.state = "paired" THEN session
  ELSE [session EXCEPT !.state = state, !.claim = None, !.approvals = {}]

Rejected(session) == Closed(session, "rejected")

ExpiredIfNeeded(session, elapsed) ==
  IF elapsed >= Lifetime THEN Closed(session, "expired") ELSE session

\* The session still takes a claim, and the claim is for it and signed.
Verifies(session, claim) ==
  /\ session.state = "available"
  /\ claim.ceremony = session.invitation.ceremony
  /\ claim.signed = Transcript(session.invitation, claim.phone)

\* claim: a refused claim does not use the invitation up.
Claimed(session, claim, elapsed) ==
  LET aged == ExpiredIfNeeded(session, elapsed)
  IN  IF Verifies(aged, claim)
      THEN [aged EXCEPT !.state = "awaiting_approvals", !.claim = claim.phone]
      ELSE aged

\* approve, of a session that awaits approvals.
Approved(session, side) ==
  LET approvals == session.approvals \cup {side}
  IN  [session EXCEPT
        !.approvals = approvals,
        !.state = IF approvals = ApprovalSide THEN "paired" ELSE @]
===============================================================================
