----------------------------- MODULE PairingProofs -----------------------------
(***************************************************************************)
(* Proofs about Pairing, for every number of ceremonies, phones and places *)
(* and every limit: its types, what a phone believes, what a ceremony      *)
(* leaves behind, and that it implements MutualTrust.                      *)
(*                                                                         *)
(* The invariant that carries them says how a phone's approval travels     *)
(* (a scanned invitation is one its user approved, a claim heard is one    *)
(* that the phone made, a verified claim is for this ceremony), how the    *)
(* desktop's does, whose the temporary record is, and which replies are on *)
(* their way.  A ceremony may also end at any step: LeaveKeeps, ExitKeeps. *)
(***************************************************************************)
EXTENDS Pairing, FiniteSetTheorems, TLAPS

\* Once a claim is verified.
Verified == {"prompting", "persisting", "writing", "renaming", "replying"}

\* A ceremony that listens has a session for the invitation it drew.
InvitationsAreOwn ==
  \A c \in Ceremonies :
    /\ invitation[c] # None => invitation[c].ceremony = c
    /\ step[c] \in Open \cup {"binding"} => invitation[c] # None
    /\ step[c] \in Open =>
         session[c] # None /\ session[c].invitation = invitation[c]
    /\ step[c] \in {"waiting", "serving"} =>
         session[c].state \in {"available", "expired"}

\* Whoever scanned, claims or is being paired has approved the ceremony.
ApprovalsStand ==
  /\ \A p \in Phones :
       /\ phase[p] # "ready" => scanned[p] # None
       /\ scanned[p] # None /\ step[scanned[p].ceremony] # "ended"
            => p \in approved[scanned[p].ceremony]
  /\ \A c \in Ceremonies :
       /\ step[c] = "serving" =>
            /\ heard[c] # None /\ peer[c] = heard[c].phone
            /\ heard[c].ceremony = c => heard[c].phone \in approved[c]
       /\ step[c] \in Verified =>
            /\ session[c].claim \in approved[c]
            /\ peer[c] = session[c].claim

\* The desktop confirms the claim, and only then is it recorded.
ConfirmationsStand ==
  \A c \in Ceremonies :
    /\ step[c] \in SettingUp \cup {"off", "waiting", "serving", "prompting"} =>
         confirmed[c] = None /\ committed[c] = None
    /\ step[c] \in {"persisting", "writing", "renaming"} =>
         confirmed[c] = session[c].claim /\ committed[c] = None
    /\ step[c] = "replying" => committed[c] = session[c].claim

\* A record is whole; an unfinished one is its ceremony's.
FilesAreWhole ==
  /\ record # None => record.whole
  /\ temporary # None =>
       step[temporary.by] \in {"writing", "renaming", "closing", "ended"}
  /\ \A c \in Ceremonies :
       /\ step[c] \in {"writing", "renaming"} =>
            /\ temporary # None
            /\ temporary.by = c /\ temporary.phone = session[c].claim
       /\ step[c] = "renaming" => temporary.whole
       /\ step[c] = "closing" /\ temporary # None /\ temporary.by = c =>
            outcome[c] = "unwritten"

\* "paired" is on its way only to a phone that was recorded.
RepliesAreTrue ==
  \A p \in Phones : \A i \in 1 .. Len(inbox[p]) :
    inbox[p][i].type = "paired" => \E c \in Ceremonies : committed[c] = p

\* A QR lies where its ceremony was told to put it.
QrHasItsPlace ==
  /\ \A c \in Ceremonies : step[c] # "off" => at[c] \in Places
  /\ \A l \in Places : qr[l] # None => at[qr[l]] = l /\ step[qr[l]] # "off"

\* While connections are taken no limit is reached.
FailuresAreBelow ==
  \A c \in Ceremonies :
    /\ step[c] \in SettingUp \cup {"off", "waiting", "serving"} =>
         globalFailures[c] < MaxGlobal
    /\ step[c] = "serving" => sourceFailures[c][peer[c]] < MaxPerSource

\* The inductive invariant.
IInv ==
  /\ TypeOK /\ InvitationsAreOwn /\ ApprovalsStand /\ ConfirmationsStand
  /\ FilesAreWhole /\ RepliesAreTrue /\ QrHasItsPlace /\ FailuresAreBelow
  /\ PhoneTrustsOnlyCommitted /\ NothingLeftBehind

\* The tuples of variables are mere abbreviations.
USE DEF files, memory, process, phones, history, failures

\* What is delivered to a phone is a reply.
LEMMA DeliveredType ==
  ASSUME TypeOK, NEW c \in Ceremonies, NEW r \in ReplyType, Delivered(c, r)
  PROVE  inbox' \in [Phones -> Seq(ReplyType)]
<1>1. CASE link[peer[c]] = c
  <2>1. peer[c] \in Phones \cup {None}
    BY DEF TypeOK
  <2>2. inbox' = [inbox EXCEPT ![peer[c]] = Append(@, r)]
    BY <1>1 DEF Delivered
  <2>3. CASE peer[c] \in Phones
    <3>1. Append(inbox[peer[c]], r) \in Seq(ReplyType)
      BY <2>3 DEF TypeOK
    <3> QED BY <3>1, <2>2, <2>3 DEF TypeOK
  <2>4. CASE peer[c] \notin Phones
    BY <2>2, <2>4 DEF TypeOK
  <2> QED BY <2>1, <2>3, <2>4
<1>2. CASE link[peer[c]] # c
  BY <1>2 DEF Delivered, TypeOK
<1> QED BY <1>1, <1>2

\* A ceremony that ends by itself or is cancelled, whatever it was told last.
LEMMA LeaveKeeps ==
  ASSUME IInv, NEW c \in Ceremonies, NEW why \in {"returned", "limited"},
         step[c] \in Open \ {"writing", "renaming"},
         Leave(c, why), TypeOK', RepliesAreTrue',
         \A e \in Ceremonies \ {c} :
           /\ session'[e] = session[e] /\ peer'[e] = peer[e]
           /\ heard'[e] = heard[e]
           /\ sourceFailures'[e] = sourceFailures[e]
           /\ globalFailures'[e] = globalFailures[e],
         UNCHANGED <<files, at, invitation, phase, scanned, trusts, history>>
  PROVE  IInv'
<1> USE DEF Leave, Goto, TypeOK, Open
<1>1. InvitationsAreOwn'
  BY DEF IInv, InvitationsAreOwn
<1>2. ApprovalsStand'
  <2>1. \A e \in Ceremonies : step'[e] = "ended" <=> step[e] = "ended"
    BY DEF IInv
  <2>2. scanned' = scanned /\ phase' = phase /\ approved' = approved
    OBVIOUS
  <2>3. \A e \in Ceremonies : e # c => step'[e] = step[e]
    BY DEF IInv
  <2>4. step'[c] = "closing"
    BY DEF IInv
  <2>5. ASSUME NEW q \in Phones
        PROVE  /\ phase'[q] # "ready" => scanned'[q] # None
               /\ scanned'[q] # None /\ step'[scanned'[q].ceremony] # "ended"
                    => q \in approved'[scanned'[q].ceremony]
    BY <2>1, <2>2 DEF IInv, ApprovalsStand, InvitationType
  <2>6. ASSUME NEW e \in Ceremonies
        PROVE  /\ step'[e] = "serving" =>
                    /\ heard'[e] # None /\ peer'[e] = heard'[e].phone
                    /\ heard'[e].ceremony = e => heard'[e].phone \in approved'[e]
               /\ step'[e] \in Verified =>
                    /\ session'[e].claim \in approved'[e]
                    /\ peer'[e] = session'[e].claim
    BY <2>2, <2>3, <2>4 DEF IInv, ApprovalsStand, Verified
  <2> QED BY <2>5, <2>6 DEF ApprovalsStand
<1>3. ConfirmationsStand'
  BY DEF IInv, ConfirmationsStand, SettingUp
<1>4. FilesAreWhole'
  <2>1. \A e \in Ceremonies :
          e # c => step'[e] = step[e] /\ outcome'[e] = outcome[e]
    BY DEF IInv
  <2>2. step'[c] = "closing" /\ record' = record /\ temporary' = temporary
    BY DEF IInv
  <2>3. temporary # None => temporary.by \in Ceremonies \ {c}
    BY DEF IInv, FilesAreWhole, FileType
  <2> QED BY <2>1, <2>2, <2>3 DEF IInv, FilesAreWhole
<1>5. QrHasItsPlace'
  BY DEF IInv, QrHasItsPlace
<1>6. FailuresAreBelow'
  BY DEF IInv, FailuresAreBelow, SettingUp
<1>7. PhoneTrustsOnlyCommitted'
  BY DEF IInv, PhoneTrustsOnlyCommitted
<1>8. NothingLeftBehind'
  BY DEF IInv, NothingLeftBehind
<1> QED BY <1>1, <1>2, <1>3, <1>4, <1>5, <1>6, <1>7, <1>8 DEF IInv

\* A process that is gone.
LEMMA ExitKeeps ==
  ASSUME IInv, NEW c \in Ceremonies, NEW why \in Outcome \cup {None},
         step[c] # "off", Exit(c, why), QrHasItsPlace', NothingLeftBehind',
         qr' \in [Places -> Ceremonies \cup {None}], 
         identity' \in {"none", "partial", "whole"},
         UNCHANGED <<now, record, temporary, at, invitation, phones>>
  PROVE  IInv'
<1> USE DEF Exit, Goto, Open
<1>1. TypeOK'
  BY PairingOK DEF IInv, TypeOK, Step
<1>2. InvitationsAreOwn'
  BY DEF IInv, InvitationsAreOwn, TypeOK
<1>3. ApprovalsStand'
  BY DEF IInv, ApprovalsStand, TypeOK, InvitationType, Verified
<1>4. ConfirmationsStand'
  BY DEF IInv, ConfirmationsStand, TypeOK, SettingUp
<1>5. FilesAreWhole'
  BY DEF IInv, FilesAreWhole, TypeOK, FileType
<1>6. FailuresAreBelow'
  BY DEF IInv, FailuresAreBelow, SettingUp, TypeOK
<1>7. PhoneTrustsOnlyCommitted' /\ RepliesAreTrue'
  BY DEF IInv, PhoneTrustsOnlyCommitted, RepliesAreTrue
<1> QED BY <1>1, <1>2, <1>3, <1>4, <1>5, <1>6, <1>7 DEF IInv


\* One step after the other: the set-up.
LEMMA StartKeeps ==
  ASSUME IInv, NEW c \in Ceremonies, Start(c)
  PROVE  IInv'
<1> USE DEF Start, Goto, TypeOK, Open
<1>1. at' \in [Ceremonies -> Places \cup {None}] /\ at'[c] \in Places
  <2>1. PICK place \in Options[c] : at' = [at EXCEPT ![c] = place]
    OBVIOUS
  <2>2. place \in Places
    BY PairingOK
  <2> QED BY <2>1, <2>2 DEF IInv
<1>2. \A e \in Ceremonies : e # c => at'[e] = at[e]
  BY DEF IInv
<1>3. CASE /\ record = None
           /\ Goto(c, "starting")
           /\ UNCHANGED <<outcome, memory, history>>
  <2>1. TypeOK'
    BY <1>1, <1>3 DEF IInv, Step, SettingUp
  <2>2. QrHasItsPlace' /\ NothingLeftBehind'
    BY <1>1, <1>2, <1>3 DEF IInv, QrHasItsPlace, NothingLeftBehind
  <2>3. InvitationsAreOwn' /\ ApprovalsStand'
    BY <1>3
       DEF IInv, InvitationsAreOwn, ApprovalsStand, InvitationType,
           Verified
  <2>4. ConfirmationsStand' /\ FilesAreWhole' /\ FailuresAreBelow'
    BY <1>3
       DEF IInv, ConfirmationsStand, SettingUp, FilesAreWhole, FileType,
           FailuresAreBelow
  <2>5. RepliesAreTrue' /\ PhoneTrustsOnlyCommitted'
    BY <1>3 DEF IInv, RepliesAreTrue, PhoneTrustsOnlyCommitted
  <2> QED BY <2>1, <2>2, <2>3, <2>4, <2>5 DEF IInv
<1>4. CASE record # None /\ Exit(c, "unstarted")
  <2> USE DEF Exit
  <2>1. TypeOK'
    BY <1>1, <1>4, PairingOK DEF IInv, Step, Outcome
  <2>2. QrHasItsPlace' /\ NothingLeftBehind'
    BY <1>1, <1>2, <1>4
       DEF IInv, QrHasItsPlace, NothingLeftBehind, FilesAreWhole, FileType
  <2>3. InvitationsAreOwn' /\ ApprovalsStand'
    BY <1>4
       DEF IInv, InvitationsAreOwn, ApprovalsStand, InvitationType,
           Verified
  <2>4. ConfirmationsStand' /\ FilesAreWhole' /\ FailuresAreBelow'
    BY <1>4
       DEF IInv, ConfirmationsStand, SettingUp, FilesAreWhole, FileType,
           FailuresAreBelow
  <2>5. RepliesAreTrue' /\ PhoneTrustsOnlyCommitted'
    BY <1>4 DEF IInv, RepliesAreTrue, PhoneTrustsOnlyCommitted
  <2> QED BY <2>1, <2>2, <2>3, <2>4, <2>5 DEF IInv
<1> QED BY <1>3, <1>4

\* A process that exits with its QR untouched.
LEMMA UnstartedKeeps ==
  ASSUME IInv, NEW c \in Ceremonies, step[c] # "off",
         \/ Exit(c, "killed")
         \/ Exit(c, "unstarted") /\ step[c] \in SettingUp,
         UNCHANGED <<now, files, at, invitation, phones>>
  PROVE  IInv'
<1>1. QrHasItsPlace'
  BY DEF IInv, QrHasItsPlace, Exit, Goto, TypeOK
<1>2. NothingLeftBehind'
  <2> USE DEF IInv, NothingLeftBehind, FilesAreWhole, Exit, Goto, TypeOK
  <2>1. CASE Exit(c, "killed")
    BY <2>1
  <2>2. CASE Exit(c, "unstarted") /\ step[c] \in SettingUp
    BY <2>2 DEF FileType, SettingUp
  <2> QED BY <2>1, <2>2
<1>3. PICK why \in Outcome : Exit(c, why)
  BY DEF Outcome
<1>4. QED
  BY <1>1, <1>2, <1>3, ExitKeeps DEF IInv, TypeOK

LEMMA KillKeeps ==
  ASSUME IInv, NEW c \in Ceremonies, Kill(c)
  PROVE  IInv'
BY UnstartedKeeps DEF Kill

LEMMA RemoveQrKeeps ==
  ASSUME IInv, NEW c \in Ceremonies, RemoveQr(c)
  PROVE  IInv'
<1> USE DEF RemoveQr, Exit, Goto, TypeOK
<1>1. at[c] \in Places
  BY DEF IInv, QrHasItsPlace
<1>2. qr' \in [Places -> Ceremonies \cup {None}]
  BY <1>1 DEF IInv
<1>3. QrHasItsPlace'
  BY <1>1 DEF IInv, QrHasItsPlace
<1>4. NothingLeftBehind'
  BY <1>1, PairingOK
     DEF IInv, QrHasItsPlace, FilesAreWhole, NothingLeftBehind, FileType
<1>5. QED
  BY <1>2, <1>3, <1>4, ExitKeeps DEF IInv

\* The set-up goes on.
LEMMA SetUpKeeps ==
  ASSUME IInv, NEW c \in Ceremonies, step[c] \in SettingUp,
         NEW s \in {"storing", "inviting"}, Goto(c, s),
         identity' \in {"none", "partial", "whole"},
         UNCHANGED <<now, record, temporary, qr, at, outcome, invitation,
                     memory, phones, history>>
  PROVE  IInv'
<1> USE DEF Goto, TypeOK, SettingUp, Open
<1>1. TypeOK'
  BY DEF IInv, Step
<1>2. InvitationsAreOwn' /\ ApprovalsStand'
  BY DEF IInv, InvitationsAreOwn, ApprovalsStand, InvitationType, Verified
<1>3. ConfirmationsStand' /\ FilesAreWhole' /\ FailuresAreBelow'
  BY DEF IInv, ConfirmationsStand, FilesAreWhole, FileType,
         FailuresAreBelow, SettingUp
<1>4. /\ RepliesAreTrue'
      /\ PhoneTrustsOnlyCommitted'
      /\ QrHasItsPlace'
      /\ NothingLeftBehind'
  BY DEF IInv, RepliesAreTrue, PhoneTrustsOnlyCommitted, QrHasItsPlace,
         NothingLeftBehind
<1> QED BY <1>1, <1>2, <1>3, <1>4 DEF IInv

LEMMA IdentityKeeps ==
  ASSUME IInv, NEW c \in Ceremonies, LoadIdentity(c) \/ StoreIdentity(c)
  PROVE  IInv'
<1> USE DEF LoadIdentity, StoreIdentity
<1>1. CASE Exit(c, "unstarted") /\ UNCHANGED identity
  BY <1>1, UnstartedKeeps DEF SettingUp, Outcome
<1>2. CASE /\ Goto(c, "inviting")
           /\ UNCHANGED <<outcome, memory, history>>
           /\ identity' \in {"partial", "whole"}
  BY <1>2, SetUpKeeps DEF SettingUp
<1>3. CASE /\ Goto(c, "storing")
           /\ UNCHANGED <<outcome, memory, history>>
           /\ identity' \in {"partial"}
  BY <1>3, SetUpKeeps DEF SettingUp
<1> QED BY <1>1, <1>2, <1>3

LEMMA InviteKeeps ==
  ASSUME IInv, NEW c \in Ceremonies, Invite(c)
  PROVE  IInv'
<1> USE DEF Invite, Goto, TypeOK, Open
<1>1. at[c] \in Places
  BY DEF IInv, QrHasItsPlace
<1>2. /\ Invitation(c, at[c], now) \in InvitationType
      /\ Invitation(c, at[c], now).ceremony = c
  BY <1>1, DurationsOK DEF IInv, Invitation, InvitationType
<1>3. CASE /\ qr[at[c]] = None
           /\ qr' = [qr EXCEPT ![at[c]] = c]
           /\ Goto(c, "binding")
           /\ invitation' = [invitation EXCEPT ![c] = Invitation(c, at[c], now)]
           /\ UNCHANGED <<outcome, memory, history>>
  <2>1. TypeOK'
    BY <1>1, <1>2, <1>3 DEF IInv, Step, SettingUp
  <2>2. QrHasItsPlace' /\ NothingLeftBehind'
    BY <1>1, <1>3, PairingOK DEF IInv, QrHasItsPlace, NothingLeftBehind
  <2>3. InvitationsAreOwn'
    BY <1>2, <1>3, NoneIsNothing DEF IInv, InvitationsAreOwn
  <2>4. ApprovalsStand'
    BY <1>3 DEF IInv, ApprovalsStand, InvitationType, Verified
  <2>5. ConfirmationsStand' /\ FilesAreWhole' /\ FailuresAreBelow'
    BY <1>3
       DEF IInv, ConfirmationsStand, SettingUp, FilesAreWhole, FileType,
           FailuresAreBelow
  <2>6. RepliesAreTrue' /\ PhoneTrustsOnlyCommitted'
    BY <1>3 DEF IInv, RepliesAreTrue, PhoneTrustsOnlyCommitted
  <2> QED BY <2>1, <2>2, <2>3, <2>4, <2>5, <2>6 DEF IInv
<1>4. CASE Exit(c, "unstarted") /\ UNCHANGED <<qr, invitation>>
  BY <1>4, UnstartedKeeps DEF SettingUp, Outcome
<1> QED BY <1>3, <1>4

LEMMA BindKeeps ==
  ASSUME IInv, NEW c \in Ceremonies, Bind(c)
  PROVE  IInv'
<1> USE DEF Bind, Goto, TypeOK, Open
<1>1. CASE /\ started' = [started EXCEPT ![c] = now]
           /\ session' = [session EXCEPT ![c] = NewSession(invitation[c])]
           /\ Goto(c, "waiting")
           /\ UNCHANGED <<outcome, peer, heard, failures, history>>
  <2>1. /\ invitation[c] \in InvitationType
        /\ invitation[c] # None
        /\ globalFailures[c] < MaxGlobal
    BY DEF IInv, InvitationsAreOwn, FailuresAreBelow, SettingUp
  <2>2. NewSession(invitation[c]) \in SessionType
    BY <2>1 DEF NewSession, SessionType, InvitationState
  <2>3. TypeOK'
    BY <1>1, <2>2 DEF IInv, Step
  <2>4. InvitationsAreOwn'
    BY <1>1, <2>1, <2>2, NoneIsNothing DEF IInv, InvitationsAreOwn, NewSession
  <2>5. ApprovalsStand'
    BY <1>1 DEF IInv, ApprovalsStand, InvitationType, Verified
  <2>6. ConfirmationsStand' /\ FilesAreWhole'
    BY <1>1 DEF IInv, ConfirmationsStand, SettingUp, FilesAreWhole, FileType
  <2>7. FailuresAreBelow'
    BY <1>1, <2>1 DEF IInv, FailuresAreBelow, SettingUp
  <2>8. /\ RepliesAreTrue'
        /\ PhoneTrustsOnlyCommitted'
        /\ QrHasItsPlace'
        /\ NothingLeftBehind'
    BY <1>1
       DEF IInv, RepliesAreTrue, PhoneTrustsOnlyCommitted, QrHasItsPlace,
           NothingLeftBehind
  <2> QED BY <2>3, <2>4, <2>5, <2>6, <2>7, <2>8 DEF IInv
<1>2. CASE Exit(c, "unstarted")
  BY <1>2, UnstartedKeeps DEF SettingUp, Outcome
<1> QED BY <1>1, <1>2

\* The record cannot be created or written.
LEMMA UnwrittenKeeps ==
  ASSUME IInv, NEW c \in Ceremonies,
         step[c] \in {"persisting", "writing", "renaming"},
         Leave(c, "unwritten"),
         UNCHANGED <<now, files, at, invitation, memory, phones, history>>
  PROVE  IInv'
<1> USE DEF Leave, Goto, TypeOK, Open
<1>1. TypeOK'
  BY DEF IInv, Step, Outcome
<1>2. InvitationsAreOwn' /\ ApprovalsStand'
  BY DEF IInv, InvitationsAreOwn, ApprovalsStand, InvitationType, Verified
<1>3. ConfirmationsStand' /\ FailuresAreBelow'
  BY DEF IInv, ConfirmationsStand, FailuresAreBelow, SettingUp
<1>4. FilesAreWhole' /\ NothingLeftBehind'
  BY DEF IInv, FilesAreWhole, NothingLeftBehind, FileType
<1>5. RepliesAreTrue' /\ PhoneTrustsOnlyCommitted' /\ QrHasItsPlace'
  BY DEF IInv, RepliesAreTrue, PhoneTrustsOnlyCommitted, QrHasItsPlace
<1> QED BY <1>1, <1>2, <1>3, <1>4, <1>5 DEF IInv

LEMMA CreateTemporaryKeeps ==
  ASSUME IInv, NEW c \in Ceremonies, CreateTemporary(c)
  PROVE  IInv'
<1> USE DEF CreateTemporary, Goto, TypeOK, Open
<1>1. session[c] \in SessionType /\ session[c].claim \in Phones
  BY DEF IInv, InvitationsAreOwn, ApprovalsStand, Verified
<1>2. CASE /\ temporary = None /\ temporary' = File(c, session[c].claim, FALSE)
           /\ Goto(c, "writing") /\ UNCHANGED outcome
  <2>1. /\ temporary' \in FileType
        /\ temporary'.by = c
        /\ temporary'.phone = session[c].claim
    BY <1>1, <1>2 DEF File, FileType
  <2>2. TypeOK'
    BY <1>2, <2>1 DEF IInv, Step
  <2>3. InvitationsAreOwn' /\ ApprovalsStand'
    BY <1>2
       DEF IInv, InvitationsAreOwn, ApprovalsStand, InvitationType,
           Verified
  <2>4. ConfirmationsStand' /\ FailuresAreBelow'
    BY <1>2 DEF IInv, ConfirmationsStand, SettingUp, FailuresAreBelow
  <2>5. FilesAreWhole'
    <3>1. temporary' # None /\ record' = record /\ session' = session
      BY <2>1, NoneIsNothing
    <3>2. step'[c] = "writing"
      BY <1>2 DEF IInv
    <3>3. \A e \in Ceremonies : e # c =>
            /\ step'[e] = step[e]
            /\ step[e] \notin {"writing", "renaming"}
      BY <1>2 DEF IInv, FilesAreWhole
    <3>4. step'[temporary'.by] = "writing"
      BY <2>1, <3>2
    <3>5. ASSUME NEW e \in Ceremonies
          PROVE  /\ step'[e] \in {"writing", "renaming"} =>
                      /\ temporary' # None /\ temporary'.by = e
                      /\ temporary'.phone = session'[e].claim
                 /\ step'[e] = "renaming" => temporary'.whole
                 /\ step'[e] = "closing" /\ temporary' # None /\ temporary'.by = e =>
                      outcome'[e] = "unwritten"
      BY <2>1, <3>1, <3>2, <3>3
    <3> QED BY <3>1, <3>4, <3>5 DEF IInv, FilesAreWhole
  <2>6. NothingLeftBehind'
    BY <1>2, <2>1 DEF IInv, NothingLeftBehind
  <2>7. RepliesAreTrue' /\ PhoneTrustsOnlyCommitted' /\ QrHasItsPlace'
    BY <1>2 DEF IInv, RepliesAreTrue, PhoneTrustsOnlyCommitted, QrHasItsPlace
  <2> QED BY <2>2, <2>3, <2>4, <2>5, <2>6, <2>7 DEF IInv
<1>3. CASE Leave(c, "unwritten") /\ UNCHANGED temporary
  BY <1>3, UnwrittenKeeps
<1> QED BY <1>2, <1>3

LEMMA WriteTemporaryKeeps ==
  ASSUME IInv, NEW c \in Ceremonies, WriteTemporary(c)
  PROVE  IInv'
<1> USE DEF WriteTemporary, Goto, TypeOK, Open
<1>1. session[c] \in SessionType /\ session[c].claim \in Phones
  BY DEF IInv, InvitationsAreOwn, ApprovalsStand, Verified
<1>2. CASE /\ temporary' = File(c, session[c].claim, TRUE)
           /\ Goto(c, "renaming")
           /\ UNCHANGED outcome
  <2>1. /\ temporary' \in FileType
        /\ temporary'.by = c
        /\ temporary'.phone = session[c].claim
        /\ temporary'.whole
    BY <1>1, <1>2 DEF File, FileType
  <2>2. TypeOK'
    BY <1>2, <2>1 DEF IInv, Step
  <2>3. InvitationsAreOwn' /\ ApprovalsStand'
    BY <1>2
       DEF IInv, InvitationsAreOwn, ApprovalsStand, InvitationType,
           Verified
  <2>4. ConfirmationsStand' /\ FailuresAreBelow'
    BY <1>2 DEF IInv, ConfirmationsStand, SettingUp, FailuresAreBelow
  <2>5. FilesAreWhole'
    <3>1. temporary' # None /\ record' = record /\ session' = session
      BY <2>1, NoneIsNothing
    <3>2. step'[c] = "renaming"
      BY <1>2 DEF IInv
    <3>3. \A e \in Ceremonies : e # c =>
            /\ step'[e] = step[e]
            /\ step[e] \notin {"writing", "renaming"}
      BY <1>2 DEF IInv, FilesAreWhole
    <3>4. step'[temporary'.by] = "renaming"
      BY <2>1, <3>2
    <3>5. ASSUME NEW e \in Ceremonies
          PROVE  /\ step'[e] \in {"writing", "renaming"} =>
                      /\ temporary' # None /\ temporary'.by = e
                      /\ temporary'.phone = session'[e].claim
                 /\ step'[e] = "renaming" => temporary'.whole
                 /\ step'[e] = "closing" /\ temporary' # None /\ temporary'.by = e =>
                      outcome'[e] = "unwritten"
      BY <2>1, <3>1, <3>2, <3>3
    <3> QED BY <3>1, <3>4, <3>5 DEF IInv, FilesAreWhole
  <2>6. NothingLeftBehind'
    BY <1>2, <2>1 DEF IInv, NothingLeftBehind
  <2>7. RepliesAreTrue' /\ PhoneTrustsOnlyCommitted' /\ QrHasItsPlace'
    BY <1>2 DEF IInv, RepliesAreTrue, PhoneTrustsOnlyCommitted, QrHasItsPlace
  <2> QED BY <2>2, <2>3, <2>4, <2>5, <2>6, <2>7 DEF IInv
<1>3. CASE Leave(c, "unwritten") /\ UNCHANGED temporary
  BY <1>3, UnwrittenKeeps
<1> QED BY <1>2, <1>3

LEMMA RenameKeeps ==
  ASSUME IInv, NEW c \in Ceremonies, Rename(c)
  PROVE  IInv'
<1> USE DEF Rename, Goto, TypeOK, Open
<1>1. CASE /\ record' = temporary /\ temporary' = None
           /\ committed' = [committed EXCEPT ![c] = record'.phone]
           /\ Goto(c, "replying") /\ UNCHANGED outcome
  <2>1. /\ temporary \in FileType /\ temporary.whole /\ temporary.by = c
        /\ temporary.phone = session[c].claim
    BY <1>1 DEF IInv, FilesAreWhole
  <2>2. committed' \in [Ceremonies -> Phones \cup {None}] /\ record' \in FileType
        /\ committed'[c] = session[c].claim /\ \A e \in Ceremonies : e # c => committed'[e] = committed[e]
    BY <1>1, <2>1 DEF IInv, FileType
  <2>3. TypeOK'
    BY <1>1, <2>2 DEF IInv, Step
  <2>4. InvitationsAreOwn' /\ ApprovalsStand'
    BY <1>1 DEF IInv, InvitationsAreOwn, ApprovalsStand, InvitationType, Verified
  <2>5. ConfirmationsStand'
    BY <1>1, <2>2 DEF IInv, ConfirmationsStand, SettingUp
  <2>6. FilesAreWhole' /\ NothingLeftBehind' /\ QrHasItsPlace'
    BY <1>1, <2>1 DEF IInv, FilesAreWhole, NothingLeftBehind, QrHasItsPlace
  <2>7. FailuresAreBelow'
    BY <1>1 DEF IInv, FailuresAreBelow, SettingUp
  <2>8. \A p \in Phones :
          (\E e \in Ceremonies : committed[e] = p)
            => \E e \in Ceremonies : committed'[e] = p
    BY <1>1, <2>2, PairingOK DEF IInv, ConfirmationsStand
  <2>9. RepliesAreTrue' /\ PhoneTrustsOnlyCommitted'
    BY <1>1, <2>8 DEF IInv, RepliesAreTrue, PhoneTrustsOnlyCommitted
  <2> QED BY <1>1, <2>3, <2>4, <2>5, <2>6, <2>7, <2>9 DEF IInv
<1>2. CASE Leave(c, "unwritten") /\ UNCHANGED <<record, temporary, committed>>
  BY <1>2, UnwrittenKeeps
<1> QED BY <1>1, <1>2

\* A reply that says "paired" is only for the phone that was recorded.
LEMMA DeliveredIsTrue ==
  ASSUME IInv, NEW c \in Ceremonies, NEW r \in ReplyType, Delivered(c, r),
         r.type = "paired" => peer[c] \in Phones /\ committed[c] = peer[c],
         UNCHANGED committed
  PROVE  RepliesAreTrue'
<1> SUFFICES ASSUME NEW p \in Phones, NEW i \in 1 .. Len(inbox'[p]),
                    inbox'[p][i].type = "paired"
             PROVE  \E e \in Ceremonies : committed[e] = p
  BY DEF RepliesAreTrue
<1>1. CASE inbox'[p] = inbox[p]
  BY <1>1 DEF IInv, RepliesAreTrue
<1>2. CASE inbox'[p] # inbox[p]
  <2>1. p = peer[c] /\ inbox'[p] = Append(inbox[p], r)
    BY <1>2 DEF Delivered, IInv, TypeOK
  <2>2. inbox[p] \in Seq(ReplyType)
    BY DEF IInv, TypeOK
  <2>3. CASE i \in 1 .. Len(inbox[p])
    BY <2>1, <2>2, <2>3 DEF IInv, RepliesAreTrue
  <2>4. CASE i = Len(inbox[p]) + 1
    BY <2>1, <2>2, <2>4
  <2> QED BY <2>1, <2>2, <2>3, <2>4
<1> QED BY <1>1, <1>2

LEMMA SendPairedKeeps ==
  ASSUME IInv, NEW c \in Ceremonies, SendPaired(c)
  PROVE  IInv'
<1>1. /\ Reply("paired", None) \in ReplyType
      /\ Reply("paired", None).type = "paired"
  BY DEF Reply, ReplyType
<1>2. inbox' \in [Phones -> Seq(ReplyType)]
  BY <1>1, DeliveredType DEF SendPaired, IInv, TypeOK
<1>3. TypeOK'
  BY <1>2 DEF IInv, TypeOK, SendPaired, Leave, Goto, Outcome, Step
<1>4. RepliesAreTrue'
  <2>1. /\ session[c] \in SessionType
        /\ session[c].claim \in Phones
        /\ peer[c] = session[c].claim
        /\ committed[c] = session[c].claim
    BY DEF SendPaired, IInv, TypeOK, InvitationsAreOwn, ApprovalsStand,
           ConfirmationsStand, Verified, Open
  <2>2. CASE Delivered(c, Reply("paired", None))
    BY <2>1, <2>2, <1>1, DeliveredIsTrue DEF SendPaired
  <2>3. CASE UNCHANGED inbox
    BY <2>3 DEF SendPaired, IInv, RepliesAreTrue
  <2> QED BY <2>2, <2>3 DEF SendPaired
<1> QED BY <1>3, <1>4, LeaveKeeps DEF SendPaired, Open

LEMMA CancelKeeps ==
  ASSUME IInv, NEW c \in Ceremonies, Cancel(c) \/ Expire(c)
  PROVE  IInv'
<1> USE DEF Cancel, Expire
<1>1. step[c] \in Open \ {"writing", "renaming"} /\ Leave(c, "returned")
  BY DEF Awaiting, Open
<1>2. TypeOK'
  BY <1>1 DEF IInv, TypeOK, Leave, Goto, Step, Outcome
<1>3. RepliesAreTrue'
  BY DEF IInv, RepliesAreTrue
<1> QED BY <1>1, <1>2, <1>3, LeaveKeeps

\* A connection has failed, and either ends the ceremony or the next is awaited.
LEMMA TurnKeeps ==
  ASSUME IInv, NEW c \in Ceremonies, step[c] \in {"waiting", "serving"},
         NEW s \in Sources, sourceFailures[c][s] < MaxPerSource,
         RecordFailure(c, s),
         session' \in [Ceremonies -> SessionType \cup {None}],
         session'[c] # None, session'[c].invitation = session[c].invitation,
         session'[c].state \in {"available", "expired"},
         peer' \in [Ceremonies -> Phones \cup {None}],
         heard' \in [Ceremonies -> ClaimType \cup {None}],
         inbox' \in [Phones -> Seq(ReplyType)], RepliesAreTrue',
         \A e \in Ceremonies \ {c} :
           /\ session'[e] = session[e] /\ peer'[e] = peer[e]
           /\ heard'[e] = heard[e],
         UNCHANGED <<now, files, at, invitation, started, phase, scanned, link,
                     trusts, history>>
  PROVE  IInv'
<1>1. globalFailures[c] < MaxGlobal
  BY DEF IInv, FailuresAreBelow
<1>2. /\ sourceFailures' \in [Ceremonies -> [Sources -> 0 .. MaxPerSource]]
      /\ globalFailures' \in [Ceremonies -> 0 .. MaxGlobal]
  <2>1. /\ sourceFailures[c] \in [Sources -> 0 .. MaxPerSource]
        /\ globalFailures[c] \in 0 .. MaxGlobal
    BY DEF IInv, TypeOK
  <2>2. /\ sourceFailures[c][s] + 1 \in 0 .. MaxPerSource
        /\ globalFailures[c] + 1 \in 0 .. MaxGlobal
    BY <1>1, <2>1, PairingOK
  <2>3. [sourceFailures[c] EXCEPT ![s] = @ + 1] \in [Sources -> 0 .. MaxPerSource]
    BY <2>1, <2>2
  <2>4. sourceFailures' = [sourceFailures EXCEPT ![c] = [sourceFailures[c] EXCEPT ![s] = @ + 1]]
    BY DEF RecordFailure
  <2> QED BY <2>2, <2>3, <2>4 DEF RecordFailure, IInv, TypeOK
<1>3. \A e \in Ceremonies \ {c} : sourceFailures'[e] = sourceFailures[e] /\ globalFailures'[e] = globalFailures[e]
  BY DEF RecordFailure, IInv, TypeOK
<1>4. ASSUME NEW why \in {"returned", "limited"}, Leave(c, why)
      PROVE  IInv'
  <2>1. TypeOK'
    BY <1>2, <1>4 DEF IInv, TypeOK, Leave, Goto, Step, Outcome
  <2> QED BY <1>3, <1>4, <2>1, LeaveKeeps DEF Open
<1>5. CASE /\ globalFailures[c] + 1 < MaxGlobal
           /\ Goto(c, "waiting") /\ UNCHANGED outcome
  <2> USE <1>5 DEF Goto
  <2>1. TypeOK'
    BY <1>2 DEF IInv, TypeOK, Step, Open
  <2>2. step'[c] = "waiting" /\ \A e \in Ceremonies \ {c} : step'[e] = step[e]
    BY DEF IInv, TypeOK
  <2>3. InvitationsAreOwn'
    BY <2>2 DEF IInv, InvitationsAreOwn, Open
  <2>4. ApprovalsStand'
    BY <2>2 DEF IInv, ApprovalsStand, TypeOK, InvitationType, Verified
  <2>5. ConfirmationsStand'
    BY <2>2 DEF IInv, ConfirmationsStand, SettingUp
  <2>6. FilesAreWhole'
    BY <2>2 DEF IInv, FilesAreWhole, TypeOK, FileType
  <2>7. FailuresAreBelow'
    <3>1. globalFailures'[c] < MaxGlobal
      BY DEF IInv, TypeOK, RecordFailure
    <3> QED BY <1>3, <2>2, <3>1 DEF IInv, FailuresAreBelow, SettingUp
  <2>8. QrHasItsPlace' /\ NothingLeftBehind'
    BY DEF IInv, QrHasItsPlace, NothingLeftBehind, TypeOK
  <2>9. PhoneTrustsOnlyCommitted'
    BY DEF IInv, PhoneTrustsOnlyCommitted
  <2> QED BY <2>1, <2>3, <2>4, <2>5, <2>6, <2>7, <2>8, <2>9 DEF IInv
<1> QED BY <1>4, <1>5 DEF RecordFailure, NextTurn

LEMMA AcceptPhoneKeeps ==
  ASSUME IInv, NEW c \in Ceremonies, NEW p \in Phones, AcceptPhone(c, p)
  PROVE  IInv'
<1> USE DEF AcceptPhone, Goto, Hear, TypeOK, Open
<1>1. scanned[p] \in InvitationType /\ scanned[p] # None
  BY DEF IInv, ApprovalsStand
<1>2. /\ Claim(scanned[p], p) \in ClaimType /\ Claim(scanned[p], p) # None
      /\ Claim(scanned[p], p).phone = p
      /\ Claim(scanned[p], p).ceremony = scanned[p].ceremony
  BY <1>1, NoneIsNothing DEF Claim, ClaimType, Transcript, InvitationType
<1>3. TypeOK'
  BY <1>2 DEF IInv, Step
<1>4. InvitationsAreOwn' /\ ConfirmationsStand' /\ FilesAreWhole'
  BY DEF IInv, InvitationsAreOwn, ConfirmationsStand, SettingUp,
         FilesAreWhole, FileType
<1>5. ApprovalsStand'
  <2>1. scanned[p].ceremony = c => p \in approved[c]
    BY <1>1 DEF IInv, ApprovalsStand
  <2>2. heard'[c] = Claim(scanned[p], p) /\ peer'[c] = p /\ step'[c] = "serving"
    BY DEF IInv
  <2>3. \A e \in Ceremonies : e # c =>
          step'[e] = step[e] /\ heard'[e] = heard[e] /\ peer'[e] = peer[e]
    BY DEF IInv
  <2>4. ASSUME NEW q \in Phones
        PROVE  /\ phase'[q] # "ready" => scanned'[q] # None
               /\ scanned'[q] # None /\ step'[scanned'[q].ceremony] # "ended"
                    => q \in approved'[scanned'[q].ceremony]
    <3>1. phase'[q] # "ready" => scanned[q] # None
      BY <1>1 DEF IInv, ApprovalsStand
    <3>2. scanned[q] # None => scanned[q].ceremony \in Ceremonies
      BY DEF IInv, InvitationType
    <3> QED BY <2>2, <2>3, <3>1, <3>2 DEF IInv, ApprovalsStand
  <2>5. ASSUME NEW e \in Ceremonies
        PROVE  /\ step'[e] = "serving" =>
                    /\ heard'[e] # None /\ peer'[e] = heard'[e].phone
                    /\ heard'[e].ceremony = e => heard'[e].phone \in approved'[e]
               /\ step'[e] \in Verified =>
                    /\ session'[e].claim \in approved'[e]
                    /\ peer'[e] = session'[e].claim
    BY <1>2, <2>1, <2>2, <2>3 DEF IInv, ApprovalsStand, Verified
  <2> QED BY <2>4, <2>5 DEF ApprovalsStand
<1>6. FailuresAreBelow'
  BY DEF IInv, FailuresAreBelow, SettingUp, Tolerated
<1>7. /\ RepliesAreTrue'
      /\ PhoneTrustsOnlyCommitted'
      /\ QrHasItsPlace'
      /\ NothingLeftBehind'
  BY DEF IInv, RepliesAreTrue, PhoneTrustsOnlyCommitted, QrHasItsPlace,
         NothingLeftBehind
<1> QED BY <1>3, <1>4, <1>5, <1>6, <1>7 DEF IInv

\* Who is being served has not failed too often.
LEMMA ServedIsTolerated ==
  ASSUME IInv, NEW c \in Ceremonies, step[c] = "serving"
  PROVE  /\ heard[c] \in ClaimType /\ peer[c] = heard[c].phone
         /\ peer[c] \in Sources /\ peer[c] \in Phones
         /\ sourceFailures[c][peer[c]] < MaxPerSource
         /\ session[c] \in SessionType /\ session[c] # None
         /\ session[c].invitation = invitation[c]
         /\ session[c].state \in {"available", "expired"}
<1>1. heard[c] \in ClaimType /\ peer[c] = heard[c].phone
  BY DEF IInv, TypeOK, ApprovalsStand
<1>2. peer[c] \in Phones
  BY <1>1 DEF ClaimType
<1> QED BY <1>1, <1>2
           DEF IInv, TypeOK, FailuresAreBelow, InvitationsAreOwn, Sources,
               Open

LEMMA ServeFailsKeeps ==
  ASSUME IInv, NEW c \in Ceremonies, ServeFails(c)
  PROVE  IInv'
<1> USE DEF ServeFails
<1>1. /\ peer' \in [Ceremonies -> Phones \cup {None}]
      /\ heard' \in [Ceremonies -> ClaimType \cup {None}]
      /\ \A e \in Ceremonies \ {c} : peer'[e] = peer[e] /\ heard'[e] = heard[e]
  BY DEF Hear, IInv, TypeOK
<1>2. RepliesAreTrue'
  BY DEF IInv, RepliesAreTrue
<1>3. /\ session' \in [Ceremonies -> SessionType \cup {None}]
      /\ inbox' \in [Phones -> Seq(ReplyType)]
  BY DEF IInv, TypeOK
<1> QED BY <1>1, <1>2, <1>3, ServedIsTolerated, TurnKeeps

LEMMA ServeOtherKeeps ==
  ASSUME IInv, NEW c \in Ceremonies, NEW s \in Sources, ServeOther(c, s)
  PROVE  IInv'
<1> USE DEF ServeOther
<1>1. RepliesAreTrue'
  BY DEF IInv, RepliesAreTrue
<1>2. CASE RecordFailure(c, s)
  <2>1. session[c] # None /\ session[c].state \in {"available", "expired"}
    BY DEF IInv, InvitationsAreOwn, Open
  <2>2. /\ session' \in [Ceremonies -> SessionType \cup {None}]
        /\ inbox' \in [Phones -> Seq(ReplyType)]
        /\ peer' \in [Ceremonies -> Phones \cup {None}]
        /\ heard' \in [Ceremonies -> ClaimType \cup {None}]
    BY DEF IInv, TypeOK
  <2> QED BY <1>1, <1>2, <2>1, <2>2, TurnKeeps DEF Tolerated
<1>3. CASE Leave(c, "returned") /\ UNCHANGED failures
  <2>1. TypeOK'
    BY <1>3 DEF IInv, TypeOK, Leave, Goto, Step, Outcome
  <2> QED BY <1>1, <1>3, <2>1, LeaveKeeps DEF Open
<1> QED BY <1>2, <1>3

\* What claim makes of the session of the connection that is served.
LEMMA ClaimedSession ==
  ASSUME IInv, NEW c \in Ceremonies, step[c] = "serving",
         NEW claimed, claimed = Claimed(session[c], heard[c], Elapsed(c))
  PROVE  /\ claimed \in SessionType /\ claimed # None
         /\ claimed.invitation = invitation[c]
         /\ claimed.state # "awaiting_approvals" =>
              claimed.state \in {"available", "expired"}
         /\ claimed.state = "awaiting_approvals" =>
              /\ claimed.claim = peer[c] /\ peer[c] \in approved[c]
<1> DEFINE aged == ExpiredIfNeeded(session[c], Elapsed(c))
<1>1. /\ heard[c] \in ClaimType
      /\ peer[c] = heard[c].phone
      /\ peer[c] \in Phones
      /\ session[c] \in SessionType /\ session[c].invitation = invitation[c]
      /\ session[c].state \in {"available", "expired"}
      /\ invitation[c].ceremony = c
      /\ heard[c].ceremony = c => heard[c].phone \in approved[c]
  BY ServedIsTolerated DEF IInv, ApprovalsStand, InvitationsAreOwn, Open
<1>2. /\ aged \in SessionType /\ aged.invitation = invitation[c]
      /\ aged.state \in {"available", "expired"}
  BY <1>1 DEF ExpiredIfNeeded, Closed, SessionType, InvitationState
<1>3. CASE Verifies(aged, heard[c])
  <2>1. claimed = [aged EXCEPT !.state = "awaiting_approvals", !.claim = heard[c].phone]
    BY <1>3 DEF Claimed
  <2>2. /\ claimed \in SessionType
        /\ claimed.invitation = invitation[c]
        /\ claimed.state = "awaiting_approvals"
        /\ claimed.claim = heard[c].phone
    BY <2>1, <1>1, <1>2 DEF SessionType, InvitationState
  <2>3. heard[c].ceremony = c
    BY <1>1, <1>2, <1>3 DEF Verifies
  <2> QED BY <1>1, <2>2, <2>3, NoneIsNothing
<1>4. CASE ~Verifies(aged, heard[c])
  <2>1. claimed = aged
    BY <1>4 DEF Claimed
  <2> QED BY <1>2, <2>1, NoneIsNothing
<1> QED BY <1>3, <1>4

\* The claim is verified, or refused.
LEMMA ReadClaimKeeps ==
  ASSUME IInv, NEW c \in Ceremonies, ReadClaim(c)
  PROVE  IInv'
<1> DEFINE claimed == Claimed(session[c], heard[c], Elapsed(c))
           both == Approved(claimed, "phone")
<1>1. step[c] = "serving"
  BY DEF ReadClaim
<1>2. /\ claimed \in SessionType /\ claimed # None
      /\ claimed.invitation = invitation[c]
      /\ claimed.state # "awaiting_approvals" =>
           claimed.state \in {"available", "expired"}
      /\ claimed.state = "awaiting_approvals" =>
           claimed.claim = peer[c] /\ peer[c] \in approved[c]
  BY <1>1, ClaimedSession
<1>3. /\ both \in SessionType
      /\ both.claim = claimed.claim
      /\ both.invitation = claimed.invitation
  BY <1>2 DEF Approved, SessionType, ApprovalSide, InvitationState
<1>4. CASE /\ claimed.state = "awaiting_approvals"
           /\ session' = [session EXCEPT ![c] = both]
           /\ UNCHANGED <<peer, heard, failures>>
           /\ \/ /\ Delivered(c, Reply("confirm", Code(claimed)))
                 /\ Goto(c, "prompting")
                 /\ UNCHANGED outcome
              \/ Leave(c, "returned") /\ UNCHANGED inbox
  <2>1. /\ Reply("confirm", Code(claimed)) \in ReplyType
        /\ Reply("confirm", Code(claimed)).type = "confirm"
    <3>1. claimed.invitation \in InvitationType /\ claimed.claim \in Phones
      BY <1>1, <1>2, <1>4, ServedIsTolerated DEF SessionType
    <3> QED BY <3>1 DEF Reply, ReplyType, Code, Transcript
  <2>2. inbox' \in [Phones -> Seq(ReplyType)] /\ RepliesAreTrue'
    <3>1. CASE Delivered(c, Reply("confirm", Code(claimed)))
      BY <2>1, <3>1, DeliveredType, DeliveredIsTrue DEF IInv, ReadClaim
    <3>2. CASE UNCHANGED inbox
      BY <3>2 DEF IInv, TypeOK, RepliesAreTrue, ReadClaim
    <3> QED BY <1>4, <3>1, <3>2
  <2>3. TypeOK'
    BY <1>3, <1>4, <2>2
       DEF IInv, TypeOK, ReadClaim, Goto, Leave, Step, Open, Outcome
  <2>4. CASE Leave(c, "returned")
    <3>1. \A e \in Ceremonies \ {c} : session'[e] = session[e]
      BY <1>4 DEF IInv, TypeOK
    <3> QED BY <1>1, <1>4, <2>2, <2>3, <2>4, <3>1, LeaveKeeps
               DEF ReadClaim, Open
  <2>5. CASE Goto(c, "prompting") /\ UNCHANGED outcome
    <3> USE <1>4, <2>5 DEF ReadClaim, Goto, TypeOK
    <3>1. /\ step'[c] = "prompting" /\ session'[c] = both
          /\ \A e \in Ceremonies \ {c} : step'[e] = step[e] /\ session'[e] = session[e]
      BY DEF IInv
    <3>2. InvitationsAreOwn'
      BY <1>2, <1>3, <3>1, NoneIsNothing DEF IInv, InvitationsAreOwn, Open
    <3>3. ApprovalsStand'
      BY <1>2, <1>3, <3>1 DEF IInv, ApprovalsStand, Verified, InvitationType
    <3>4. ConfirmationsStand'
      BY <3>1 DEF IInv, ConfirmationsStand, SettingUp
    <3>5. FilesAreWhole'
      BY <3>1 DEF IInv, FilesAreWhole, FileType
    <3>6. FailuresAreBelow' /\ QrHasItsPlace'
      BY DEF IInv, FailuresAreBelow, SettingUp, QrHasItsPlace
    <3>7. PhoneTrustsOnlyCommitted' /\ NothingLeftBehind'
      BY DEF IInv, PhoneTrustsOnlyCommitted, NothingLeftBehind
    <3> QED BY <2>2, <2>3, <3>2, <3>3, <3>4, <3>5, <3>6, <3>7 DEF IInv
  <2> QED BY <1>4, <2>4, <2>5
<1>5. CASE /\ claimed.state # "awaiting_approvals"
           /\ session' = [session EXCEPT ![c] = claimed]
           /\ Refuse(c)
  <2> USE DEF Refuse, Hear, ReadClaim
  <2>1. /\ Reply("rejected", None) \in ReplyType
        /\ Reply("rejected", None).type = "rejected"
    BY DEF Reply, ReplyType
  <2>2. inbox' \in [Phones -> Seq(ReplyType)] /\ RepliesAreTrue'
    <3>1. CASE Delivered(c, Reply("rejected", None))
      BY <2>1, <3>1, DeliveredType, DeliveredIsTrue DEF IInv
    <3>2. CASE UNCHANGED inbox
      BY <3>2 DEF IInv, TypeOK, RepliesAreTrue
    <3> QED BY <1>5, <3>1, <3>2
  <2>3. /\ session' \in [Ceremonies -> SessionType \cup {None}]
        /\ session'[c] = claimed
        /\ peer' \in [Ceremonies -> Phones \cup {None}]
        /\ heard' \in [Ceremonies -> ClaimType \cup {None}]
        /\ \A e \in Ceremonies \ {c} :
             session'[e] = session[e] /\ peer'[e] = peer[e] /\ heard'[e] = heard[e]
    BY <1>2, <1>5 DEF IInv, TypeOK
  <2>4. CASE RecordFailure(c, peer[c])
    BY <1>1, <1>2, <1>5, <2>2, <2>3, <2>4, ServedIsTolerated, TurnKeeps
  <2>5. CASE Leave(c, "returned") /\ UNCHANGED failures
    <3>1. TypeOK'
      BY <2>2, <2>3, <2>5 DEF IInv, TypeOK, Goto, Leave, Step, Outcome
    <3> QED BY <1>1, <2>2, <2>3, <2>5, <3>1, LeaveKeeps DEF Open
  <2> QED BY <1>5, <2>4, <2>5
<1> QED BY <1>4, <1>5 DEF ReadClaim

\* The phone of a verified claim, and nothing yet of the desktop's.
LEMMA PromptedSession ==
  ASSUME IInv, NEW c \in Ceremonies, step[c] = "prompting"
  PROVE  /\ session[c] \in SessionType /\ session[c].claim \in Phones
         /\ session[c].claim \in approved[c] /\ peer[c] = session[c].claim
         /\ session[c].invitation = invitation[c]
         /\ confirmed[c] = None /\ committed[c] = None
<1>1. session[c] \in SessionType
  BY DEF IInv, TypeOK, InvitationsAreOwn, Open
<1>2. session[c].claim \in approved[c] /\ peer[c] = session[c].claim
  BY DEF IInv, ApprovalsStand, Verified
<1> QED BY <1>1, <1>2
           DEF IInv, TypeOK, InvitationsAreOwn, ConfirmationsStand, Open

\* The desktop approves the claim it showed the code of.
LEMMA ApproveKeeps ==
  ASSUME IInv, NEW c \in Ceremonies, step[c] = "prompting",
         ApproveDesktop(c, session[c].claim),
         UNCHANGED <<now, files, at, invitation, started, peer, heard, failures,
                     phase, scanned, link, trusts, approved, committed>>
  PROVE  IInv'
<1> USE DEF ApproveDesktop, Goto, TypeOK
<1> DEFINE both == Approved(session[c], "desktop")
<1>1. /\ both \in SessionType /\ both # None
      /\ both.claim = session[c].claim /\ both.invitation = invitation[c]
  <2>1. session[c] \in SessionType /\ session[c].invitation = invitation[c]
    BY PromptedSession
  <2>2. /\ both \in SessionType
        /\ both.claim = session[c].claim /\ both.invitation = session[c].invitation
    BY <2>1 DEF Approved, SessionType, ApprovalSide, InvitationState
  <2> QED BY <2>1, <2>2, NoneIsNothing
<1>2. /\ step'[c] = "persisting" /\ session'[c] = both
      /\ confirmed'[c] = session[c].claim
      /\ \A e \in Ceremonies \ {c} :
           step'[e] = step[e] /\ session'[e] = session[e] /\ confirmed'[e] = confirmed[e]
  BY DEF IInv
<1>3. TypeOK'
  BY <1>1, PromptedSession DEF IInv, Step, Open
<1>4. InvitationsAreOwn'
  BY <1>1, <1>2 DEF IInv, InvitationsAreOwn, Open
<1>5. ApprovalsStand'
  BY <1>1, <1>2 DEF IInv, ApprovalsStand, Verified, InvitationType
<1>6. ConfirmationsStand'
  BY <1>1, <1>2, PromptedSession DEF IInv, ConfirmationsStand, SettingUp
<1>7. FilesAreWhole'
  BY <1>2 DEF IInv, FilesAreWhole, FileType
<1>8. FailuresAreBelow' /\ QrHasItsPlace'
  BY DEF IInv, FailuresAreBelow, SettingUp, QrHasItsPlace
<1>9. RepliesAreTrue' /\ PhoneTrustsOnlyCommitted' /\ NothingLeftBehind'
  BY DEF IInv, RepliesAreTrue, PhoneTrustsOnlyCommitted, NothingLeftBehind
<1> QED BY <1>3, <1>4, <1>5, <1>6, <1>7, <1>8, <1>9 DEF IInv

\* The desktop rejects it.
LEMMA RejectKeeps ==
  ASSUME IInv, NEW c \in Ceremonies, step[c] = "prompting", RejectDesktop(c),
         UNCHANGED <<now, files, at, invitation, started, peer, heard, failures,
                     phase, scanned, link, trusts, approved, committed>>
  PROVE  IInv'
<1> USE DEF RejectDesktop
<1>1. /\ Reply("rejected", None) \in ReplyType
      /\ Reply("rejected", None).type = "rejected"
  BY DEF Reply, ReplyType
<1>2. inbox' \in [Phones -> Seq(ReplyType)] /\ RepliesAreTrue'
  <2>1. CASE Delivered(c, Reply("rejected", None))
    BY <1>1, <2>1, DeliveredType, DeliveredIsTrue DEF IInv
  <2>2. CASE UNCHANGED inbox
    BY <2>2 DEF IInv, TypeOK, RepliesAreTrue
  <2> QED BY <2>1, <2>2
<1>3. Rejected(session[c]) \in SessionType
  BY PromptedSession DEF Rejected, Closed, SessionType, InvitationState
<1>4. \A e \in Ceremonies \ {c} : session'[e] = session[e]
  BY DEF IInv, TypeOK
<1>5. TypeOK'
  BY <1>2, <1>3 DEF IInv, TypeOK, Leave, Goto, Step, Outcome
<1> QED BY <1>2, <1>4, <1>5, LeaveKeeps DEF Open

\* The code that is typed is that of the claim: both are the transcript.
LEMMA EnteredIsClaim ==
  ASSUME IInv, NEW c \in Ceremonies, NEW d \in Ceremonies, NEW p \in Phones,
         Transcript(invitation[d], p) = Code(session[c])
  PROVE  p = session[c].claim
BY DEF Transcript, Code

LEMMA EnterCodeKeeps ==
  ASSUME IInv, NEW c \in Ceremonies, EnterCode(c) \/ ApproveUnasked(c)
  PROVE  IInv'
<1>1. CASE RejectDesktop(c)
  BY <1>1, RejectKeeps DEF EnterCode, ApproveUnasked
<1>2. CASE ApproveDesktop(c, session[c].claim)
  BY <1>2, ApproveKeeps DEF EnterCode, ApproveUnasked
<1>3. ASSUME NEW d \in Ceremonies, NEW p \in approved[d],
             Transcript(invitation[d], p) = Code(session[c]),
             ApproveDesktop(c, p)
      PROVE  ApproveDesktop(c, session[c].claim)
  <2>1. p \in Phones
    BY DEF IInv, TypeOK
  <2> QED BY <1>3, <2>1, EnteredIsClaim
<1> QED BY <1>1, <1>2, <1>3 DEF EnterCode, ApproveUnasked

LEMMA ConnectAndPairKeeps ==
  ASSUME IInv, NEW p \in Phones, ConnectAndPair(p)
  PROVE  IInv'
<1> USE DEF ConnectAndPair, TypeOK
<1>1. PICK c \in Ceremonies :
        /\ invitation[c] # None
        /\ scanned' = [scanned EXCEPT ![p] = invitation[c]]
        /\ approved' = [approved EXCEPT
                          ![c] = IF step[c] = "ended" THEN @ ELSE @ \cup {p}]
  OBVIOUS
<1>2. invitation[c] \in InvitationType /\ invitation[c].ceremony = c
  BY <1>1 DEF IInv, InvitationsAreOwn
<1>3. \A e \in Ceremonies : approved[e] \subseteq approved'[e]
  BY <1>1 DEF IInv
<1>4. TypeOK'
  BY <1>1, <1>2 DEF IInv
<1>5. InvitationsAreOwn' /\ ConfirmationsStand' /\ FilesAreWhole'
  BY DEF IInv, InvitationsAreOwn, ConfirmationsStand, FilesAreWhole
<1>6. ApprovalsStand'
  BY <1>1, <1>2, <1>3 DEF IInv, ApprovalsStand, InvitationType
<1>7. FailuresAreBelow' /\ QrHasItsPlace' /\ NothingLeftBehind'
  BY DEF IInv, FailuresAreBelow, QrHasItsPlace, NothingLeftBehind
<1>8. RepliesAreTrue' /\ PhoneTrustsOnlyCommitted'
  BY DEF IInv, RepliesAreTrue, PhoneTrustsOnlyCommitted
<1> QED BY <1>4, <1>5, <1>6, <1>7, <1>8 DEF IInv

\* What a phone does on its own keeps the rest, if its trust is justified.
LEMMA PhoneKeeps ==
  ASSUME IInv, NEW p \in Phones,
         phase' \in [Phones -> {"ready", "connecting", "claimed", "confirmed"}],
         \A q \in Phones : phase'[q] # "ready" => scanned'[q] # None,
         scanned' \in [Phones -> InvitationType \cup {None}],
         \A q \in Phones : scanned'[q] \in {scanned[q], None},
         link' \in [Phones -> Ceremonies \cup {None}],
         inbox' \in [Phones -> Seq(ReplyType)],
         trusts' \in [Phones -> BOOLEAN],
         RepliesAreTrue', PhoneTrustsOnlyCommitted',
         UNCHANGED <<now, files, process, memory, history>>
  PROVE  IInv'
<1>1. TypeOK'
  BY DEF IInv, TypeOK
<1>2. InvitationsAreOwn' /\ ConfirmationsStand' /\ FilesAreWhole'
  BY DEF IInv, InvitationsAreOwn, ConfirmationsStand, FilesAreWhole
<1>3. ApprovalsStand'
  BY DEF IInv, ApprovalsStand
<1>4. FailuresAreBelow' /\ QrHasItsPlace' /\ NothingLeftBehind'
  BY DEF IInv, FailuresAreBelow, QrHasItsPlace, NothingLeftBehind
<1> QED BY <1>1, <1>2, <1>3, <1>4 DEF IInv

\* The phone is done with a ceremony.
LEMMA ShowReadyKeeps ==
  ASSUME IInv, NEW p \in Phones, ShowReady(p),
         trusts' \in [Phones -> BOOLEAN], PhoneTrustsOnlyCommitted',
         UNCHANGED <<now, files, process, memory, history>>
  PROVE  IInv'
<1> USE DEF ShowReady, TypeOK
<1>1. RepliesAreTrue'
  BY DEF IInv, RepliesAreTrue
<1>2. /\ phase' \in [Phones -> {"ready", "connecting", "claimed", "confirmed"}]
      /\ scanned' \in [Phones -> InvitationType \cup {None}]
      /\ link' \in [Phones -> Ceremonies \cup {None}]
      /\ inbox' \in [Phones -> Seq(ReplyType)]
  BY DEF IInv
<1>3. \A q \in Phones :
        /\ scanned'[q] \in {scanned[q], None}
        /\ phase'[q] # "ready" => scanned'[q] # None
  BY DEF IInv, ApprovalsStand
<1> QED BY <1>1, <1>2, <1>3, PhoneKeeps

LEMMA ReadReplyKeeps ==
  ASSUME IInv, NEW p \in Phones, ReadReply(p)
  PROVE  IInv'
<1> USE DEF ReadReply, TypeOK
<1> DEFINE reply == Head(inbox[p])
<1>1. inbox[p] \in Seq(ReplyType) /\ inbox[p] # <<>>
  BY DEF IInv
<1>2. CASE /\ phase' = [phase EXCEPT ![p] = "confirmed"]
           /\ inbox' = [inbox EXCEPT ![p] = Tail(@)]
           /\ UNCHANGED <<scanned, link, trusts>>
  <2>1. /\ Tail(inbox[p]) \in Seq(ReplyType)
        /\ \A i \in 1 .. Len(Tail(inbox[p])) :
             i + 1 \in 1 .. Len(inbox[p]) /\ Tail(inbox[p])[i] = inbox[p][i + 1]
    BY <1>1
  <2>2. RepliesAreTrue'
    BY <1>2, <2>1 DEF IInv, RepliesAreTrue
  <2>3. inbox' \in [Phones -> Seq(ReplyType)]
    BY <1>2, <2>1 DEF IInv
  <2>4. PhoneTrustsOnlyCommitted'
    BY <1>2 DEF IInv, PhoneTrustsOnlyCommitted
  <2>5. /\ phase' \in [Phones -> {"ready", "connecting", "claimed", "confirmed"}]
        /\ \A q \in Phones : phase'[q] # "ready" => scanned'[q] # None
    BY <1>2 DEF IInv, ApprovalsStand
  <2> QED BY <1>2, <2>2, <2>3, <2>4, <2>5, PhoneKeeps DEF IInv
<1>3. CASE /\ Awaited(p, reply)
           /\ reply.type = "paired"
           /\ trusts' = [trusts EXCEPT ![p] = TRUE]
           /\ ShowReady(p)
  <2>1. 1 \in 1 .. Len(inbox[p]) /\ reply = inbox[p][1]
    BY <1>1
  <2>2. \E c \in Ceremonies : committed[c] = p
    BY <1>3, <2>1 DEF IInv, RepliesAreTrue
  <2>3. PhoneTrustsOnlyCommitted'
    BY <1>3, <2>2 DEF IInv, PhoneTrustsOnlyCommitted
  <2> QED BY <1>3, <2>3, ShowReadyKeeps DEF IInv
<1>4. CASE ShowReady(p) /\ UNCHANGED trusts
  <2>1. PhoneTrustsOnlyCommitted'
    BY <1>4 DEF IInv, PhoneTrustsOnlyCommitted
  <2> QED BY <1>4, <2>1, ShowReadyKeeps DEF IInv
<1> QED BY <1>2, <1>3, <1>4

LEMMA AbandonKeeps ==
  ASSUME IInv, NEW p \in Phones, Abandon(p) \/ ForgetDesktop(p)
  PROVE  IInv'
<1>1. CASE Abandon(p)
  <2>1. PhoneTrustsOnlyCommitted'
    BY <1>1 DEF Abandon, IInv, PhoneTrustsOnlyCommitted
  <2> QED BY <1>1, <2>1, ShowReadyKeeps DEF Abandon, IInv, TypeOK
<1>2. CASE ForgetDesktop(p)
  <2>1. PhoneTrustsOnlyCommitted' /\ RepliesAreTrue'
    BY <1>2
       DEF ForgetDesktop, IInv, TypeOK, PhoneTrustsOnlyCommitted,
           RepliesAreTrue
  <2>2. trusts' \in [Phones -> BOOLEAN]
    BY <1>2 DEF ForgetDesktop, IInv, TypeOK
  <2>3. \A q \in Phones : phase'[q] # "ready" => scanned'[q] # None
    BY <1>2 DEF ForgetDesktop, IInv, ApprovalsStand
  <2> QED BY <1>2, <2>1, <2>2, <2>3, PhoneKeeps DEF ForgetDesktop, IInv, TypeOK
<1> QED BY <1>1, <1>2

LEMMA ForgetTrustKeeps ==
  ASSUME IInv, ForgetTrust
  PROVE  IInv'
<1> USE DEF ForgetTrust
<1>1. TypeOK' /\ FilesAreWhole'
  BY DEF IInv, TypeOK, FilesAreWhole
<1>2. InvitationsAreOwn' /\ ApprovalsStand' /\ ConfirmationsStand'
  BY DEF IInv, InvitationsAreOwn, ApprovalsStand, ConfirmationsStand
<1>3. FailuresAreBelow' /\ QrHasItsPlace' /\ NothingLeftBehind'
  BY DEF IInv, FailuresAreBelow, QrHasItsPlace, NothingLeftBehind
<1>4. RepliesAreTrue' /\ PhoneTrustsOnlyCommitted'
  BY DEF IInv, RepliesAreTrue, PhoneTrustsOnlyCommitted
<1> QED BY <1>1, <1>2, <1>3, <1>4 DEF IInv

LEMMA TickKeeps ==
  ASSUME IInv, Tick
  PROVE  IInv'
<1> USE DEF Tick
<1>1. TypeOK' /\ FilesAreWhole'
  BY PairingOK DEF IInv, TypeOK, FilesAreWhole
<1>2. InvitationsAreOwn' /\ ApprovalsStand' /\ ConfirmationsStand'
  BY DEF IInv, InvitationsAreOwn, ApprovalsStand, ConfirmationsStand
<1>3. FailuresAreBelow' /\ QrHasItsPlace' /\ NothingLeftBehind'
  BY DEF IInv, FailuresAreBelow, QrHasItsPlace, NothingLeftBehind
<1>4. RepliesAreTrue' /\ PhoneTrustsOnlyCommitted'
  BY DEF IInv, RepliesAreTrue, PhoneTrustsOnlyCommitted
<1> QED BY <1>1, <1>2, <1>3, <1>4 DEF IInv

LEMMA InitIsFine ==
  ASSUME Init
  PROVE  IInv
<1> USE DEF Init
<1>1. TypeOK
  BY PairingOK DEF TypeOK, Step
<1>2. InvitationsAreOwn /\ ApprovalsStand /\ ConfirmationsStand
  BY DEF InvitationsAreOwn, ApprovalsStand, ConfirmationsStand, Open, Verified
<1>3. FilesAreWhole /\ QrHasItsPlace /\ NothingLeftBehind
  BY DEF FilesAreWhole, QrHasItsPlace, NothingLeftBehind
<1>4. RepliesAreTrue /\ PhoneTrustsOnlyCommitted
  BY DEF RepliesAreTrue, PhoneTrustsOnlyCommitted
<1>5. FailuresAreBelow
  BY PairingOK DEF FailuresAreBelow
<1> QED BY <1>1, <1>2, <1>3, <1>4, <1>5 DEF IInv

LEMMA StutterKeeps ==
  ASSUME IInv, UNCHANGED vars
  PROVE  IInv'
<1> USE DEF vars
<1>1. TypeOK' /\ FilesAreWhole'
  BY DEF IInv, TypeOK, FilesAreWhole
<1>2. InvitationsAreOwn' /\ ApprovalsStand' /\ ConfirmationsStand'
  BY DEF IInv, InvitationsAreOwn, ApprovalsStand, ConfirmationsStand
<1>3. FailuresAreBelow' /\ QrHasItsPlace' /\ NothingLeftBehind'
  BY DEF IInv, FailuresAreBelow, QrHasItsPlace, NothingLeftBehind
<1>4. RepliesAreTrue' /\ PhoneTrustsOnlyCommitted'
  BY DEF IInv, RepliesAreTrue, PhoneTrustsOnlyCommitted
<1> QED BY <1>1, <1>2, <1>3, <1>4 DEF IInv

\* Every step.
LEMMA NextKeeps ==
  ASSUME IInv, [Next]_vars
  PROVE  IInv'
<1>1. ASSUME NEW c \in Ceremonies, SetUpStep(c) PROVE IInv'
  BY <1>1, StartKeeps, IdentityKeeps, InviteKeeps, BindKeeps DEF SetUpStep
<1>2. ASSUME NEW c \in Ceremonies, WaitStep(c) PROVE IInv'
  BY <1>2, CancelKeeps, ServeFailsKeeps, ReadClaimKeeps, AcceptPhoneKeeps,
     ServeOtherKeeps
     DEF WaitStep, ServeStep
<1>3. ASSUME NEW c \in Ceremonies, PairStep(c) PROVE IInv'
  BY <1>3, EnterCodeKeeps, CreateTemporaryKeeps, WriteTemporaryKeeps,
     RenameKeeps, SendPairedKeeps
     DEF PairStep
<1>4. ASSUME NEW c \in Ceremonies, EndStep(c) PROVE IInv'
  BY <1>4, CancelKeeps, RemoveQrKeeps, KillKeeps DEF EndStep
<1>5. ASSUME NEW p \in Phones, PhoneStep(p) PROVE IInv'
  BY <1>5, ConnectAndPairKeeps, ReadReplyKeeps, AbandonKeeps DEF PhoneStep
<1> QED BY <1>1, <1>2, <1>3, <1>4, <1>5, ForgetTrustKeeps, TickKeeps,
           StutterKeeps
           DEF Next

\* The invariant holds, whatever ceremonies, phones and crashes do.
THEOREM PairingInvariant == Spec => []IInv
BY InitIsFine, NextKeeps, PTL DEF Spec

\* Every variable keeps its type; no counter passes its limit.
THEOREM PairingTypes == Spec => []TypeOK
<1>1. IInv => TypeOK
  BY DEF IInv
<1> QED BY <1>1, PairingInvariant, PTL

\* A phone believes that it is paired only if a ceremony recorded it.
THEOREM PhonesAreRight == Spec => []PhoneTrustsOnlyCommitted
<1>1. IInv => PhoneTrustsOnlyCommitted
  BY DEF IInv
<1> QED BY <1>1, PairingInvariant, PTL

\* A ceremony that ended by itself, or was cancelled, leaves neither its QR
\* nor, unless it could not write, a temporary record.
THEOREM CeremoniesTidyUp == Spec => []NothingLeftBehind
<1>1. IInv => NothingLeftBehind
  BY DEF IInv
<1> QED BY <1>1, PairingInvariant, PTL

-------------------------------------------------------------------------------
(* The limit on failures.  What was counted in all is what was counted of  *)
(* each source, and no source is counted past its own limit.               *)

\* Every failure counted takes one of the slots of its source.
Slots(counts) ==
  {slot \in Sources \X (0 .. MaxPerSource - 1) : slot[2] < counts[slot[1]]}

Failed(counts) == {s \in Sources : counts[s] > 0}

Counted(counts, total) ==
  /\ IsFiniteSet(Failed(counts))
  /\ IsFiniteSet(Slots(counts))
  /\ Cardinality(Slots(counts)) = total

FailuresAreCounted ==
  \A c \in Ceremonies : Counted(sourceFailures[c], globalFailures[c])

LimitIsReached ==
  \A c \in Ceremonies :
    step[c] = "closing" /\ outcome[c] = "limited" =>
      globalFailures[c] >= MaxGlobal

Counting == FailuresAreCounted /\ LimitIsReached

LEMMA NothingIsCounted == Counted([s \in Sources |-> 0], 0)
<1> DEFINE counts == [s \in Sources |-> 0]
<1>1. Slots(counts) = {}
  BY DEF Slots
<1>2. Failed(counts) = {}
  BY DEF Failed
<1> QED BY <1>1, <1>2, FS_EmptySet DEF Counted

\* The next failure of a source that is tolerated takes its next slot.
LEMMA OneMoreIsCounted ==
  ASSUME NEW counts \in [Sources -> 0 .. MaxPerSource], NEW total \in Nat,
         NEW s \in Sources, counts[s] < MaxPerSource, Counted(counts, total)
  PROVE  Counted([counts EXCEPT ![s] = @ + 1], total + 1)
<1> DEFINE more == [counts EXCEPT ![s] = @ + 1]
           slot == <<s, counts[s]>>
<1>1. counts[s] \in 0 .. MaxPerSource - 1
  BY PairingOK
<1>2. slot \notin Slots(counts)
  BY DEF Slots
<1>3. Slots(more) = Slots(counts) \cup {slot}
  <2>1. ASSUME NEW x \in Sources \X (0 .. MaxPerSource - 1)
        PROVE  x \in Slots(more) <=> x \in Slots(counts) \/ x = slot
    <3>1. PICK r \in Sources, k \in 0 .. MaxPerSource - 1 : x = <<r, k>>
      OBVIOUS
    <3>2. CASE r = s
      BY <3>1, <3>2, PairingOK DEF Slots
    <3>3. CASE r # s
      BY <3>1, <3>3, PairingOK DEF Slots
    <3> QED BY <3>2, <3>3
  <2>2. slot \in Sources \X (0 .. MaxPerSource - 1)
    BY <1>1
  <2>3. /\ Slots(more) \subseteq Sources \X (0 .. MaxPerSource - 1)
        /\ Slots(counts) \subseteq Sources \X (0 .. MaxPerSource - 1)
    BY DEF Slots
  <2> QED BY <2>1, <2>2, <2>3
<1>4. Failed(more) = Failed(counts) \cup {s}
  BY PairingOK DEF Failed
<1> HIDE DEF more, slot
<1>5. /\ IsFiniteSet(Slots(counts)) /\ IsFiniteSet(Failed(counts))
      /\ Cardinality(Slots(counts)) = total
  BY DEF Counted
<1>6. /\ IsFiniteSet(Slots(counts) \cup {slot})
      /\ Cardinality(Slots(counts) \cup {slot}) = total + 1
  BY <1>2, <1>5, FS_AddElement
<1>7. IsFiniteSet(Failed(counts) \cup {s})
  BY <1>5, FS_AddElement
<1>8. Counted(more, total + 1)
  BY <1>3, <1>4, <1>6, <1>7 DEF Counted
<1> QED BY <1>8 DEF more

\* There are no more slots than sources that failed, times their limit.
LEMMA CountIsBounded ==
  ASSUME NEW counts \in [Sources -> 0 .. MaxPerSource], NEW total \in Nat,
         Counted(counts, total)
  PROVE  /\ Cardinality(Failed(counts)) \in Nat
         /\ total <= Cardinality(Failed(counts)) * MaxPerSource
<1> DEFINE limits == 0 .. MaxPerSource - 1
<1>1. IsFiniteSet(limits) /\ Cardinality(limits) = MaxPerSource
  BY FS_Interval, PairingOK
<1>2. /\ IsFiniteSet(Failed(counts) \X limits)
      /\ Cardinality(Failed(counts) \X limits)
           = Cardinality(Failed(counts)) * MaxPerSource
  BY <1>1, FS_Product DEF Counted
<1>3. Slots(counts) \subseteq Failed(counts) \X limits
  <2>1. ASSUME NEW x \in Slots(counts) PROVE x \in Failed(counts) \X limits
    <3>1. PICK r \in Sources, k \in limits : x = <<r, k>> /\ k < counts[r]
      BY DEF Slots
    <3>2. r \in Failed(counts)
      BY <3>1, PairingOK DEF Failed
    <3> QED BY <3>1, <3>2
  <2> QED BY <2>1
<1>4. Cardinality(Slots(counts)) <= Cardinality(Failed(counts) \X limits)
  BY <1>2, <1>3, FS_Subset
<1>5. Cardinality(Failed(counts)) \in Nat
  BY FS_CardinalityType DEF Counted
<1> QED BY <1>2, <1>4, <1>5 DEF Counted

\* Nothing is counted, and no ceremony comes to its end at the limit.
LEMMA UncountedKeeps ==
  ASSUME Counting, UNCHANGED failures,
         \A c \in Ceremonies :
           step'[c] = "closing" /\ outcome'[c] = "limited" =>
             step[c] = "closing" /\ outcome[c] = "limited"
  PROVE  Counting'
BY DEF Counting, FailuresAreCounted, LimitIsReached

LEMMA LeaveCounts ==
  ASSUME IInv, Counting, NEW c \in Ceremonies, UNCHANGED failures,
         \/ Leave(c, "returned") \/ Leave(c, "unwritten")
         \/ \E s \in Step \ {"closing"} : Goto(c, s) /\ UNCHANGED outcome
  PROVE  Counting'
<1>1. \A e \in Ceremonies :
        step'[e] = "closing" /\ outcome'[e] = "limited" =>
          step[e] = "closing" /\ outcome[e] = "limited"
  <2> USE DEF IInv, TypeOK, Goto, Leave
  <2>1. CASE Leave(c, "returned") \/ Leave(c, "unwritten")
    BY <2>1
  <2>2. CASE \E s \in Step \ {"closing"} : Goto(c, s) /\ UNCHANGED outcome
    BY <2>2
  <2> QED BY <2>1, <2>2
<1> QED BY <1>1, UncountedKeeps

LEMMA ExitCounts ==
  ASSUME IInv, Counting, NEW c \in Ceremonies, NEW why, Exit(c, why)
  PROVE  Counting'
<1>1. ASSUME NEW e \in Ceremonies
      PROVE  Counted(sourceFailures'[e], globalFailures'[e])
  <2>1. CASE e = c
    BY <2>1, NothingIsCounted DEF Exit, IInv, TypeOK
  <2>2. CASE e # c
    BY <2>2 DEF Exit, IInv, TypeOK, Counting, FailuresAreCounted
  <2> QED BY <2>1, <2>2
<1>2. LimitIsReached'
  BY DEF Exit, Goto, IInv, TypeOK, Counting, LimitIsReached
<1> QED BY <1>1, <1>2 DEF Counting, FailuresAreCounted

LEMMA FailureCounts ==
  ASSUME IInv, Counting, NEW c \in Ceremonies, NEW s \in Sources,
         sourceFailures[c][s] < MaxPerSource, RecordFailure(c, s)
  PROVE  Counting'
<1> USE DEF IInv, TypeOK
<1>1. ASSUME NEW e \in Ceremonies
      PROVE  Counted(sourceFailures'[e], globalFailures'[e])
  <2>1. CASE e = c
    <3>1. /\ sourceFailures'[c] = [sourceFailures[c] EXCEPT ![s] = @ + 1]
          /\ globalFailures'[c] = globalFailures[c] + 1
      BY DEF RecordFailure
    <3>2. /\ Counted(sourceFailures[c], globalFailures[c])
          /\ globalFailures[c] \in Nat
          /\ sourceFailures[c] \in [Sources -> 0 .. MaxPerSource]
      BY PairingOK DEF Counting, FailuresAreCounted
    <3>3. Counted([sourceFailures[c] EXCEPT ![s] = @ + 1],
                  globalFailures[c] + 1)
      BY <3>2, OneMoreIsCounted
    <3> QED BY <2>1, <3>1, <3>3
  <2>2. CASE e # c
    BY <2>2 DEF RecordFailure, Counting, FailuresAreCounted
  <2> QED BY <2>1, <2>2
<1>2. LimitIsReached'
  BY PairingOK
     DEF RecordFailure, NextTurn, Leave, Goto, Counting, LimitIsReached
<1> QED BY <1>1, <1>2 DEF Counting, FailuresAreCounted

LEMMA SetUpCounts ==
  ASSUME IInv, Counting, NEW c \in Ceremonies, SetUpStep(c)
  PROVE  Counting'
<1>1. CASE \E why \in Outcome : Exit(c, why)
  BY <1>1, ExitCounts
<1>2. CASE /\ UNCHANGED <<outcome, failures>>
           /\ \E s \in Step \ {"closing"} : Goto(c, s)
  BY <1>2, LeaveCounts
<1> QED BY <1>1, <1>2
        DEF SetUpStep, Start, LoadIdentity, StoreIdentity, Invite, Bind,
            Outcome, Step, SettingUp, Open

LEMMA WaitCounts ==
  ASSUME IInv, Counting, NEW c \in Ceremonies, WaitStep(c)
  PROVE  Counting'
<1>1. CASE UNCHANGED failures /\ Leave(c, "returned")
  BY <1>1, LeaveCounts
<1>2. CASE /\ UNCHANGED <<outcome, failures>>
           /\ \E s \in Step \ {"closing"} : Goto(c, s)
  BY <1>2, LeaveCounts
<1>3. CASE step[c] = "serving" /\ RecordFailure(c, peer[c])
  <2>1. peer[c] \in Phones /\ sourceFailures[c][peer[c]] < MaxPerSource
    BY <1>3, NoneIsNothing
       DEF IInv, TypeOK, ApprovalsStand, FailuresAreBelow, ClaimType
  <2> QED BY <1>3, <2>1, FailureCounts DEF Sources
<1>4. ASSUME NEW s \in Sources, Tolerated(c, s), RecordFailure(c, s)
      PROVE  Counting'
  BY <1>4, FailureCounts DEF Tolerated
<1> QED BY <1>1, <1>2, <1>3, <1>4
        DEF WaitStep, ServeStep, Expire, ServeFails, ReadClaim, Refuse,
            AcceptPhone, ServeOther, Step, Open

LEMMA PairCounts ==
  ASSUME IInv, Counting, NEW c \in Ceremonies, PairStep(c) \/ Cancel(c)
  PROVE  Counting'
<1>1. UNCHANGED failures
  BY DEF PairStep, EnterCode, ApproveUnasked, CreateTemporary, WriteTemporary,
         Rename, SendPaired, Cancel
<1>2. \/ Leave(c, "returned") \/ Leave(c, "unwritten")
      \/ \E s \in Step \ {"closing"} : Goto(c, s) /\ UNCHANGED outcome
  BY DEF PairStep, EnterCode, ApproveUnasked, ApproveDesktop, RejectDesktop,
         CreateTemporary, WriteTemporary, Rename, SendPaired, Cancel, Step, Open
<1> QED BY <1>1, <1>2, LeaveCounts

LEMMA NextCounts ==
  ASSUME IInv, Counting, [Next]_vars
  PROVE  Counting'
<1>1. ASSUME NEW c \in Ceremonies, EndStep(c) PROVE Counting'
  BY <1>1, PairCounts, ExitCounts DEF EndStep, RemoveQr, Kill
<1>2. ASSUME NEW p \in Phones, PhoneStep(p) PROVE Counting'
  BY <1>2, UncountedKeeps
     DEF PhoneStep, ConnectAndPair, ReadReply, Abandon, ForgetDesktop
<1>3. CASE ForgetTrust \/ Tick \/ UNCHANGED vars
  BY <1>3, UncountedKeeps DEF ForgetTrust, Tick, vars
<1> QED BY <1>1, <1>2, <1>3, SetUpCounts, WaitCounts, PairCounts DEF Next

\* The limit on all failures ends a ceremony only after more failures than one
\* source may have: nobody alone uses an invitation up (wait_for_valid_claim).
THEOREM NobodyUsesItUp == Spec => []LimitNeedsManySources
<1>1. Init => Counting
  BY NothingIsCounted DEF Init, Counting, FailuresAreCounted, LimitIsReached
<1>2. IInv /\ Counting => LimitNeedsManySources
  <2> SUFFICES ASSUME IInv, Counting, NEW c \in Ceremonies,
                      step[c] = "closing", outcome[c] = "limited"
               PROVE  Cardinality(Failed(sourceFailures[c])) * MaxPerSource
                        >= MaxGlobal
    BY DEF LimitNeedsManySources, Failed
  <2>1. /\ globalFailures[c] \in Nat /\ globalFailures[c] >= MaxGlobal
        /\ sourceFailures[c] \in [Sources -> 0 .. MaxPerSource]
        /\ Counted(sourceFailures[c], globalFailures[c])
    BY PairingOK
       DEF IInv, TypeOK, Counting, FailuresAreCounted, LimitIsReached
  <2> QED BY <2>1, CountIsBounded, PairingOK
<1>3. IInv /\ Counting /\ [Next]_vars => Counting'
  BY NextCounts
<1> QED BY <1>1, <1>2, <1>3, PairingInvariant, PTL DEF Spec

-------------------------------------------------------------------------------
\* The steps of Pairing as steps of MutualTrust.
LEMMA UnchangedStutters ==
  ASSUME UNCHANGED <<record, history>>
  PROVE  UNCHANGED Trust!vars
BY DEF Trust!vars

LEMMA ExitEnds ==
  ASSUME NEW c \in Ceremonies, NEW why, Exit(c, why), UNCHANGED record
  PROVE  Trust!Next
<1>1. Trust!End(c)
  BY DEF Exit, Trust!End
<1> QED BY <1>1 DEF Trust!Next

LEMMA SetUpImplements ==
  ASSUME NEW c \in Ceremonies, SetUpStep(c)
  PROVE  [Trust!Next]_Trust!vars
<1>1. UNCHANGED record
  BY DEF SetUpStep, Start, LoadIdentity, StoreIdentity, Invite, Bind
<1>2. UNCHANGED history \/ \E why \in Outcome : Exit(c, why)
  BY DEF SetUpStep, Start, LoadIdentity, StoreIdentity, Invite, Bind, Outcome
<1> QED BY <1>1, <1>2, UnchangedStutters, ExitEnds

LEMMA WaitImplements ==
  ASSUME NEW c \in Ceremonies, WaitStep(c)
  PROVE  [Trust!Next]_Trust!vars
BY UnchangedStutters
   DEF WaitStep, ServeStep, Expire, ServeFails, ReadClaim, AcceptPhone, ServeOther

LEMMA ApproveImplements ==
  ASSUME IInv, NEW c \in Ceremonies, step[c] = "prompting",
         ApproveDesktop(c, session[c].claim),
         UNCHANGED <<record, approved, committed>>
  PROVE  Trust!Next
<1> DEFINE p == session[c].claim
<1>1. p \in Phones /\ p \in approved[c] /\ confirmed[c] = None
  BY PromptedSession
<1>2. Trust!DesktopApproves(c, p)
  BY <1>1 DEF ApproveDesktop, Trust!DesktopApproves
<1> QED BY <1>1, <1>2 DEF Trust!Next

LEMMA EnterCodeImplements ==
  ASSUME IInv, NEW c \in Ceremonies, EnterCode(c) \/ ApproveUnasked(c)
  PROVE  [Trust!Next]_Trust!vars
<1>1. step[c] = "prompting" /\ UNCHANGED <<record, approved, committed>>
  BY DEF EnterCode, ApproveUnasked
<1>2. CASE RejectDesktop(c)
  BY <1>1, <1>2, UnchangedStutters DEF RejectDesktop
<1>3. CASE ApproveDesktop(c, session[c].claim)
  BY <1>1, <1>3, ApproveImplements
<1>4. ASSUME NEW d \in Ceremonies, NEW p \in approved[d],
             Transcript(invitation[d], p) = Code(session[c]),
             ApproveDesktop(c, p)
      PROVE  ApproveDesktop(c, session[c].claim)
  <2>1. p \in Phones
    BY DEF IInv, TypeOK
  <2> QED BY <1>4, <2>1, EnteredIsClaim
<1> QED BY <1>2, <1>3, <1>4 DEF EnterCode, ApproveUnasked

LEMMA RenameImplements ==
  ASSUME IInv, NEW c \in Ceremonies, Rename(c)
  PROVE  [Trust!Next]_Trust!vars
<1> DEFINE p == session[c].claim
<1>1. /\ temporary \in FileType /\ temporary # None
      /\ temporary.whole /\ temporary.phone = p
  BY DEF Rename, IInv, TypeOK, FilesAreWhole
<1>2. p \in Phones /\ p \in approved[c]
  BY <1>1 DEF Rename, IInv, ApprovalsStand, Verified, FileType
<1>3. confirmed[c] = p /\ committed[c] = None
  BY DEF Rename, IInv, ConfirmationsStand
<1>4. CASE record' = temporary /\ committed' = [committed EXCEPT ![c] = record'.phone]
  <2>1. Trust!Commit(c, p)
    BY <1>1, <1>2, <1>3, <1>4 DEF Rename, Trust!Commit
  <2> QED BY <1>2, <2>1 DEF Trust!Next
<1>5. CASE UNCHANGED <<record, committed>>
  BY <1>5, UnchangedStutters DEF Rename
<1> QED BY <1>4, <1>5 DEF Rename

LEMMA PairImplements ==
  ASSUME IInv, NEW c \in Ceremonies, PairStep(c)
  PROVE  [Trust!Next]_Trust!vars
<1>1. CASE CreateTemporary(c) \/ WriteTemporary(c) \/ SendPaired(c)
  BY <1>1, UnchangedStutters DEF CreateTemporary, WriteTemporary, SendPaired
<1> QED BY <1>1, EnterCodeImplements, RenameImplements DEF PairStep

LEMMA EndImplements ==
  ASSUME NEW c \in Ceremonies, EndStep(c)
  PROVE  [Trust!Next]_Trust!vars
<1>1. CASE Cancel(c)
  BY <1>1, UnchangedStutters DEF Cancel
<1>2. CASE RemoveQr(c)
  BY <1>2, ExitEnds DEF RemoveQr
<1>3. CASE Kill(c)
  BY <1>3, ExitEnds DEF Kill
<1> QED BY <1>1, <1>2, <1>3 DEF EndStep

LEMMA PhoneImplements ==
  ASSUME IInv, NEW p \in Phones, PhoneStep(p)
  PROVE  [Trust!Next]_Trust!vars
<1>1. CASE ConnectAndPair(p)
  <2> USE <1>1 DEF ConnectAndPair
  <2>1. PICK c \in Ceremonies :
          approved' = [approved EXCEPT
                         ![c] = IF step[c] = "ended" THEN @ ELSE @ \cup {p}]
    OBVIOUS
  <2>2. CASE step[c] = "ended"
    <3>1. approved' = approved
      BY <2>1, <2>2 DEF IInv, TypeOK
    <3> QED BY <3>1, UnchangedStutters
  <2>3. CASE step[c] # "ended"
    <3>1. Trust!PhoneApproves(c, p)
      BY <2>1, <2>3 DEF Trust!PhoneApproves
    <3> QED BY <3>1 DEF Trust!Next
  <2> QED BY <2>2, <2>3
<1>2. CASE ReadReply(p) \/ Abandon(p) \/ ForgetDesktop(p)
  BY <1>2, UnchangedStutters DEF ReadReply, Abandon, ForgetDesktop
<1> QED BY <1>1, <1>2 DEF PhoneStep

LEMMA NextImplements ==
  ASSUME IInv, [Next]_vars
  PROVE  [Trust!Next]_Trust!vars
<1>1. CASE ForgetTrust
  BY <1>1 DEF ForgetTrust, Trust!Forget, Trust!Next
<1>2. CASE Tick
  BY <1>2, UnchangedStutters DEF Tick
<1>3. CASE UNCHANGED vars
  BY <1>3, UnchangedStutters DEF vars
<1> QED BY <1>1, <1>2, <1>3, SetUpImplements, WaitImplements, PairImplements,
           EndImplements, PhoneImplements DEF Next

\* The record appears only with both approvals of one claim, once per ceremony,
\* and whole, whatever is killed or fails.
THEOREM TrustIsMutual == Spec => ImplementsMutualTrust
<1>1. Init => Trust!Init
  BY DEF Init, Trust!Init
<1> QED BY <1>1, NextImplements, PairingInvariant, PTL
           DEF Spec, ImplementsMutualTrust, Trust!Spec

\* A phone whose clock is off by no more than MAX_CLOCK_SKEW_SECS accepts an
\* invitation as long as its ceremony takes claims (validate).
THEOREM HonestClocksAgree ==
  ASSUME NEW c \in Ceremonies, NEW endpoint \in Places, NEW drawn \in Int,
         NEW t \in Int, NEW offset \in -Skew .. Skew,
         drawn <= t, t < drawn + Lifetime
  PROVE  Parses(Invitation(c, endpoint, drawn), t + offset)
BY DurationsOK DEF Parses, Invitation
===============================================================================
