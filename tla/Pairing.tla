------------------------------- MODULE Pairing --------------------------------
(***************************************************************************)
(* Pairing ceremonies: runs of "pair serve"                                *)
(* (crates/omacam-daemon/src/main.rs), each a process of its own, with the *)
(* files they share and the phones that scan their codes.                  *)
(*                                                                         *)
(* A ceremony is one task that awaits: between two steps here lies an      *)
(* await, a system call on a shared file, or the user.  Ctrl-C is noticed  *)
(* at an await, a kill anywhere.  A write to a phone that has gone may     *)
(* succeed or fail; what was written may never be read.                    *)
(*                                                                         *)
(* Time counts in units the two durations are stated in.  Setting up takes *)
(* no time, the user and the network take any.                             *)
(***************************************************************************)
EXTENDS PairingSession, FiniteSets, Sequences

CONSTANTS
  Ceremonies,    \* runs of the command
  Phones,
  Strangers,     \* other addresses that connect to an open port
  Places,        \* a port to listen on with a path for the QR
  Options,       \* the places that each ceremony may be started with
  AutoApprove,   \* the ceremonies started with --auto-approve
  Offset,        \* how far each phone's clock is ahead
  MaxPerSource,  \* MAX_PAIRING_FAILURES_PER_SOURCE
  MaxGlobal,     \* MAX_PAIRING_FAILURES_GLOBAL
  MaxTime        \* bound: the last instant

ASSUME PairingOK ==
  /\ None \notin Ceremonies \cup Phones \cup Strangers \cup Places
  /\ Phones \cap Strangers = {}
  /\ Options \in [Ceremonies -> SUBSET Places]
  /\ AutoApprove \subseteq Ceremonies
  /\ Offset \in [Phones -> Int]
  /\ MaxPerSource \in Nat \ {0} /\ MaxGlobal \in Nat \ {0} /\ MaxTime \in Nat

Sources == Phones \cup Strangers

VARIABLES
  now,
  \* files
  identity,        \* the desktop's certificate and key
  record,          \* the trust record
  temporary,       \* the record before it is renamed
  qr,              \* the ceremony whose QR lies at each place
  \* ceremonies
  step, outcome, at,
  invitation,      \* what its QR says, to whoever has seen it
  session, started,
  peer,            \* whom the open connection is to
  heard,           \* the claim that lies in that connection
  sourceFailures, globalFailures,
  \* phones
  phase, scanned,
  link,            \* the ceremony that holds the phone's connection
  inbox,           \* replies the phone has not read
  trusts,          \* the phone has stored the desktop's certificate
  \* history
  approved,        \* phones whose users approved a ceremony that is not over
  confirmed,       \* the phone whose code the desktop's user typed in it
  committed        \* the phone that a ceremony recorded

files == <<identity, record, temporary, qr>>
memory == <<session, started, peer, heard, sourceFailures, globalFailures>>
process == <<step, outcome, at, invitation>>
phones == <<phase, scanned, link, inbox, trusts>>
history == <<approved, confirmed, committed>>
failures == <<sourceFailures, globalFailures>>
vars == <<now, files, process, memory, phones, history>>

SettingUp == {"starting", "storing", "inviting", "binding"}
Open == {"waiting", "serving", "prompting", "persisting", "writing",
         "renaming", "replying"}
\* Where the select! of run_pair_server can notice Ctrl-C.
Awaiting == Open \ {"persisting", "writing", "renaming"}
Step == SettingUp \cup Open \cup {"off", "closing", "ended"}

\* How a ceremony ended: before its select!, by itself or cancelled, at the
\* limit of failures, by a record it could not write, or killed.
Outcome == {"unstarted", "returned", "limited", "unwritten", "killed"}

File(c, p, whole) == [by |-> c, phone |-> p, whole |-> whole]

Init ==
  /\ now = 0
  /\ identity = "none"
  /\ record = None /\ temporary = None
  /\ qr = [l \in Places |-> None]
  /\ step = [c \in Ceremonies |-> "off"]
  /\ outcome = [c \in Ceremonies |-> None]
  /\ at = [c \in Ceremonies |-> None]
  /\ invitation = [c \in Ceremonies |-> None]
  /\ session = [c \in Ceremonies |-> None]
  /\ started = [c \in Ceremonies |-> 0]
  /\ peer = [c \in Ceremonies |-> None]
  /\ heard = [c \in Ceremonies |-> None]
  /\ sourceFailures = [c \in Ceremonies |-> [s \in Sources |-> 0]]
  /\ globalFailures = [c \in Ceremonies |-> 0]
  /\ phase = [p \in Phones |-> "ready"]
  /\ scanned = [p \in Phones |-> None]
  /\ link = [p \in Phones |-> None]
  /\ inbox = [p \in Phones |-> <<>>]
  /\ trusts = [p \in Phones |-> FALSE]
  /\ approved = [c \in Ceremonies |-> {}]
  /\ confirmed = [c \in Ceremonies |-> None]
  /\ committed = [c \in Ceremonies |-> None]
-------------------------------------------------------------------------------
(* The start of a ceremony. *)

Elapsed(c) == now - started[c]

Goto(c, s) == step' = [step EXCEPT ![c] = s]

\* The ceremony returns: its QR is still to be removed, its connection drops.
Leave(c, why) ==
  /\ Goto(c, "closing")
  /\ outcome' = [outcome EXCEPT ![c] = why]

\* The process exits: what it had in memory is gone, and approvals are void.
Exit(c, why) ==
  /\ Goto(c, "ended")
  /\ outcome' = [outcome EXCEPT ![c] = why]
  /\ session' = [session EXCEPT ![c] = None]
  /\ started' = [started EXCEPT ![c] = 0]
  /\ peer' = [peer EXCEPT ![c] = None]
  /\ heard' = [heard EXCEPT ![c] = None]
  /\ sourceFailures' = [sourceFailures EXCEPT ![c] = [s \in Sources |-> 0]]
  /\ globalFailures' = [globalFailures EXCEPT ![c] = 0]
  /\ approved' = [approved EXCEPT ![c] = {}]
  /\ confirmed' = [confirmed EXCEPT ![c] = None]
  /\ UNCHANGED committed

\* main: the arguments are parsed and the paths tested, once.
Start(c) ==
  /\ step[c] = "off"
  /\ now + Lifetime <= MaxTime
  /\ \E place \in Options[c] : at' = [at EXCEPT ![c] = place]
  /\ \/ record = None /\ Goto(c, "starting") /\ UNCHANGED <<outcome, memory, history>>
     \/ record # None /\ Exit(c, "unstarted")
  /\ UNCHANGED <<now, files, invitation, phones>>

\* An identity that was left half-written is refused for good.
LoadIdentity(c) ==
  /\ step[c] = "starting"
  /\ \/ /\ identity = "whole"
        /\ Goto(c, "inviting")
        /\ UNCHANGED <<identity, outcome, memory, history>>
     \/ /\ identity = "partial"
        /\ Exit(c, "unstarted")
        /\ UNCHANGED identity
     \/ /\ identity = "none"
        /\ identity' = "partial"
        /\ Goto(c, "storing")
        /\ UNCHANGED <<outcome, memory, history>>
  /\ UNCHANGED <<now, record, temporary, qr, at, invitation, phones>>

StoreIdentity(c) ==
  /\ step[c] = "storing"
  /\ \/ /\ identity' = "whole"
        /\ Goto(c, "inviting")
        /\ UNCHANGED <<outcome, memory, history>>
     \/ Exit(c, "unstarted") /\ UNCHANGED identity
  /\ UNCHANGED <<now, record, temporary, qr, at, invitation, phones>>

\* The invitation is drawn; its QR needs a path where none lies.
Invite(c) ==
  /\ step[c] = "inviting"
  /\ \/ /\ qr[at[c]] = None
        /\ qr' = [qr EXCEPT ![at[c]] = c]
        /\ invitation' = [invitation EXCEPT ![c] = Invitation(c, at[c], now)]
        /\ Goto(c, "binding")
        /\ UNCHANGED <<outcome, memory, history>>
     \/ /\ qr[at[c]] # None
        /\ Exit(c, "unstarted")
        /\ UNCHANGED <<qr, invitation>>
  /\ UNCHANGED <<now, identity, record, temporary, at, phones>>

Listening(c) == step[c] \in Open

\* A port that cannot be bound ends the process past the QR's removal.
Bind(c) ==
  /\ step[c] = "binding"
  /\ \/ /\ \A d \in Ceremonies : Listening(d) => at[d] # at[c]
        /\ started' = [started EXCEPT ![c] = now]
        /\ session' = [session EXCEPT ![c] = NewSession(invitation[c])]
        /\ Goto(c, "waiting")
        /\ UNCHANGED <<outcome, peer, heard, failures, history>>
     \/ Exit(c, "unstarted")
  /\ UNCHANGED <<now, files, at, invitation, phones>>
-------------------------------------------------------------------------------
(* Waiting for a claim: one connection at a time. *)

\* Back to the top of the loop of wait_for_valid_claim.
NextTurn(c) ==
  \/ Elapsed(c) >= Lifetime /\ Leave(c, "returned")
  \/ Elapsed(c) < Lifetime /\ Goto(c, "waiting") /\ UNCHANGED outcome

RecordFailure(c, s) ==
  /\ sourceFailures' = [sourceFailures EXCEPT ![c][s] = @ + 1]
  /\ globalFailures' = [globalFailures EXCEPT ![c] = @ + 1]
  /\ \/ globalFailures[c] + 1 >= MaxGlobal /\ Leave(c, "limited")
     \/ globalFailures[c] + 1 < MaxGlobal /\ NextTurn(c)

Hear(c, s, claim) ==
  /\ peer' = [peer EXCEPT ![c] = s]
  /\ heard' = [heard EXCEPT ![c] = claim]

Expire(c) ==
  /\ step[c] = "waiting"
  /\ Elapsed(c) >= Lifetime
  /\ Leave(c, "returned")
  /\ UNCHANGED <<now, files, at, invitation, memory, phones, history>>

\* Mutation: one failure more than the limit.
ToleratedOnceMore(c, s) == sourceFailures[c][s] <= MaxPerSource

\* Mutation: no limit per source.
AllTolerated(c, s) == TRUE

\* The connection of a source at its limit is dropped unread.
Tolerated(c, s) == sourceFailures[c][s] < MaxPerSource

\* The phone sends its claim as soon as it is connected.
AcceptPhone(c, p) ==
  /\ step[c] = "waiting" /\ Tolerated(c, p)
  /\ phase[p] = "connecting" /\ scanned[p].endpoint = at[c]
  /\ link' = [link EXCEPT ![p] = c]
  /\ phase' = [phase EXCEPT ![p] = "claimed"]
  /\ Hear(c, p, Claim(scanned[p], p))
  /\ Goto(c, "serving")
  /\ UNCHANGED <<now, files, outcome, at, invitation, session, started,
                 failures, scanned, inbox, trusts, history>>

\* The claim does not get through: the handshake or the reading fails, the
\* line is too long, or it takes too long.
ServeFails(c) ==
  /\ step[c] = "serving"
  /\ RecordFailure(c, peer[c])
  /\ Hear(c, None, None)
  /\ UNCHANGED <<now, files, at, invitation, session, started, phones, history>>

\* A reply reaches the phone unless its side of the connection is gone.
Delivered(c, reply) ==
  LET p == peer[c]
  IN  IF link[p] = c
      THEN inbox' = [inbox EXCEPT ![p] = Append(@, reply)]
      ELSE UNCHANGED inbox

Reply(type, code) == [type |-> type, code |-> code]

\* A connection, from whatever address, that carries no claim.  What is not
\* one is refused, and a refusal that cannot be written ends the ceremony.
ServeOther(c, s) ==
  /\ step[c] = "waiting" /\ Tolerated(c, s)
  /\ RecordFailure(c, s) \/ (Leave(c, "returned") /\ UNCHANGED failures)
  /\ UNCHANGED <<now, files, at, invitation, session, started, peer, heard,
                 phones, history>>

\* A rejected claim: the same, with the refusal written before it is counted.
Refuse(c) ==
  /\ \/ /\ Delivered(c, Reply("rejected", None))
        /\ RecordFailure(c, peer[c])
     \/ /\ Leave(c, "returned")
        /\ UNCHANGED <<inbox, failures>>
  /\ Hear(c, None, None)

Code(s) == Transcript(s.invitation, s.claim)

\* A verified claim stands for the phone's approval; the phone is told what
\* the desktop shows.
ReadClaim(c) ==
  /\ step[c] = "serving"
  /\ LET claimed == Claimed(session[c], heard[c], Elapsed(c))
     IN  \/ /\ claimed.state = "awaiting_approvals"
            /\ session' = [session EXCEPT ![c] = Approved(claimed, "phone")]
            /\ \/ /\ Delivered(c, Reply("confirm", Code(claimed)))
                  /\ Goto(c, "prompting")
                  /\ UNCHANGED outcome
               \/ Leave(c, "returned") /\ UNCHANGED inbox
            /\ UNCHANGED <<peer, heard, failures>>
         \/ /\ claimed.state # "awaiting_approvals"
            /\ session' = [session EXCEPT ![c] = claimed]
            /\ Refuse(c)
  /\ UNCHANGED <<now, files, at, invitation, started, phase, scanned, link,
                 trusts, history>>
-------------------------------------------------------------------------------
(* The ceremony with the phone whose claim was verified. *)

ApproveDesktop(c, p) ==
  /\ session' = [session EXCEPT ![c] = Approved(@, "desktop")]
  /\ confirmed' = [confirmed EXCEPT ![c] = p]
  /\ Goto(c, "persisting")
  /\ UNCHANGED <<outcome, inbox>>

RejectDesktop(c) ==
  /\ session' = [session EXCEPT ![c] = Rejected(@)]
  /\ Delivered(c, Reply("rejected", None)) \/ UNCHANGED inbox
  /\ Leave(c, "returned")
  /\ UNCHANGED confirmed

\* Mutation: any code is taken for the right one.
EnterAnyCode(c) ==
  /\ step[c] = "prompting" /\ c \notin AutoApprove
  /\ \E d \in Ceremonies : \E p \in approved[d] : ApproveDesktop(c, p)
  /\ UNCHANGED <<now, files, at, invitation, started, peer, heard, failures,
                 phase, scanned, link, trusts, approved, committed>>

\* The prompt has no time limit.  The user types the code that some phone
\* showed when it was approved, or nothing.
EnterCode(c) ==
  /\ step[c] = "prompting" /\ c \notin AutoApprove
  /\ \/ \E d \in Ceremonies : \E p \in approved[d] :
          LET entered == Transcript(invitation[d], p)
          IN  \/ entered = Code(session[c]) /\ ApproveDesktop(c, p)
              \/ entered # Code(session[c]) /\ RejectDesktop(c)
     \/ RejectDesktop(c)
  /\ UNCHANGED <<now, files, at, invitation, started, peer, heard, failures,
                 phase, scanned, link, trusts, approved, committed>>

ApproveUnasked(c) ==
  /\ step[c] = "prompting" /\ c \in AutoApprove
  /\ ApproveDesktop(c, session[c].claim)
  /\ UNCHANGED <<now, files, at, invitation, started, peer, heard, failures,
                 phase, scanned, link, trusts, approved, committed>>

\* persist_trust_record: create the temporary file, which must not exist, ...
CreateTemporary(c) ==
  /\ step[c] = "persisting"
  /\ \/ /\ temporary = None
        /\ temporary' = File(c, session[c].claim, FALSE)
        /\ Goto(c, "writing")
        /\ UNCHANGED outcome
     \/ temporary # None /\ Leave(c, "unwritten") /\ UNCHANGED temporary
  /\ UNCHANGED <<now, identity, record, qr, at, invitation, memory, phones,
                 history>>

\* Mutation: the phone is answered before the record takes its place.
ReplyBeforeRename(c) ==
  /\ step[c] = "writing"
  /\ temporary' = File(c, session[c].claim, TRUE)
  /\ Delivered(c, Reply("paired", None))
  /\ Goto(c, "renaming")
  /\ UNCHANGED <<now, identity, record, qr, outcome, at, invitation, memory,
                 phase, scanned, link, trusts, history>>

\* ... write and sync it, ...
WriteTemporary(c) ==
  /\ step[c] = "writing"
  /\ \/ /\ temporary' = File(c, session[c].claim, TRUE)
        /\ Goto(c, "renaming")
        /\ UNCHANGED outcome
     \/ Leave(c, "unwritten") /\ UNCHANGED temporary
  /\ UNCHANGED <<now, identity, record, qr, at, invitation, memory, phones,
                 history>>

\* ... and let it take the place of the record, if there is one by now.
Rename(c) ==
  /\ step[c] = "renaming"
  /\ \/ /\ record' = temporary
        /\ temporary' = None
        /\ committed' = [committed EXCEPT ![c] = record'.phone]
        /\ Goto(c, "replying")
        /\ UNCHANGED outcome
     \/ Leave(c, "unwritten") /\ UNCHANGED <<record, temporary, committed>>
  /\ UNCHANGED <<now, identity, qr, at, invitation, memory, phones, approved,
                 confirmed>>

SendPaired(c) ==
  /\ step[c] = "replying"
  /\ \/ Delivered(c, Reply("paired", None)) /\ Leave(c, "returned")
     \/ Leave(c, "returned") /\ UNCHANGED inbox
  /\ UNCHANGED <<now, files, at, invitation, memory, phase, scanned, link,
                 trusts, history>>
-------------------------------------------------------------------------------
(* Its end. *)

\* Mutation: Ctrl-C exits at once.
CancelAtOnce(c) ==
  /\ step[c] \in Awaiting
  /\ Exit(c, "returned")
  /\ UNCHANGED <<now, files, at, invitation, phones>>

Cancel(c) ==
  /\ step[c] \in Awaiting
  /\ Leave(c, "returned")
  /\ UNCHANGED <<now, files, at, invitation, memory, phones, history>>

RemoveQr(c) ==
  /\ step[c] = "closing"
  /\ qr' = [qr EXCEPT ![at[c]] = None]
  /\ Exit(c, outcome[c])
  /\ UNCHANGED <<now, identity, record, temporary, at, invitation, phones>>

Kill(c) ==
  /\ step[c] \notin {"off", "ended"}
  /\ Exit(c, "killed")
  /\ UNCHANGED <<now, files, at, invitation, phones>>

\* pair forget, or the service on behalf of a caller or of the phone.
ForgetTrust ==
  /\ record # None
  /\ record' = None
  /\ UNCHANGED <<now, identity, temporary, qr, process, memory, phones,
                 history>>
-------------------------------------------------------------------------------
(* The phones (MainActivity.kt, PairingProtocol.kt). *)

\* The phone leaves the ceremony; its connection, if any, is closed.
ShowReady(p) ==
  /\ phase' = [phase EXCEPT ![p] = "ready"]
  /\ scanned' = [scanned EXCEPT ![p] = None]
  /\ link' = [link EXCEPT ![p] = None]
  /\ inbox' = [inbox EXCEPT ![p] = <<>>]

\* The user scans a QR, which stays readable as long as somebody has it in a
\* file or on a screen, sees the code, and approves.
ConnectAndPair(p) ==
  /\ phase[p] = "ready" /\ ~trusts[p]
  /\ \E c \in Ceremonies :
       /\ invitation[c] # None
       /\ Parses(invitation[c], now + Offset[p])
       /\ scanned' = [scanned EXCEPT ![p] = invitation[c]]
       /\ approved' = [approved EXCEPT
                         ![c] = IF step[c] = "ended" THEN @ ELSE @ \cup {p}]
  /\ phase' = [phase EXCEPT ![p] = "connecting"]
  /\ UNCHANGED <<now, files, process, memory, link, inbox, trusts, confirmed,
                 committed>>

Awaited(p, reply) ==
  \/ /\ phase[p] = "claimed"
     /\ reply = Reply("confirm", Transcript(scanned[p], p))
  \/ phase[p] = "confirmed" /\ reply = Reply("paired", None)

ReadReply(p) ==
  /\ phase[p] \in {"claimed", "confirmed"} /\ inbox[p] # <<>>
  /\ LET reply == Head(inbox[p])
     IN  \/ /\ Awaited(p, reply) /\ reply.type = "confirm"
            /\ phase' = [phase EXCEPT ![p] = "confirmed"]
            /\ inbox' = [inbox EXCEPT ![p] = Tail(@)]
            /\ UNCHANGED <<scanned, link, trusts>>
         \/ /\ Awaited(p, reply) /\ reply.type = "paired"
            /\ trusts' = [trusts EXCEPT ![p] = TRUE]
            /\ ShowReady(p)
         \/ ~Awaited(p, reply) /\ ShowReady(p) /\ UNCHANGED trusts
  /\ UNCHANGED <<now, files, process, memory, history>>

\* The user cancels, the connection fails or is closed, a reading times out.
Abandon(p) ==
  /\ phase[p] # "ready"
  /\ ShowReady(p)
  /\ UNCHANGED <<now, files, process, memory, trusts, history>>

ForgetDesktop(p) ==
  /\ trusts[p]
  /\ trusts' = [trusts EXCEPT ![p] = FALSE]
  /\ UNCHANGED <<now, files, process, memory, phase, scanned, link, inbox,
                 history>>
-------------------------------------------------------------------------------
Tick ==
  /\ now < MaxTime
  /\ \A c \in Ceremonies : step[c] \notin SettingUp
  /\ now' = now + 1
  /\ UNCHANGED <<files, process, memory, phones, history>>

SetUpStep(c) ==
  Start(c) \/ LoadIdentity(c) \/ StoreIdentity(c) \/ Invite(c) \/ Bind(c)

ServeStep(c) == ServeFails(c) \/ ReadClaim(c)

WaitStep(c) ==
  \/ Expire(c)
  \/ ServeStep(c)
  \/ \E p \in Phones : AcceptPhone(c, p)
  \/ \E s \in Sources : ServeOther(c, s)

PairStep(c) ==
  \/ EnterCode(c) \/ ApproveUnasked(c)
  \/ CreateTemporary(c) \/ WriteTemporary(c) \/ Rename(c) \/ SendPaired(c)

EndStep(c) == Cancel(c) \/ RemoveQr(c) \/ Kill(c)

PhoneStep(p) ==
  \/ ConnectAndPair(p) \/ ReadReply(p)
  \/ Abandon(p) \/ ForgetDesktop(p)

Next ==
  \/ \E c \in Ceremonies : SetUpStep(c) \/ WaitStep(c) \/ PairStep(c) \/ EndStep(c)
  \/ \E p \in Phones : PhoneStep(p)
  \/ ForgetTrust
  \/ Tick

Spec == Init /\ [][Next]_vars
-------------------------------------------------------------------------------
(* Properties. *)

FileType == [by : Ceremonies, phone : Phones, whole : BOOLEAN]
InvitationType == [ceremony : Ceremonies, endpoint : Places, expires : Int]
SessionType ==
  [invitation : InvitationType, state : InvitationState,
   claim : Phones \cup {None}, approvals : SUBSET ApprovalSide]
ClaimType ==
  [ceremony : Ceremonies, phone : Phones, signed : InvitationType \X Phones]
ReplyType ==
  [type : {"confirm", "rejected", "paired"},
   code : (InvitationType \X Phones) \cup {None}]

ASSUME NoneIsNothing ==
  None \notin FileType \cup InvitationType \cup SessionType \cup ClaimType

\* Every variable has its type.  What it takes from the code: an invitation's
\* session is never without the invitation, and the files' contents are whole
\* identities, records of phones, or nothing.
TypeOK ==
  /\ now \in 0 .. MaxTime
  /\ identity \in {"none", "partial", "whole"}
  /\ record \in FileType \cup {None}
  /\ temporary \in FileType \cup {None}
  /\ qr \in [Places -> Ceremonies \cup {None}]
  /\ step \in [Ceremonies -> Step]
  /\ outcome \in [Ceremonies -> Outcome \cup {None}]
  /\ at \in [Ceremonies -> Places \cup {None}]
  /\ invitation \in [Ceremonies -> InvitationType \cup {None}]
  /\ session \in [Ceremonies -> SessionType \cup {None}]
  /\ started \in [Ceremonies -> 0 .. MaxTime]
  /\ peer \in [Ceremonies -> Phones \cup {None}]
  /\ heard \in [Ceremonies -> ClaimType \cup {None}]
  /\ sourceFailures \in [Ceremonies -> [Sources -> 0 .. MaxPerSource]]
  /\ globalFailures \in [Ceremonies -> 0 .. MaxGlobal]
  /\ phase \in [Phones -> {"ready", "connecting", "claimed", "confirmed"}]
  /\ scanned \in [Phones -> InvitationType \cup {None}]
  /\ link \in [Phones -> Ceremonies \cup {None}]
  /\ inbox \in [Phones -> Seq(ReplyType)]
  /\ trusts \in [Phones -> BOOLEAN]
  /\ approved \in [Ceremonies -> SUBSET Phones]
  /\ confirmed \in [Ceremonies -> Phones \cup {None}]
  /\ committed \in [Ceremonies -> Phones \cup {None}]

\* The trust record appears only by what MutualTrust allows: both approvals of
\* one claim, once per ceremony, and whole, whatever is killed or fails.
Trust == INSTANCE MutualTrust WITH
  trusted <- IF record = None THEN None
             ELSE IF record.whole THEN record.phone
             ELSE "partial"
ImplementsMutualTrust == Trust!Spec

\* A phone believes that it is paired only after some ceremony has recorded
\* it: the reply follows the record (run_pairing_ceremony).
PhoneTrustsOnlyCommitted ==
  \A p \in Phones : trusts[p] => \E c \in Ceremonies : committed[c] = p

\* A ceremony that ended by itself, or was cancelled, leaves no QR and, unless
\* a file could not be written, no temporary record: either would keep a later
\* ceremony from pairing.
NothingLeftBehind ==
  \A c \in Ceremonies :
    /\ step[c] = "ended" /\ outcome[c] \notin {"unstarted", "killed"}
       => qr[at[c]] # c
    /\ temporary # None /\ temporary.by = c /\ step[c] = "ended"
       => outcome[c] \in {"killed", "unwritten"}

\* The limit on all failures ends a ceremony only when more sources failed than
\* one: nobody alone uses the invitation up (wait_for_valid_claim).
LimitNeedsManySources ==
  \A c \in Ceremonies : step[c] = "closing" /\ outcome[c] = "limited" =>
    LET failed == {s \in Sources : sourceFailures[c][s] > 0}
    IN  Cardinality(failed) * MaxPerSource >= MaxGlobal

\* "The desktop refuses silent replacement of an existing phone."
NoSilentReplacement ==
  [][record # None /\ record' # None => record'.phone = record.phone]_record

\* "Expiry, cancellation, rejection, or a partial ceremony does not create
\* trust": no invitation is approved on both sides after its life.
ExpiredIsNotPaired ==
  [][\A c \in Ceremonies :
       confirmed[c] = None /\ confirmed'[c] # None => Elapsed(c) < Lifetime]_confirmed

\* No ceremony that is over leaves a temporary record, which would keep every
\* later one from pairing (persist_trust_record, create_new).
NoRemnantBlocksPairing ==
  temporary # None => step[temporary.by] # "ended"
===============================================================================
