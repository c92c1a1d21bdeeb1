----------------------------- MODULE MutualTrust ------------------------------
(***************************************************************************)
(* What pairing promises: the desktop trusts a phone only when, in one and *)
(* the same ceremony, the phone's user and the desktop's user approved it, *)
(* and a ceremony creates trust once.  A ceremony may replace the phone    *)
(* that another one recorded: see NoSilentReplacement in Pairing.          *)
(***************************************************************************)
CONSTANTS Ceremonies, Phones, None

VARIABLES
  trusted,    \* the phone of the trust record
  approved,   \* the phones whose users approved a ceremony under way
  confirmed,  \* the phone that the desktop's user approved in it
  committed   \* the phone for which a ceremony created trust

vars == <<trusted, approved, confirmed, committed>>

Init ==
  /\ trusted = None
  /\ approved = [c \in Ceremonies |-> {}]
  /\ confirmed = [c \in Ceremonies |-> None]
  /\ committed = [c \in Ceremonies |-> None]

PhoneApproves(c, p) ==
  /\ approved' = [approved EXCEPT ![c] = @ \cup {p}]
  /\ UNCHANGED <<trusted, confirmed, committed>>

DesktopApproves(c, p) ==
  /\ p \in approved[c]
  /\ confirmed[c] = None
  /\ confirmed' = [confirmed EXCEPT ![c] = p]
  /\ UNCHANGED <<trusted, approved, committed>>

Commit(c, p) ==
  /\ p \in approved[c] /\ confirmed[c] = p
  /\ committed[c] = None
  /\ trusted' = p
  /\ committed' = [committed EXCEPT ![c] = p]
  /\ UNCHANGED <<approved, confirmed>>

\* A ceremony that is over takes its approvals with it.
End(c) ==
  /\ approved' = [approved EXCEPT ![c] = {}]
  /\ confirmed' = [confirmed EXCEPT ![c] = None]
  /\ UNCHANGED <<trusted, committed>>

Forget ==
  /\ trusted' = None
  /\ UNCHANGED <<approved, confirmed, committed>>

Next ==
  \/ \E c \in Ceremonies, p \in Phones :
       PhoneApproves(c, p) \/ DesktopApproves(c, p) \/ Commit(c, p)
  \/ \E c \in Ceremonies : End(c)
  \/ Forget

Spec == Init /\ [][Next]_vars
===============================================================================
