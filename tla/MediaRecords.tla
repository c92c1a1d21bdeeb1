------------------------------ MODULE MediaRecords ------------------------------
(***************************************************************************)
(* The media records that pass from the phone to the daemon and from the   *)
(* daemon to its output process, and MediaStreamValidator (media.rs),      *)
(* which both ends run on them.                                            *)
(*                                                                         *)
(* A binding (peer, control connection, media session, generation) is the  *)
(* number of the capture it was made for: every capture has a fresh one.   *)
(* A payload is not modelled, only which capture and picture it shows.     *)
(***************************************************************************)
EXTENDS Naturals

CONSTANTS
  MaxCaptures,  \* bound: captures in a behaviour
  MaxSequence,  \* u64::MAX: the last sequence number there is
  MaxTime,      \* bound: presentation times are 0..MaxTime
  None

ASSUME RecordConstantsOK ==
  /\ MaxCaptures \in Nat \ {0}
  /\ MaxSequence \in Nat \ {0}
  /\ MaxTime \in Nat
  /\ None \notin Nat

Binding  == 1..MaxCaptures
Sequence == 0..MaxSequence
Time     == 0..MaxTime

Record == [kind: {"unit", "stop"}, binding: Binding, sequence: Sequence,
           time: Time]

\* next is last_sequence + 1 (0 when there is none); MaxSequence + 1 means
\* that no sequence number is left.
Validator == [binding: Binding, next: 0..MaxSequence + 1, time: Time,
              invalidated: BOOLEAN]

NewValidator(b) ==
  [binding |-> b, next |-> 0, time |-> 0, invalidated |-> FALSE]

\* validate_header: the header belongs to the binding and is the next one.
Accepts(v, r) ==
  /\ ~v.invalidated
  /\ r.binding = v.binding
  /\ r.sequence = v.next
  /\ IF r.kind = "unit" THEN r.time >= v.time ELSE r.time = 0

\* finish_record.
Commit(v, r) ==
  [v EXCEPT !.next = r.sequence + 1,
            !.time = IF r.kind = "unit" THEN r.time ELSE @,
            !.invalidated = r.kind = "stop"]
===============================================================================
