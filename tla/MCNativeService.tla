---------------------------- MODULE MCNativeService ----------------------------
(* Small instances of NativeService: what its D-Bus callers may ask for. *)
EXTENDS NativeService, TLC

CONSTANTS a, b

AllIntents == {"request_start", "camera_control", "stop", "forget_peer",
               "run_diagnostics"}

\* Two identifiers, each used for anything.
AnyUse == [id \in OpId |-> AllIntents]

\* A Start is overlapped by an adjustment, a Stop or a revocation; a full
\* history makes room so that either identifier can be used again.
MixedUse ==
  a :> {"request_start"} @@ b :> {"camera_control", "stop", "forget_peer"}
===============================================================================
