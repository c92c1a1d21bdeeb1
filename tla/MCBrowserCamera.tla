---------------------------- MODULE MCBrowserCamera ----------------------------
(* Small instances of BrowserCamera. *)
EXTENDS BrowserCamera, TLC

CONSTANTS rear, front

\* One setting of each of two cameras.
TwoLenses == (rear :> 1) @@ (front :> 2)
===============================================================================
