--------------------------- MODULE MCWorkflowLaunch ---------------------------
(***************************************************************************)
(* An attempt whose verification is leased once or twice and followed by a   *)
(* native release build, or after the second lease by an image build.        *)
(***************************************************************************)
EXTENDS WorkflowLaunch, TLC

CONSTANTS verify, again, native, image

Adapters == (verify :> "ci") @@ (again :> "ci") @@ (native :> "native") @@ (image :> "oci")
Nodes == (verify :> 1) @@ (again :> 1) @@ (native :> 2) @@ (image :> 3)
Order == (verify :> NoJob) @@ (again :> verify) @@ (native :> verify) @@ (image :> again)
=============================================================================
