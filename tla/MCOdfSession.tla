---------------------------- MODULE MCOdfSession ----------------------------
(***************************************************************************)
(* Small instances of OdfSession for TLC.                                  *)
(***************************************************************************)
EXTENDS OdfSession

CONSTANTS c1, c2

\* One block for the first content, two for the second.
Sizes12 == (c1 :> 1) @@ (c2 :> 2)
Sizes1 == c1 :> 1
Sizes11 == (c1 :> 1) @@ (c2 :> 1)

AllCalls == {"create", "write", "meta", "delete", "restore", "remove"}
ByteCalls == {"create", "write", "delete", "restore", "remove"}
RewriteCalls == {"create", "write", "remove"}
=============================================================================
