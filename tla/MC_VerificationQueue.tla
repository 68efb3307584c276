----------------------- MODULE MC_VerificationQueue ------------------------
(***************************************************************************)
(* Model of the verification queue for TLC.  Three blocks: b1 on genesis  *)
(* and two children b2, b3 of b1, so that a bad parent condemns a child    *)
(* and two children share a parent in processing_parents.                  *)
(***************************************************************************)
EXTENDS VerificationQueue, TLC

CONSTANTS b1, b2, b3, g, r1, r2, r3

MCHashes == {b1, b2, b3}
MCParent == (b1 :> g) @@ (b2 :> b1) @@ (b3 :> b1)
MCRawHash == (b1 :> r1) @@ (b2 :> r2) @@ (b3 :> r3)
MCDifficulty == (b1 :> 2) @@ (b2 :> 1) @@ (b3 :> 1)

\* A smaller instance: b1 and its child b2 only.
MCPair == {b1, b2}
MCPairParent == (b1 :> g) @@ (b2 :> b1)
MCPairRawHash == (b1 :> r1) @@ (b2 :> r2)
MCPairDifficulty == (b1 :> 2) @@ (b2 :> 1)
=============================================================================
