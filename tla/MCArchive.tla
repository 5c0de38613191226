------------------------------- MODULE MCArchive -------------------------------
(***************************************************************************)
(* Three messages of one mailbox, the second of which answers mail that    *)
(* was never received here.                                                *)
(***************************************************************************)
EXTENDS Archive, TLC

CONSTANTS a, b, c, u, s, t

MCRefs == (a :> {}) @@ (b :> {u}) @@ (c :> {a})
MCSenderOf == (a :> s) @@ (b :> s) @@ (c :> t)

MCSpec == ConvInit /\ [][RegroupNext]_convVars
=============================================================================
