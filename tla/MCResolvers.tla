----------------------------- MODULE MCResolvers -----------------------------
(***************************************************************************)
(* An instance of Resolvers: two threads, a pool of one connection, and a  *)
(* token with a child.                                                     *)
(***************************************************************************)
EXTENDS Resolvers, TLC

CONSTANTS root, child

ParentOf == (root :> NoToken) @@ (child :> root)
=============================================================================
