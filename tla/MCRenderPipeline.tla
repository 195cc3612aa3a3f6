-------------------------- MODULE MCRenderPipeline --------------------------
(***************************************************************************)
(* Model checking RenderPipeline: one pool that pays for every quote, one  *)
(* credit per quote, and two attempts per render as startRender asks for.  *)
(***************************************************************************)
EXTENDS RenderPipeline, TLC

CONSTANTS topUp

MCMaxAttempts == [t \in Tasks |-> 2]
MCAmount == (topUp :> 2)
MCRank == (topUp :> 3)
MCExpiry == (topUp :> 1)
MCCost == [q \in Quotes |-> 1]

\* Nothing tells one request or one quote from another.
MCSymmetry == Permutations(Tasks) \cup Permutations(Quotes)
=============================================================================
