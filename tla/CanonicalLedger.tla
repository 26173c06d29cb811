-------------------------- MODULE CanonicalLedger --------------------------
(***************************************************************************)
(* What the chain store promises to the rest of the node, with none of its *)
(* tables: one canonical tip and one finalized checkpoint below it.  The   *)
(* node only ever moves to a chain that wins fork choice against the chain *)
(* it leaves, that keeps the finalized checkpoint, and whose own finalized *)
(* checkpoint is at most FinalityDepth blocks below its tip.               *)
(* A restart is no step at all: it may lose nothing and change nothing.    *)
(***************************************************************************)
EXTENDS BlockTree

CONSTANT FinalityDepth

VARIABLES
    canonical,  \* the tip of the canonical chain
    finalized   \* the finalized checkpoint

ledgerVars == <<canonical, finalized>>

LedgerInit == canonical = Genesis /\ finalized = Genesis

Adopt(t, f) ==
    /\ canonical' = t
    /\ finalized' = f
    /\ ChainWins(t, canonical)
    /\ Extends(t, f)
    /\ Extends(f, finalized)
    /\ Height[t] - Height[f] <= FinalityDepth

LedgerNext == \E t, f \in Block : Adopt(t, f)

LedgerSpec == LedgerInit /\ [][LedgerNext]_ledgerVars
=============================================================================
