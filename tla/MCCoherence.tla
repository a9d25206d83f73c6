----------------------------- MODULE MCCoherence -----------------------------
(***************************************************************************)
(* The instances whose programs keep to what the proofs of coherence ask   *)
(* of them: TLC evaluates the hypotheses of the theorems of                *)
(* CoherenceProofs, WordProofs and SerialProofs for each of them.          *)
(***************************************************************************)
EXTENDS MCMemorySystem, CoherenceInvariant

ASSUME ProgramsDisciplined ==
    SharedBlocksStay /\ StoresEndSharedBlocks /\ StrayWords = {}
=============================================================================
