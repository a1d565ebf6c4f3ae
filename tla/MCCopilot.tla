----------------------------- MODULE MCCopilot -----------------------------
(* A small instance of Copilot for TLC.                                    *)
EXTENDS Copilot

SmallChunks == 1 .. 3   \* a tie, a duplicate and a third row of one document
=============================================================================
