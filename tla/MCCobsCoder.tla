---------------------------- MODULE MCCobsCoder ----------------------------
EXTENDS CobsCoder, SequencesExt

CONSTANTS MaxInput, MaxChunk

\* Values of literals other than zero do not matter to the coder.
MCInputs == BoundedSeq({0, 1, MAX_CODE}, MaxInput)

\* Short strings of all bytes, and longer ones in which runs of the longest length
\* are complete or cut off.
MCChunks == BoundedSeq(Bytes, MaxChunk) \cup BoundedSeq({0, 1, MAX_CODE}, MAX_CODE + 2)

=============================================================================
