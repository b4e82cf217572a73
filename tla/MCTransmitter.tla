--------------------------- MODULE MCTransmitter ---------------------------
EXTENDS Transmitter, TLC

\* The sizes and counts of the batches, and a word that is neither.
SmallWords == {1, 2, 4, 6}
Symmetry == Permutations(Threads)
=============================================================================
