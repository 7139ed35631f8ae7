---------------------------- MODULE MCRsaWrapper ----------------------------
\* Blocks of two words (BITSIZE = 64, as in the system) over two values of a
\* word, which are enough to tell every block and every parameter apart.
EXTENDS RsaWrapper
=============================================================================
