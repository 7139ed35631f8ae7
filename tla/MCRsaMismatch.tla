--------------------------- MODULE MCRsaMismatch ---------------------------
\* The committed sizes: nios_system.qsys builds the accelerator for 256 bits, the
\* program in test.c is built for 64.  One block per call.
EXTENDS RsaSystem
=============================================================================
