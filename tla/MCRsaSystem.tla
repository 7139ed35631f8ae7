---------------------------- MODULE MCRsaSystem ----------------------------
\* Three calls; two buffers of three words, so that a block lies across two
\* descriptors and a call has more blocks than the accelerator can hold.
EXTENDS RsaSystem
=============================================================================
