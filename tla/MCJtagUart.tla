----------------------------- MODULE MCJtagUart -----------------------------
\* Rings of two characters and FIFOs of one, so that a call of two meets a full
\* ring, a wrapped one and both together; a timeout of two seconds, and one that
\* is switched off.
EXTENDS JtagUart
=============================================================================
