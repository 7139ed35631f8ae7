------------------------------ MODULE MCModMult ------------------------------
\* Three-bit operands: every admissible pair, every modulus from 1 to 7.
EXTENDS ModMultEnv

MCRadix == 8
=============================================================================
