------------------------------ MODULE MCFiles ------------------------------
\* Two descriptors beyond the streams, or three: enough for a lock to have a
\* descriptor below it and one above.  A device, a file of the host and a name
\* that nothing owns are opened, with flags of the HAL that open() must ignore; the
\* modes that forbid a call are those of the streams.
EXTENDS Files
MCNames == {Path["null"], Path["console"], Path["hostfs"] \o <<"f">>, <<"mnt", "hostile">>}
MCOpenFlags == {[mode |-> "rw", nonblock |-> TRUE, excl |-> TRUE, isdev |-> FALSE]}
HandleSymmetry == Permutations(Handles)
=============================================================================
