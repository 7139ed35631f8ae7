------------------------------ MODULE MCSgdma ------------------------------
\* Chains of one to three descriptors of two words, three transfers: a callback
\* can start a chain from the callback of one that a callback started.
EXTENDS SgdmaEnv, Sequences

-----------------------------------------------------------------------------
\* Where these chains come from: lengths of four bits, words of two bytes, and a
\* heap on which anything may look like a descriptor of the hardware.
LOCAL INSTANCE SequencesExt
LOCAL Chain == INSTANCE DescriptorChain WITH DescriptorSize <- 4, WordSize <- 2, U16 <- 16

LOCAL Garbage == [read : {"x"}, write : {"x"}, next : {1}, bytes : {9}, options : {{}},
                  owned : BOOLEAN]
LOCAL Heaps(n) == [1 .. n + 1 -> Garbage]
LOCAL Buffers(n) == [k \in 1 .. n |-> k]
LOCAL Wanted(n, words) == [k \in 1 .. n |-> [buffer |-> k, bytes |-> 2 * words]]

\* create_descriptors() builds chains that the controllers follow from the first
\* buffer to the last and not further, whatever was on the heap, and they have
\* room in what was allocated.  From 8 words on, 16384 in the code, a buffer's
\* length does not fit its field (create_descriptors.c:114).
ASSUME ChainsComplete ==
  \A n \in 1 .. NDescriptors : \A heap \in Heaps(n) :
    /\ \A words \in 1 .. 7 :
         /\ Chain!Walk(Last(Chain!Writes(heap, Buffers(n), words, "read")), "read") = Wanted(n, words)
         /\ Chain!Walk(Last(Chain!Writes(heap, Buffers(n), words, "write")), "write") = Wanted(n, words)
    /\ Chain!Walk(Last(Chain!Writes(heap, Buffers(n), 8, "read")), "read") # Wanted(n, 8)
    /\ \A p \in 0 .. 8 : LET d == Chain!Slide(p)
                          IN  d % 4 = 0 /\ d + (n + 1) * 4 <= p + Chain!Allocation(n)

\* A controller that already polls the chain sees a prefix of it after each write
\* of its construction: no descriptor before it is complete, none that the chain
\* has not reached (altera_avalon_sgdma.c:669 and 700).
ASSUME ChainGrows ==
  \A n \in 1 .. NDescriptors : \A heap \in {h \in Heaps(n) : ~h[1].owned} :
    LET mems == Chain!Writes(heap, Buffers(n), 3, "read")
    IN  \A k \in DOMAIN mems : IsPrefix(Chain!Walk(mems[k], "read"), Wanted(n, 3))
=============================================================================
