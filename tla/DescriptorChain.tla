-------------------------- MODULE DescriptorChain --------------------------
(***************************************************************************)
(* The descriptors of the SGDMA controllers: how the driver builds one     *)
(* (altera_avalon_sgdma.c), how the program builds a chain of them for its *)
(* buffers (create_descriptors.c), and what the controller reads there     *)
(* (external).  A chain lies in an array of descriptors on the heap, a     *)
(* function from its indices.  Paddings and bursts are left out.           *)
(***************************************************************************)
EXTENDS Integers, Sequences, SequencesExt

CONSTANTS
  DescriptorSize,   \* ALTERA_AVALON_SGDMA_DESCRIPTOR_SIZE, 32 in the code
  WordSize,         \* sizeof(alt_u32)
  U16               \* 2^16: lengths in bytes are of type alt_u16

Null == 0   \* the address that is not used

-----------------------------------------------------------------------------
\* Construction of a descriptor.

\* The next descriptor is taken from the hardware first, so that the controller
\* stops there, and this one is given to it last, when all of it is written.
Disown(mem, next) == [mem EXCEPT ![next].owned = FALSE]

Fill(mem, desc, next, read, write, length) ==
  [mem EXCEPT ![desc] = [@ EXCEPT !.read = read, !.write = write, !.next = next,
                                  !.bytes = length % U16]]

\* The last write also sets the other bits of the control byte.
Own(mem, desc, options) == [mem EXCEPT ![desc] = [@ EXCEPT !.options = options, !.owned = TRUE]]

\* What is in memory after each of the three.
Construct(mem, desc, next, read, write, length, options) ==
  LET disowned == Disown(mem, next)
      filled == Fill(disowned, desc, next, read, write, length)
  IN  <<disowned, filled, Own(filled, desc, options)>>

MemToStream(mem, desc, next, read, length) == Construct(mem, desc, next, read, Null, length, {})
StreamToMem(mem, desc, next, write, length) == Construct(mem, desc, next, Null, write, length, {})

-----------------------------------------------------------------------------
\* The program.

\* malloc() gives room for two descriptors more than there are buffers; the
\* pointer slides to the next boundary.
Allocation(n) == (n + 2) * DescriptorSize
Slide(p) == p + ((-p) % DescriptorSize)

\* One descriptor for each buffer of the sequence, all of them of so many words,
\* and behind them one that the hardware never owns: the memory after each write
\* of create_descriptors() to the chain that reads them, or the one that writes them.
Writes(heap, buffers, words, side) ==
  LET Build(mem, k) ==
        IF side = "read" THEN MemToStream(mem, k, k + 1, buffers[k], words * WordSize)
        ELSE StreamToMem(mem, k, k + 1, buffers[k], words * WordSize)
  IN  FoldLeft(LAMBDA mems, k : mems \o Build(Last(mems), k),
               <<Disown(heap, Len(buffers) + 1)>>, [k \in DOMAIN buffers |-> k])

-----------------------------------------------------------------------------
\* What the controller does with a chain: buffers and bytes, descriptor after
\* descriptor until one is not its own (external).
Walk(mem, side) ==
  LET from[desc \in DOMAIN mem] ==
        IF mem[desc].owned
        THEN <<[buffer |-> mem[desc][side], bytes |-> mem[desc].bytes]>> \o from[mem[desc].next]
        ELSE <<>>
  IN  from[1]
=============================================================================
