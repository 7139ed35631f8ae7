---------------------------- MODULE CryptoTests ----------------------------
(***************************************************************************)
(* The two test programs of test.c that encrypt a file and decrypt it      *)
(* again: CryptoTest2() by the software, CryptoTest4(), which main() runs, *)
(* by the accelerator.  A file is a sequence of bytes.  Keys, reports and  *)
(* times are left out: RsaCrypto has the keys.                             *)
(***************************************************************************)
EXTENDS Integers, Sequences, SequencesExt

CONSTANTS
  Byte,        \* number of values of a byte
  NumOfBytes,  \* NUM_OF_BYTES: bytes read, and written, for a block of CryptoTest2
  WordBytes,   \* bytes of a word of the accelerator's stream
  BlockWords,  \* words of a block, BITSIZE / 32
  SoftRadix    \* of the software's arithmetic

LOCAL Crypto == INSTANCE RsaCrypto

\* Memory is little-endian.
Value(digits, base) == SumFunction([i \in DOMAIN digits |-> digits[i] * base^(i - 1)])
Digits(x, base, n) == [i \in 1 .. n |-> (x \div base^(i - 1)) % base]

\* fread(): the bytes of item i of a file, where the memory that is read into keeps
\* its own where the file has no more (external).
Fread(file, size, i, memory) ==
  [j \in 1 .. Len(memory) |->
     IF j <= size /\ (i - 1) * size + j <= Len(file) THEN file[(i - 1) * size + j] ELSE memory[j]]

-----------------------------------------------------------------------------
\* CryptoTest2().

\* The end of the file is noticed by the read that finds less than it asks for:
\* there is one block more than the file has whole ones, maybe with nothing new.
BlocksRead(file) == (Len(file) \div NumOfBytes) + 1

\* M is one variable: what a read leaves of it is the block before.
Message(file, i) ==
  LET Zeros == [j \in 1 .. NumOfBytes |-> 0]
  IN  Fread(file, NumOfBytes, i, IF i = 1 THEN Zeros ELSE Fread(file, NumOfBytes, i - 1, Zeros))

\* What the three streams have in the end; C has more bytes than are written.
SoftwareTest(file, e, d, n) ==
  LET C(i) == Crypto!ModularExp(Value(Message(file, i), Byte), e, n)
      D(i) == Crypto!ModularExp(C(i), d, n)
      Written(X(_)) == FlattenSeq([i \in 1 .. BlocksRead(file) |-> Digits(X(i), Byte, NumOfBytes)])
  IN  [encrypt |-> Written(C), decrypt |-> Written(D)]

-----------------------------------------------------------------------------
\* CryptoTest4().

\* data_buffers[0]: all but the highest byte of each word is read, and that one,
\* like the words after the end of the file, has what the heap had there.
DataBuffer(file, heap) ==
  [i \in DOMAIN heap |->
     Value(Fread(file, WordBytes - 1, i, Digits(heap[i], Byte, WordBytes)), Byte)]

\* The words of a buffer in blocks, as the accelerator takes them.
Blocks(buffer) ==
  [k \in 1 .. (Len(buffer) \div BlockWords) |->
     Value(SubSeq(buffer, (k - 1) * BlockWords + 1, k * BlockWords), Byte^WordBytes)]

\* rsa_crypto_hw() with a chain of one descriptor on each side (the accelerator
\* and the software give the same for blocks below the modulus).
CryptoHw(buffer, exp, n) ==
  FlattenSeq([k \in DOMAIN Blocks(buffer) |->
    Digits(Crypto!ModularExp(Blocks(buffer)[k], exp, n), Byte^WordBytes, BlockWords)])

\* All but the highest byte of each word is written.
Fwrite(buffer) == FlattenSeq([i \in DOMAIN buffer |-> Digits(buffer[i], Byte, WordBytes - 1)])

\* The result buffer of the first call is the data buffer of the second.
HardwareTest(file, heap, e, d, n) ==
  LET result == CryptoHw(DataBuffer(file, heap), e, n)
  IN  [encrypt |-> Fwrite(result), decrypt |-> Fwrite(CryptoHw(result, d, n))]
=============================================================================
