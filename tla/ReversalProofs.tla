---------------------------- MODULE ReversalProofs ----------------------------
(***************************************************************************)
(* Theorems about the reversal of a file in cw03/zad1, for every length of *)
(* the file and every size of the block.                                   *)
(***************************************************************************)
EXTENDS Reversal, TLAPS

(* The last n bytes of a file of l, backwards.                             *)
IsTail(seq, n, l) ==
  seq \in Seq(Int) /\ Len(seq) = n /\ \A k \in 1 .. n : seq[k] = l - k

(* What is written is the file backwards from its end, n bytes of it.      *)
Written(n) == n \in 0 .. length /\ IsTail(out, n, length)

(* What the byte variant keeps in step.                                    *)
ByteInv ==
  reversing = "loop" =>
    /\ remaining \in 0 .. length /\ Written(length - remaining)
    /\ remaining > 0 => at = remaining - 1

(* What the block variant keeps in step: reading starts at a multiple of   *)
(* the block until the whole file has been read.                           *)
BlockInv ==
  reversing = "loop" =>
    /\ remaining \in 0 .. length /\ Written(length - remaining)
    /\ remaining > 0 =>
         /\ at \in 0 .. length /\ remaining = at + BytesRead
         /\ \E q \in Nat : at = q * block

ReversalInv ==
  /\ length \in Nat /\ block \in Nat
  /\ reversing = "start" => Written(0)
  /\ IF block = 0 THEN ByteInv ELSE BlockInv
  /\ reversing = "failed" => \E n \in 0 .. length : Written(n)
  /\ reversing = "done" => Written(length)
  /\ reversing \in {"start", "loop", "failed", "done"}

(* The last multiple of the block that is not after the end of the file,   *)
(* from which StartBlocks reads first.                                     *)
LEMMA LastMultiple ==
  ASSUME NEW n \in Nat, NEW b \in Nat \ {0}
  PROVE  /\ (n % b) \in 0 .. b - 1 /\ n - (n % b) \in 0 .. n
         /\ \E q \in Nat : n - (n % b) = q * b
<1>1. n = b * (n \div b) + (n % b) /\ n % b \in 0 .. b - 1 /\ n \div b \in Int
  BY SMT
<1>2. n \div b \in Nat
  BY SMT
<1>3. n - (n % b) = (n \div b) * b
  BY <1>1, SMT
<1> QED  BY <1>1, <1>2, <1>3, SMT

(* One piece more: the m bytes before the last n, written backwards after  *)
(* these.                                                                  *)
LEMMA WriteMore ==
  ASSUME NEW l \in Nat, NEW n \in Nat, NEW m \in Nat,
         NEW seq, IsTail(seq, n, l), NEW piece \in Seq(Int), Len(piece) = m,
         \A k \in 1 .. m : piece[k] = l - n - k
  PROVE  IsTail(seq \o piece, n + m, l)
<1>1. seq \in Seq(Int) /\ Len(seq) = n /\ piece \in Seq(Int) /\ Len(piece) = m
  BY DEF IsTail
<1>2. seq \o piece \in Seq(Int) /\ Len(seq \o piece) = n + m
  BY <1>1
<1>3. ASSUME NEW k \in 1 .. n + m PROVE (seq \o piece)[k] = l - k
  <2>1. CASE k <= n
    <3>1. (seq \o piece)[k] = seq[k]
      BY <1>1, <2>1
    <3> QED  BY <2>1, <3>1 DEF IsTail
  <2>2. CASE k > n
    <3>1. k - n \in 1 .. m /\ (seq \o piece)[k] = piece[k - n]
      BY <1>1, <2>2
    <3>2. piece[k - n] = l - n - (k - n)
      BY <3>1
    <3> QED  BY <3>1, <3>2
  <2>3. k <= n \/ k > n
    OBVIOUS
  <2> QED  BY <2>1, <2>2, <2>3
<1> QED  BY <1>2, <1>3 DEF IsTail

(* The first seek puts either variant where its loop expects it            *)
(* (reverse.c:12-22, 48-60).                                               *)
LEMMA StartStep ==
  ASSUME ReversalInv, StartBytes \/ StartBlocks PROVE ReversalInv'
<1>1. length \in Nat /\ block \in Nat /\ reversing = "start" /\ IsTail(out, 0, length)
  BY DEF ReversalInv, StartBytes, StartBlocks, Written
<1>2. length' = length /\ block' = block /\ out' = out
  BY DEF StartBytes, StartBlocks
<1>3. CASE StartBytes
  <2>1. CASE length = 0
    BY <1>1, <1>2, <1>3, <2>1 DEF StartBytes, ReversalInv, ByteInv, Written
  <2>2. CASE length > 0
    <3>1. reversing' = "loop" /\ remaining' = length /\ at' = length - 1 /\ block = 0
      BY <1>1, <1>3, <2>2 DEF StartBytes
    <3> QED  BY <1>1, <1>2, <2>2, <3>1 DEF ReversalInv, ByteInv, Written
  <2> QED  BY <1>1, <2>1, <2>2
<1>4. CASE StartBlocks
  <2>1. /\ block \in Nat \ {0} /\ at' = length - (length % block)
        /\ reversing' = "loop" /\ remaining' = length
    BY <1>1, <1>4 DEF StartBlocks
  <2>2. /\ (length % block) \in 0 .. block - 1 /\ at' \in 0 .. length
        /\ \E q \in Nat : at' = q * block
    BY <1>1, <2>1, LastMultiple
  <2>3. length = at' + BytesRead'
    BY <1>1, <1>2, <2>1, <2>2 DEF BytesRead
  <2> QED  BY <1>1, <1>2, <2>1, <2>2, <2>3 DEF ReversalInv, BlockInv, Written
<1> QED  BY <1>3, <1>4

(* A byte is copied, and the two seeks of one back leave the next one at   *)
(* hand (reverse.c:24-38).                                                 *)
LEMMA ByteStep ==
  ASSUME ReversalInv, CopyByte PROVE ReversalInv'
<1>1. /\ length \in Nat /\ remaining \in 1 .. length /\ length - remaining \in Nat
      /\ at = remaining - 1 /\ IsTail(out, length - remaining, length)
  BY DEF ReversalInv, ByteInv, Written, CopyByte
<1>2. /\ out' = Append(out, at) /\ remaining' = remaining - 1 /\ length' = length
      /\ block = 0 /\ block' = 0 /\ reversing' = "loop"
  BY DEF CopyByte
<1>3. <<at>> \in Seq(Int) /\ Len(<<at>>) = 1 /\ out' = out \o <<at>>
  BY <1>1, <1>2 DEF IsTail
<1>4. \A k \in 1 .. 1 : <<at>>[k] = length - (length - remaining) - k
  BY <1>1
<1>5. IsTail(out', (length - remaining) + 1, length)
  BY <1>1, <1>3, <1>4, WriteMore
<1>6. (length - remaining) + 1 = length' - remaining'
  BY <1>1, <1>2
<1>7. Written(length - remaining)'
  BY <1>1, <1>2, <1>5, <1>6 DEF Written
<1>8. remaining' > 0 => at' = remaining' - 1
  BY <1>1, <1>2 DEF CopyByte, SeekTo
<1> QED  BY <1>1, <1>2, <1>7, <1>8 DEF ReversalInv, ByteInv

(* A block is copied, or the rest of the file the first time, and the seek *)
(* back goes to the block before it, or fails when there is none           *)
(* (reverse.c:62-81).                                                      *)
LEMMA BlockStep ==
  ASSUME ReversalInv, CopyBlock PROVE ReversalInv'
<1>1. /\ length \in Nat /\ block \in Nat \ {0}
      /\ remaining \in 1 .. length /\ length - remaining \in Nat
      /\ at \in 0 .. length /\ remaining = at + BytesRead
      /\ IsTail(out, length - remaining, length)
      /\ \E q \in Nat : at = q * block
  <2>1. length \in Nat /\ block \in Nat /\ block > 0 /\ remaining > 0 /\ BlockInv
    BY DEF ReversalInv, CopyBlock
  <2>2. /\ remaining \in 0 .. length /\ Written(length - remaining)
        /\ at \in 0 .. length /\ remaining = at + BytesRead
        /\ \E q \in Nat : at = q * block
    BY <2>1 DEF BlockInv, CopyBlock
  <2> QED  BY <2>1, <2>2 DEF Written
<1>2. BytesRead \in Nat
  BY <1>1 DEF BytesRead
<1>3. /\ remaining' = at /\ length' = length /\ block' = block /\ reversing' = "loop"
      /\ out' = out \o Backwards(at, BytesRead)
  BY <1>1, <1>2 DEF CopyBlock
<1>4. /\ Backwards(at, BytesRead) \in Seq(Int) /\ Len(Backwards(at, BytesRead)) = BytesRead
      /\ \A k \in 1 .. BytesRead :
           Backwards(at, BytesRead)[k] = length - (length - remaining) - k
  BY <1>1, <1>2 DEF Backwards
<1>5. IsTail(out', (length - remaining) + BytesRead, length)
  BY <1>1, <1>2, <1>3, <1>4, WriteMore
<1>6. (length - remaining) + BytesRead = length' - remaining'
  BY <1>1, <1>2, <1>3
<1>7. Written(length - remaining)'
  BY <1>1, <1>3, <1>5, <1>6 DEF Written
<1>8. ASSUME at > 0
      PROVE  at' \in 0 .. length /\ at = at' + BytesRead' /\ \E q \in Nat : at' = q * block
  <2>1. PICK q \in Nat : at = q * block
    BY <1>1
  <2>2. q - 1 \in Nat /\ at - block = (q - 1) * block
    BY <1>1, <1>8, <2>1
  <2>3. at - block \in Nat
    BY <1>1, <2>2, SMT
  <2>4. at' = at - block
    BY <1>1, <1>2, <2>3 DEF CopyBlock, SeekTo
  <2>5. BytesRead' = block
    BY <1>1, <1>3, <2>4 DEF BytesRead
  <2> QED  BY <1>1, <2>2, <2>3, <2>4, <2>5
<1> QED  BY <1>1, <1>3, <1>7, <1>8 DEF ReversalInv, BlockInv

(* Whatever the length of the file and the size of the block, what is      *)
(* written is the file backwards as far as it goes, and all of it when the *)
(* program reports success (reverse.c:18-32, 55-78).                       *)
THEOREM OutputReversed == ReversalSpec => []Reversed
<1>1. ReversalInit => ReversalInv
  BY ReversalAssumption DEF ReversalInit, ReversalInv, ByteInv, BlockInv, Written, IsTail
<1>2. ReversalInv /\ [ReversalNext]_reversalVars => ReversalInv'
  <2> SUFFICES ASSUME ReversalInv, [ReversalNext]_reversalVars PROVE ReversalInv'
    OBVIOUS
  <2> USE DEF ReversalInv, ByteInv, BlockInv, Written, IsTail
  <2>1. CASE IoError
    BY <2>1 DEF IoError
  <2>2. CASE EndReversal
    BY <2>2 DEF EndReversal
  <2>3. CASE UNCHANGED reversalVars
    BY <2>3 DEF reversalVars, BytesRead
  <2> QED  BY <2>1, <2>2, <2>3, StartStep, ByteStep, BlockStep DEF ReversalNext, ReversalStep
<1>3. ReversalInv => Reversed
  <2>1. ASSUME NEW n \in 0 .. length, length \in Nat, Written(n)
        PROVE  Len(out) = n /\ out = [k \in 1 .. Len(out) |-> length - k]
    BY <2>1 DEF Written, IsTail
  <2>2. ASSUME ReversalInv PROVE \E n \in 0 .. length : Written(n)
    BY <2>2 DEF ReversalInv, ByteInv, BlockInv
  <2> QED  BY <2>1, <2>2 DEF ReversalInv, Reversed
<1> QED  BY <1>1, <1>2, <1>3, PTL DEF ReversalSpec

=============================================================================
