------------------------------- MODULE Reversal --------------------------------
(***************************************************************************)
(* cw03/zad1/reverse.c: a file copied backwards, byte by byte or in blocks *)
(* of BLOCK_SIZE bytes, as the program was compiled.                       *)
(*                                                                         *)
(* A byte is known by its place in the input: the output is a sequence of  *)
(* such places.  One step is one turn of the loop.                         *)
(***************************************************************************)
EXTENDS Integers, Sequences

CONSTANTS
  Lengths,   (* the lengths the input may have                              *)
  Blocks     (* the values of BLOCK_SIZE; 0 where it is not defined         *)

ASSUME ReversalAssumption == Lengths \subseteq Nat /\ Blocks \subseteq Nat

VARIABLES
  length,     (* of the input                                               *)
  block,      (* BLOCK_SIZE                                                 *)
  at,         (* where in the input the next byte is read                   *)
  remaining,  (* bytes_remaining                                            *)
  out,        (* the output                                                 *)
  reversing   (* is reverse_file under way, or how it has ended             *)

reversalVars == <<length, block, at, remaining, out, reversing>>

ReversalInit ==
  /\ length \in Lengths /\ block \in Blocks
  /\ at = 0 /\ remaining = 0 /\ out = << >> /\ reversing = "start"

(* fseek(infile, -1, SEEK_END): there is no byte before the end of an      *)
(* empty file.                                                             *)
StartBytes ==
  /\ reversing = "start" /\ block = 0
  /\ IF length = 0
     THEN reversing' = "failed" /\ UNCHANGED <<at, remaining>>
     ELSE reversing' = "loop" /\ at' = length - 1 /\ remaining' = at' + 1
  /\ UNCHANGED <<length, block, out>>

(* Faulty variant of StartBlocks: reading starts at the end, not at the    *)
(* last multiple of the block.                                             *)
StartAtEnd ==
  /\ reversing = "start" /\ block > 0
  /\ reversing' = "loop" /\ remaining' = length
  /\ at' = length
  /\ UNCHANGED <<length, block, out>>

StartBlocks ==
  /\ reversing = "start" /\ block > 0
  /\ reversing' = "loop" /\ remaining' = length
  /\ at' = length - (length % block)
  /\ UNCHANGED <<length, block, out>>

(* fseek to before the start of the file fails, and nobody asks.           *)
SeekTo(place, otherwise) == at' = IF place < 0 THEN otherwise ELSE place

Backwards(from, n) == [k \in 1 .. n |-> from + n - k]

CopyByte ==
  /\ reversing = "loop" /\ block = 0 /\ remaining > 0
  /\ out' = Append(out, at)
  /\ remaining' = remaining - 1
  /\ SeekTo(at + 1 - 2, at + 1)
  /\ UNCHANGED <<length, block, reversing>>

(* What fread gets: nothing at the end of the file, less than a block near *)
(* it.                                                                     *)
BytesRead == IF length - at < block THEN length - at ELSE block

CopyBlock ==
  /\ reversing = "loop" /\ block > 0 /\ remaining > 0
  /\ out' = out \o Backwards(at, BytesRead)
  /\ remaining' = remaining - BytesRead
  /\ SeekTo(at + BytesRead - block - BytesRead, at + BytesRead)
  /\ UNCHANGED <<length, block, reversing>>

(* Reading or writing fails.                                               *)
IoError ==
  /\ reversing = "loop" /\ remaining > 0 /\ reversing' = "failed"
  /\ UNCHANGED <<length, block, at, remaining, out>>

EndReversal ==
  /\ reversing = "loop" /\ remaining <= 0 /\ reversing' = "done"
  /\ UNCHANGED <<length, block, at, remaining, out>>

-----------------------------------------------------------------------------

ReversalStep == StartBytes \/ StartBlocks \/ CopyByte \/ CopyBlock \/ EndReversal
ReversalNext == ReversalStep \/ IoError

ReversalSpec == ReversalInit /\ [][ReversalNext]_reversalVars

-----------------------------------------------------------------------------

(* What is written is always the input backwards as far as it goes, and    *)
(* all of it at the end, for every length and block size: also where the   *)
(* length is a multiple of the block and the first fread gets nothing, and *)
(* where the last fseek fails (reverse.c:18-32, 55-78).                    *)
Reversed ==
  /\ out = [k \in 1 .. Len(out) |-> length - k]
  /\ reversing = "done" => Len(out) = length

(* The loop comes to its end.                                              *)
ReversalEnds == <>(reversing \in {"done", "failed"})

=============================================================================
