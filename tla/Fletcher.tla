------------------------------ MODULE Fletcher ------------------------------
(***************************************************************************)
(* The checksum of an object (checksum.cpp): the Fletcher sums of its      *)
(* words, in two words at its front.  Words have Width bits, sums twice as *)
(* many: 32 and 64 in the code.                                            *)
(***************************************************************************)
EXTENDS Integers, Sequences, SequencesExt

CONSTANT Width

\* The powers are named for the provers, which do not know ^.
ASSUME WidthAssumption ==
    Width \in Nat \ {0} /\ 2^Width \in Nat \ {0, 1} /\ 4^Width \in Nat \ {0}

Modulus == 2^Width - 1
Words == 0 .. Modulus

\* Mutant: the second sum adds the words instead of the first sum.
AddWord_NoOrder(sums, word) ==
    <<(sums[1] + word) % 4^Width, (sums[2] + word) % 4^Width>>

\* lower += word; upper += lower
AddWord(sums, word) ==
    LET lower == (sums[1] + word) % 4^Width
    IN  <<lower, (sums[2] + lower) % 4^Width>>

\* The sums after each of the words.
Sums(words) ==
    LET sums[n \in 0 .. Len(words)] == IF n = 0 THEN <<0, 0>> ELSE AddWord(sums[n - 1], words[n])
    IN  sums

\* calculate_fletcher64_checksum: the words that make both sums zero.
Checksum(words) ==
    LET sums == Sums(words)[Len(words)]
        lower == sums[1] % Modulus
        upper == sums[2] % Modulus
        first == Modulus - ((lower + upper) % Modulus)
    IN  <<first, Modulus - ((lower + first) % Modulus)>>

\* verify_object_checksum
Verifies(object) == SubSeq(object, 1, 2) = Checksum(SubSeq(object, 3, Len(object)))
=============================================================================
