------------------------------ MODULE MiniClib ------------------------------
(***************************************************************************)
(* miniclib.c: the replacements of C library functions that the resident   *)
(* part calls.  A string is a sequence of characters without its           *)
(* terminating zero; a pointer into it is a position, counted from 1.      *)
(***************************************************************************)
EXTENDS Integers, Sequences, FiniteSetsExt

(* The last c in str, and the first character where there is none: the     *)
(* backward loop stops there without a look at it.                         *)
fstrrchr(str, c) == Max({i \in DOMAIN str : str[i] = c} \cup {1})

(* Mutant: the flag of the odd byte is not popped before the last adc.     *)
NoOddByte(num) == 4 * (num \div 4) + 2 * ((num \div 2) % 2)

(* What rep movsd, movsw and movsb move together: num shifted right twice, *)
(* and then the two bits shifted out, the last one first.                  *)
BytesMoved(num) == 4 * (num \div 4) + 2 * ((num \div 2) % 2) + (num % 2)

(* The bytes at dst afterwards.                                            *)
fmemcpy(dst, src, num) ==
  [i \in DOMAIN dst |-> IF i <= BytesMoved(num) THEN src[i] ELSE dst[i]]

=============================================================================
