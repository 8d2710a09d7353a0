--------------------------- MODULE CmdlineTokens ---------------------------
(***************************************************************************)
(* The string-level helpers of src/cmdline.c: the colon splitter, the      *)
(* "is a number" check and the C library conversions (strtoull, strtoul,   *)
(* strtol, all with base 0) whose results reach the jail configuration.    *)
(*                                                                         *)
(* A token (an optarg) is a sequence of one-character strings, so that the *)
(* character-level rules of the code can be stated.  Literal strings of    *)
(* the code that are never inspected character by character ("/",         *)
(* "/proc", "NSJAIL") are one-element sequences holding the whole string.  *)
(*                                                                         *)
(* Integer widths are scaled down: unsigned long long has Width bits here  *)
(* (64 in the build), so wrap-around and saturation happen at the same     *)
(* place relative to the values the model enumerates.                      *)
(***************************************************************************)
EXTENDS Integers, Sequences, SequencesExt

CONSTANTS
  Width        \* bits of unsigned long long / unsigned long / long

ASSUME Width \in 4..24   \* keeps acc * 16 below TLC's 2^31

ULLONG_MAX == 2^Width - 1
LONG_MAX   == 2^(Width - 1) - 1

DecDigits == {"0", "1", "2", "3", "4", "5", "6", "7", "8", "9"}
HexLetters == {"a", "b", "c", "d", "e", "f", "A", "B", "C", "D", "E", "F"}

DigitTable ==
  [ch \in DecDigits \cup HexLetters |->
     CASE ch = "0" -> 0 [] ch = "1" -> 1 [] ch = "2" -> 2 [] ch = "3" -> 3
       [] ch = "4" -> 4 [] ch = "5" -> 5 [] ch = "6" -> 6 [] ch = "7" -> 7
       [] ch = "8" -> 8 [] ch = "9" -> 9 [] ch \in {"a", "A"} -> 10
       [] ch \in {"b", "B"} -> 11 [] ch \in {"c", "C"} -> 12
       [] ch \in {"d", "D"} -> 13 [] ch \in {"e", "E"} -> 14 [] OTHER -> 15]

\* the value of a digit character, or 99 for a character that is no digit
DigitVal(ch) == IF ch \in DOMAIN DigitTable THEN DigitTable[ch] ELSE 99

IsDigitIn(ch, base) == DigitVal(ch) < base

(***************************************************************************)
(* cmdlineSplitStrByColon: the head is everything before the first ':';   *)
(* the returned pointer is the text after it, or the string itself when   *)
(* there is no ':'.  `split` records whether the two pointers differ,      *)
(* which is what the callers test with `str == second`.                    *)
(***************************************************************************)
SplitStrByColon(s) ==
  LET i == SelectInSeq(s, LAMBDA ch : ch = ":")
  IN IF i = 0 THEN [head |-> s, tail |-> s, split |-> FALSE]
     ELSE [head |-> SubSeq(s, 1, i - 1), tail |-> SubSeq(s, i + 1, Len(s)),
           split |-> TRUE]

(***************************************************************************)
(* cmdlineIsANumber: every character is a decimal digit or 'x'.  The loop *)
(* advances s while reading s[0], so it does visit every character.       *)
(***************************************************************************)
IsANumber(s) == \A i \in 1..Len(s) : s[i] \in DecDigits \cup {"x"}

(***************************************************************************)
(* strtoull(s, NULL, 0) as glibc does it on the characters the model uses *)
(* (no white space and no sign): "0x"/"0X" followed by a hex digit selects *)
(* base 16, a leading "0" base 8, anything else base 10; the longest run   *)
(* of digits of that base is converted; a value above Max saturates to Max *)
(* and sets errno to ERANGE.                                               *)
(***************************************************************************)
RECURSIVE Accumulate(_, _, _, _)
Accumulate(s, base, max, acc) ==
  IF s = <<>> \/ ~IsDigitIn(Head(s), base) THEN acc
  ELSE LET v == acc.val * base + DigitVal(Head(s))
       IN Accumulate(Tail(s), base, max,
                     IF acc.erange \/ v > max THEN [val |-> max, erange |-> TRUE]
                     ELSE [val |-> v, erange |-> FALSE])

StrtoBase0(s, max) ==
  LET hex == Len(s) >= 3 /\ s[1] = "0" /\ s[2] \in {"x", "X"} /\ IsDigitIn(s[3], 16)
      start == [val |-> 0, erange |-> FALSE]
  IN CASE hex -> Accumulate(SubSeq(s, 3, Len(s)), 16, max, start)
       [] Len(s) >= 1 /\ s[1] = "0" -> Accumulate(s, 8, max, start)
       [] OTHER -> Accumulate(s, 10, max, start)

Strtoull(s) == StrtoBase0(s, ULLONG_MAX)
Strtoul(s)  == StrtoBase0(s, ULLONG_MAX)   \* unsigned long is 64-bit like unsigned long long
Strtol(s)   == StrtoBase0(s, LONG_MAX)

(***************************************************************************)
(* errno after a conversion: ERANGE on overflow, otherwise left as it was *)
(* (the C library never clears errno on success).                         *)
(***************************************************************************)
ERANGE == 34
ErrnoAfter(conv, errno) == IF conv.erange THEN ERANGE ELSE errno

(***************************************************************************)
(* strcasecmp against the literal sentinels "max" and "def".              *)
(***************************************************************************)
Lower(ch) ==
  CASE ch = "M" -> "m" [] ch = "A" -> "a" [] ch = "X" -> "x"
    [] ch = "D" -> "d" [] ch = "E" -> "e" [] ch = "F" -> "f"
    [] OTHER -> ch
CaseEq(s, lit) == Len(s) = Len(lit) /\ \A i \in 1..Len(s) : Lower(s[i]) = lit[i]

-----------------------------------------------------------------------------
(***************************************************************************)
(* Reference definitions from the specification (spec.md 4.2, 4.3): a     *)
(* number is a non-empty run of decimal digits, or "0x" followed by a      *)
(* non-empty run of hex digits, denoting its unbounded value.             *)
(***************************************************************************)
RECURSIVE ValueIn(_, _)
ValueIn(s, base) ==
  IF s = <<>> THEN 0 ELSE ValueIn(Front(s), base) * base + DigitVal(Last(s))

SpecIsDecimal(s) == Len(s) > 0 /\ \A i \in 1..Len(s) : s[i] \in DecDigits
SpecIsHex(s) ==
  /\ Len(s) > 2 /\ s[1] = "0" /\ s[2] = "x"
  /\ \A i \in 3..Len(s) : IsDigitIn(s[i], 16)
SpecIsNumber(s) == SpecIsDecimal(s) \/ SpecIsHex(s)
SpecValue(s) == IF SpecIsHex(s) THEN ValueIn(SubSeq(s, 3, Len(s)), 16) ELSE ValueIn(s, 10)

=============================================================================
