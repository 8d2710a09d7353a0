------------------------------- MODULE MCTokens -------------------------------
(***************************************************************************)
(* The token helpers of CmdlineTokens over every token of at most          *)
(* MaxTokenLen characters drawn from Alphabet: tok grows one character per *)
(* step, so each reachable state is one input.                             *)
(***************************************************************************)
EXTENDS CmdlineTokens

CONSTANTS
  Alphabet,      \* characters tokens are made of
  MaxTokenLen    \* bound on the token length

VARIABLE tok

Init == tok = <<>>

Extend ==
  /\ Len(tok) < MaxTokenLen
  /\ \E ch \in Alphabet : tok' = Append(tok, ch)

Spec == Init /\ [][Extend]_tok

(* spec.md 4.2/4.3: a numeric identity or limit token is accepted exactly  *)
(* when it is decimal or 0x-hex digits, and denotes that number.           *)
(* cmdlineIsANumber accepts any mix of digits and 'x' (and the empty       *)
(* token) but no hex letter, and strtoull(.., 0) reads a leading 0 as      *)
(* octal.                                                                  *)
NumberReadAsSpecified ==
  /\ IsANumber(tok) = SpecIsNumber(tok)
  /\ (SpecIsNumber(tok) /\ SpecValue(tok) <= ULLONG_MAX)
       => Strtoull(tok).val = SpecValue(tok)

=============================================================================
