---------------------------- MODULE AddressBook ----------------------------
(* The watched addresses of a chain's source, and how its amounts are written.
   The book is kept as the tokens of a bank's source are, of addresses in their
   normal form; what else the configuration holds is dropped when the source is built. *)
EXTENDS TokenSet, Integers

CONSTANTS
  Inputs,    \* what a user may write
  Normal,    \* the normal form of each, None when it is not an address
  Decimals   \* digits of a coin's fraction

\* Add: an input that is no address is refused before anything is read.
Add(e, input) == Normal[input] # None /\ SetCredential(e, Normal[input])

BookNext == \E e \in Editors : \/ \E i \in Inputs : Add(e, i)
                               \/ \E a \in Tokens : RemoveCredential(e, a)
                               \/ WriteTokens(e) \/ WriteFails(e)

-----------------------------------------------------------------------------
(* DecimalFromBaseUnits: the digits before and after the point, without zeros at the end. *)

Digits(n, d) == [i \in 1 .. d |-> (n \div 10 ^ (d - i)) % 10]

TrimRight(s) == LET last == {i \in DOMAIN s : s[i] # 0} IN IF last = {} THEN << >> ELSE SubSeq(s, 1, Max(last))

\* The fraction without the zeros before its first digit.
DecimalFromBaseUnitsUnpadded(v) ==
  LET abs == IF v < 0 THEN -v ELSE v
      frac == Digits(abs % 10 ^ Decimals, Decimals)
  IN  [neg |-> v < 0, int |-> abs \div 10 ^ Decimals, frac |-> TrimRight(SelectSeq(frac, LAMBDA x : x # 0))]

DecimalFromBaseUnits(v) ==
  LET abs == IF v < 0 THEN -v ELSE v
  IN  [neg |-> v < 0, int |-> abs \div 10 ^ Decimals, frac |-> TrimRight(Digits(abs % 10 ^ Decimals, Decimals))]

\* The number that an amount stands for, in base units.
BaseUnits(r) ==
  LET n == r.int * 10 ^ Decimals + FoldLeft(LAMBDA sum, i : sum + r.frac[i] * 10 ^ (Decimals - i), 0, [i \in DOMAIN r.frac |-> i])
  IN  IF r.neg THEN -n ELSE n

Exact(r, v) == BaseUnits(r) = v /\ (r.frac # << >> => r.frac[Len(r.frac)] # 0) /\ (v = 0 => ~r.neg)

=============================================================================
