----------------------------- MODULE ByteArrays -----------------------------
(***************************************************************************)
(* The byte array types of core/types (Address, B256, Bloom): their hex    *)
(* texts, and the bits of a Bloom.  The types differ only in their size.   *)
(* A byte is an integer, a text a sequence of character codes.             *)
(***************************************************************************)
EXTENDS Integers, SequencesExt

CONSTANTS Size,   \* bytes of the type
          Bits,   \* bit numbers that callers use, out of range ones included
          Char,   \* characters a text is written with
          MaxText

VARIABLES bloom, rhs,       \* two values
          bits, rhs_bits,   \* the bits that were set in them
          text              \* a text that was typed in

vars == <<bloom, rhs, bits, rhs_bits, text>>

zero == [i \in 1..Size |-> 0]

Ok(value) == [ok |-> value]
Err(kind, at) == [error |-> kind, at |-> at]

-----------------------------------------------------------------------------
(* Bits *)

Has(byte, k) == (byte \div 2^k) % 2 = 1

Or(a, b) ==
  FoldSet(LAMBDA k, sum : sum + IF Has(a, k) \/ Has(b, k) THEN 2^k ELSE 0, 0, 0..7)

in_range(bit) == bit < 8 * Size

byte_index(bit) == bit \div 8 + 1

set_bit(value, bit) ==
  IF in_range(bit) THEN [value EXCEPT ![byte_index(bit)] = Or(@, 2^(bit % 8))] ELSE value

has_bit(value, bit) ==
  IF in_range(bit) THEN Ok(Has(value[byte_index(bit)], bit % 8)) ELSE Err("BitOutOfRange", bit)

bitor_assign(a, b) == [i \in 1..Size |-> Or(a[i], b[i])]

-----------------------------------------------------------------------------
(* Texts.  '0' is 48, 'A' is 65, 'X' is 88, 'a' is 97, 'x' is 120.         *)

LowerDigit(n) == IF n < 10 THEN 48 + n ELSE 87 + n
UpperDigit(n) == IF n < 10 THEN 48 + n ELSE 55 + n

Digits(value, Digit(_)) ==
  FlattenSeq([i \in 1..Size |-> <<Digit(value[i] \div 16), Digit(value[i] % 16)>>])

lower_hex(value) == Digits(value, LowerDigit)
upper_hex(value) == Digits(value, UpperDigit)
Display(value) == <<48, 120>> \o lower_hex(value)

check_hex_char(c) ==
  CASE c \in 48..57  -> c - 48
    [] c \in 97..102 -> c - 97 + 10
    [] c \in 65..70  -> c - 65 + 10
    [] OTHER         -> -1

starts_with_0x(s) == Len(s) >= 2 /\ s[1] = 48 /\ s[2] \in {120, 88}

\* Plausible bug: positions count from the text without its prefix.
first_without_prefix(s) == 0

\* The position of the first digit in the text as given.
first(s) == IF starts_with_0x(s) THEN 2 ELSE 0

decode_hex(s) ==
  LET hex_str == SubSeq(s, 1 + (IF starts_with_0x(s) THEN 2 ELSE 0), Len(s))
      bad     == {i \in 1..Len(hex_str) : check_hex_char(hex_str[i]) = -1}
  IN IF Len(s) % 2 = 1 THEN Err("OddHexLength", Len(s))
     ELSE IF bad # {} THEN Err("InvalidHex", first(s) + Min(bad) - 1)
     ELSE Ok([i \in 1..Len(hex_str) \div 2 |->
                16 * check_hex_char(hex_str[2 * i - 1]) + check_hex_char(hex_str[2 * i])])

try_from(bytes) == IF Len(bytes) = Size THEN Ok(bytes) ELSE Err("WrongLength", Len(bytes))

from_str(s) ==
  LET decoded == decode_hex(s)
  IN IF "error" \in DOMAIN decoded THEN decoded ELSE try_from(decoded.ok)

-----------------------------------------------------------------------------
Init ==
  /\ bloom = zero /\ rhs = zero
  /\ bits = {} /\ rhs_bits = {}
  /\ text = << >>

SetBit ==
  \E bit \in Bits :
    /\ \/ /\ bloom' = set_bit(bloom, bit)
          /\ bits' = IF in_range(bit) THEN bits \cup {bit} ELSE bits
          /\ UNCHANGED <<rhs, rhs_bits>>
       \/ /\ rhs' = set_bit(rhs, bit)
          /\ rhs_bits' = IF in_range(bit) THEN rhs_bits \cup {bit} ELSE rhs_bits
          /\ UNCHANGED <<bloom, bits>>
    /\ text = << >>
    /\ UNCHANGED text

Merge ==
  /\ bloom' = bitor_assign(bloom, rhs)
  /\ bits' = bits \cup rhs_bits
  /\ UNCHANGED <<rhs, rhs_bits, text>>

\* Texts are independent of the values: they are typed in next to two zeros.
Type ==
  /\ bloom = zero /\ rhs = zero
  /\ Len(text) < MaxText
  /\ \E c \in Char : text' = Append(text, c)
  /\ UNCHANGED <<bloom, rhs, bits, rhs_bits>>

Next == SetBit \/ Merge \/ Type

Spec == Init /\ [][Next]_vars

-----------------------------------------------------------------------------
\* bloom.rs, macros.rs: after any sequence of set_bit and |= exactly the bits
\* that were set are reported, each in its own byte, and a bit that is out of
\* range is refused by has_bit and changes nothing in set_bit.
BitsKept ==
  \A bit \in Bits :
    has_bit(bloom, bit) = IF in_range(bit) THEN Ok(bit \in bits) ELSE Err("BitOutOfRange", bit)

\* macros.rs: a value is read back by FromStr from each of its texts.
TextReadsBack ==
  \A s \in {Display(bloom), lower_hex(bloom), upper_hex(bloom),
            <<48, 120>> \o upper_hex(bloom)} : from_str(s) = Ok(bloom)

\* error.rs, decode_hex: a refused text is refused for a reason the caller can
\* see in the text as given: the first character that is no digit behind the
\* prefix stands at the reported position, and every accepted text shows the
\* value again up to prefix and case.
ParseJustified ==
  LET result == from_str(text)
      lower(c) == IF c \in 65..70 \cup {88} THEN c + 32 ELSE c
      lowered == [i \in DOMAIN text |-> lower(text[i])]
  IN IF "ok" \in DOMAIN result
     THEN lowered \in {Display(result.ok), lower_hex(result.ok)}
     ELSE result.error = "InvalidHex" =>
            /\ check_hex_char(text[result.at + 1]) = -1
            /\ \A i \in 1..result.at :
                 check_hex_char(text[i]) = -1 => i = 2 /\ starts_with_0x(text)

\* Byte arrays give back what was put into them, as bits and as texts, and
\* refuse a text only for a fault it has.
ArraysExact == BitsKept /\ TextReadsBack /\ ParseJustified

=============================================================================
