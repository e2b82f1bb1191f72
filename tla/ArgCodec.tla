------------------------------ MODULE ArgCodec ------------------------------
(***************************************************************************)
(* The text side of numeric options: the number parsers of                 *)
(* src/lib/parse.c (string_to_number_ll over strtoull with base 0, and the *)
(* sscanf("%x:%x") of dset_parse_skbprio) and the printers of              *)
(* src/lib/print.c that save uses for the same options (dset_print_number, *)
(* dset_print_skbprio).  A string is a TLA+ string; a character past its   *)
(* end reads as "", the terminating NUL.  TLC integers stop at 2^31 - 1,   *)
(* so a value of 2^31 or more is the single value BIG: every range the     *)
(* models check (u8, u16, the timeout cap) lies below it, and a negated    *)
(* nonzero number (strtoull returns 2^64 - n) is BIG as well.              *)
(***************************************************************************)
EXTENDS Integers, Sequences

Ch(s, i) == IF i <= Len(s) THEN SubSeq(s, i, i) ELSE ""

Limit == 2147483647
BIG == -1
UINT_MAX == Limit     \* every value below BIG is in the u32 range
USHRT_MAX == 65535

DecDigits == "0123456789"
HexLower == "0123456789abcdef"
HexUpper == "0123456789ABCDEF"

(* The value of every digit character (strtoull and scanf take either     *)
(* case of the hex letters), and of character c as a digit of base b, or  *)
(* -1.                                                                     *)
DigitOf ==
    [c \in {Ch(HexLower, k) : k \in 1..16} \cup {Ch(HexUpper, k) : k \in 1..16} |->
        CHOOSE d \in 0..15 : c \in {Ch(HexLower, d + 1), Ch(HexUpper, d + 1)}]

DigitVal(c, b) == IF c \in DOMAIN DigitOf /\ DigitOf[c] < b THEN DigitOf[c] ELSE -1

(* acc * b + d, or BIG once it would pass 2^31 - 1.                      *)
Grow(acc, b, d) ==
    IF acc = BIG \/ acc > (Limit - d) \div b THEN BIG ELSE acc * b + d

(* The digit loop: the value of the base-b digits from position i on, and *)
(* the first position that is not such a digit.                           *)
RECURSIVE Digits(_, _, _, _)
Digits(s, i, b, acc) ==
    IF DigitVal(Ch(s, i), b) < 0 THEN [v |-> acc, end |-> i]
    ELSE Digits(s, i + 1, b, Grow(acc, b, DigitVal(Ch(s, i), b)))

RECURSIVE SkipBlanks(_, _)
SkipBlanks(s, i) ==
    IF Ch(s, i) \in {" ", "\t", "\n", "\r"} THEN SkipBlanks(s, i + 1) ELSE i

(* A leading minus negates modulo 2^64.                                   *)
Signed(r, neg) == [v |-> IF neg /\ r.v # 0 THEN BIG ELSE r.v, end |-> r.end]

HexPrefix(s, q) ==
    Ch(s, q) = "0" /\ Ch(s, q + 1) \in {"x", "X"} /\ DigitVal(Ch(s, q + 2), 16) >= 0

(* strtoull(str, &end, 0) past the blanks and the sign: 0x before a hex    *)
(* digit selects hex, a leading 0 octal, a decimal digit decimal; with no  *)
(* digit at all end is str itself (position 1).                            *)
StrtoullAt(s, q, neg) ==
    CASE HexPrefix(s, q) -> Signed(Digits(s, q + 2, 16, 0), neg)
      [] Ch(s, q) = "0" -> Signed(Digits(s, q, 8, 0), neg)
      [] DigitVal(Ch(s, q), 10) >= 0 -> Signed(Digits(s, q, 10, 0), neg)
      [] OTHER -> [v |-> 0, end |-> 1]

SignAt(s, p) ==
    StrtoullAt(s, IF Ch(s, p) \in {"+", "-"} THEN p + 1 ELSE p, Ch(s, p) = "-")

strtoull(s) == SignAt(s, SkipBlanks(s, 1))

(* Mutant: the upper bound is exclusive.                                  *)
NumberFromExclusive(s, r, max) ==
    IF r.end = Len(s) + 1 /\ r.end # 1 /\ r.v # BIG /\ r.v < max
    THEN [ok |-> TRUE, v |-> r.v] ELSE [ok |-> FALSE, v |-> 0]

(* string_to_number_ll: the whole string must be one number (the end      *)
(* pointer is at the NUL and is not str) within 0..max; anything else is   *)
(* a syntax error.                                                         *)
NumberFrom(s, r, max) ==
    IF r.end = Len(s) + 1 /\ r.end # 1 /\ r.v # BIG /\ r.v <= max
    THEN [ok |-> TRUE, v |-> r.v] ELSE [ok |-> FALSE, v |-> 0]

string_to_number_ll(s, max) == NumberFrom(s, strtoull(s), max)

dset_parse_timeout(s) == string_to_number_ll(s, UINT_MAX \div 1000)
dset_parse_uint32(s) == string_to_number_ll(s, UINT_MAX)
dset_parse_uint16(s) == string_to_number_ll(s, USHRT_MAX)

(* One %x conversion of sscanf from position i: blanks, an optional 0x,   *)
(* at least one hex digit.  n is the number of conversions (0 or 1).       *)
ScanHexAt(s, q) ==
    IF DigitVal(Ch(s, q), 16) < 0 THEN [n |-> 0, v |-> 0, next |-> q]
    ELSE [n |-> 1, v |-> Digits(s, q, 16, 0).v, next |-> Digits(s, q, 16, 0).end]

ScanHex(s, i) ==
    ScanHexAt(s, IF HexPrefix(s, SkipBlanks(s, i)) THEN SkipBlanks(s, i) + 2
                 ELSE SkipBlanks(s, i))

(* ((uint32_t)maj << 16) | (min & 0xffff).                                 *)
PackPrio(maj, min) == (maj % 65536) * 65536 + (min % 65536)

PrioScanned(a, b) ==
    IF a.n = 1 /\ b.n = 1 THEN [ok |-> TRUE, v |-> PackPrio(a.v, b.v)]
    ELSE [ok |-> FALSE, v |-> 0]

PrioFirst(s, a) ==
    IF a.n = 1 /\ Ch(s, a.next) = ":" THEN PrioScanned(a, ScanHex(s, a.next + 1))
    ELSE [ok |-> FALSE, v |-> 0]

(* dset_parse_skbprio: sscanf(str, "%x:%x") must make two conversions.    *)
dset_parse_skbprio(s) == PrioFirst(s, ScanHex(s, 1))

-----------------------------------------------------------------------------
(* Printers.                                                               *)

RECURSIVE Numeral(_, _, _)
Numeral(n, b, digits) ==
    IF n < b THEN Ch(digits, n + 1)
    ELSE Numeral(n \div b, b, digits) \o Ch(digits, (n % b) + 1)

(* dset_print_number: "%u" or "%lu" by the option's width, in decimal.   *)
dset_print_number(v) == Numeral(v, 10, DecDigits)

(* Mutant: the minor number is printed in decimal.                        *)
PrintSkbprioDecimalMinor(v) ==
    Numeral(v \div 65536, 16, HexLower) \o ":" \o Numeral(v % 65536, 10, DecDigits)

(* dset_print_skbprio: "%x:%x" of the high and the low 16 bits.           *)
dset_print_skbprio(v) ==
    Numeral(v \div 65536, 16, HexLower) \o ":" \o Numeral(v % 65536, 16, HexLower)

=============================================================================
