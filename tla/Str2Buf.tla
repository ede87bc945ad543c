------------------------------ MODULE Str2Buf ------------------------------
(***************************************************************************)
(* The conversions of src/common/str2buf.c, from the text of a default     *)
(* value or of a command line argument to the value of a CANopen data      *)
(* type.                                                                   *)
(*                                                                         *)
(* A text is told apart by what the conversions look at: whether it is     *)
(* empty, a word, or starts with a number (anything behind the digits is   *)
(* ignored, as nobody looks at *endptr), its sign and magnitude, how the   *)
(* number is written, and the parity of its length.  Values carries the    *)
(* number of values of a type of each width and LongValues that of long,   *)
(* which differs between the boards (32 bit) and the developers' machines  *)
(* (64 bit).  Real numbers are represented by the integer in their text.   *)
(***************************************************************************)
EXTENDS Integers

CONSTANTS
    Values,      \* number of values per width: 2^8, 2^16, 2^32, 2^64
    LongValues   \* number of values of long and unsigned long

Widths == {8, 16, 32, 64}

ASSUME ValuesAssumption ==
    /\ Values \in [Widths -> Nat \ {0}]
    /\ \A w \in Widths : Values[w] % 2 = 0
    /\ Values[8] < Values[16] /\ Values[16] < Values[32] /\ Values[32] < Values[64]
    /\ LongValues \in {Values[32], Values[64]}

Text == [kind : {"empty", "word", "true", "false", "number"},
         neg : BOOLEAN, mag : Nat, form : {"plain", "other", "unseen"}, odd : BOOLEAN]
EmptyText == [kind |-> "empty", neg |-> FALSE, mag |-> 0, form |-> "plain", odd |-> FALSE]

\* A value in memory, with a tag that tells a NULL pointer, an integer, a
\* string, bytes and memory that was never written apart.
Tagged(tag, v) == [tag |-> tag, v |-> v]
Null == Tagged("null", 0)
Uninit == Tagged("uninit", 0)
Int_(v) == Tagged("int", v)

\* The forms of a number: nothing but its decimal digits ("plain"); a prefix 0x,
\* leading zeros, something behind the digits ("other"); and hexadecimal with a
\* prefix that get_str_base does not see, as in 0X10 and -0x10 ("unseen"): the
\* base is taken for 10, and what is read is the 0 before the x.
Magnitude(t) == IF t.form = "unseen" THEN 0 ELSE t.mag

\* The number that the integer conversions read in a text.
Denoted(t) == IF t.neg THEN -Magnitude(t) ELSE Magnitude(t)

Clamp(x, low, high) == IF x < low THEN low ELSE IF x > high THEN high ELSE x

\* strtoul and strtoull of a text without a sign; strtol and strtoll (external:
\* they saturate).  Only the 64-bit conversions use the long long ones.
Total(w) == IF w = 64 THEN Values[64] ELSE LongValues
StrToU(w, t) == Clamp(Magnitude(t), 0, Total(w) - 1)
StrToI(w, t) == Clamp(Denoted(t), -(Total(w) \div 2), (Total(w) \div 2) - 1)

Checked(w) == w \in {8, 16}

\* str2buf_uint8 to str2buf_uint64: the two narrow ones refuse what does not
\* fit, the others cut it to their width.
str2buf_uint(w, t) ==
    IF \/ t.kind # "number" \/ t.neg
       \/ Checked(w) /\ StrToU(w, t) > Values[w] - 1
      THEN Null
      ELSE Int_(StrToU(w, t) % Values[w])

\* Mutant of str2buf_int: the lower bound is not looked at.
str2buf_int_unbounded(w, t) ==
    LET half == Values[w] \div 2 IN
    IF t.kind # "number" \/ (Checked(w) /\ StrToI(w, t) > half - 1)
      THEN Null
      ELSE Int_(((StrToI(w, t) + half) % Values[w]) - half)

\* str2buf_int8 to str2buf_int64, likewise.
str2buf_int(w, t) ==
    LET half == Values[w] \div 2 IN
    IF \/ t.kind # "number"
       \/ Checked(w) /\ (StrToI(w, t) < -half \/ StrToI(w, t) > half - 1)
      THEN Null
      ELSE Int_(((StrToI(w, t) + half) % Values[w]) - half)

\* str2buf_bool compares the text: the words (or what they begin with), and the
\* digits 1 and 0 as such.
Digit(t, n) == t.kind = "number" /\ t.form = "plain" /\ ~t.neg /\ t.mag = n
str2buf_bool(t) ==
    IF t.kind = "true" \/ Digit(t, 1) THEN Int_(1)
    ELSE IF t.kind = "false" \/ Digit(t, 0) THEN Int_(0)
    ELSE Null

\* strtof and strtod know every prefix.
str2buf_float(t) ==
    IF t.kind = "number" THEN Int_(IF t.neg THEN -t.mag ELSE t.mag) ELSE Null

\* str2buf_bytes of a text of odd length is NULL; digits that are not
\* hexadecimal are taken for 0, so every text of even length is converted.
str2buf_bytes(odd) == IF odd THEN Null ELSE Tagged("bytes", 0)

\* The type codes shared by str2buf_dtype_int and fill_var.
IntTypes == {"INTERGER", "UNSIGNED"} \X Widths
DType == IntTypes \union
         ({"BOOLEAN", "REAL", "VISIBLE_STRING", "OCTET_STRING", "DOMAIN", "invalid"} \X {0})

\* The conversion that a type's code selects.
Convert(dtype, t) ==
    CASE dtype[1] = "INTERGER" -> str2buf_int(dtype[2], t)
      [] dtype[1] = "UNSIGNED" -> str2buf_uint(dtype[2], t)
      [] dtype[1] = "BOOLEAN" -> str2buf_bool(t)
      [] OTHER -> str2buf_float(t)

\* Whether the number read in a text is one of the type's values.
Fits(dtype, t) ==
    /\ t.kind = "number"
    /\ dtype[1] = "UNSIGNED" => ~t.neg /\ Magnitude(t) < Values[dtype[2]]
    /\ dtype[1] = "INTERGER" => /\ -(Values[dtype[2]] \div 2) <= Denoted(t)
                                /\ Denoted(t) < Values[dtype[2]] \div 2
=============================================================================
