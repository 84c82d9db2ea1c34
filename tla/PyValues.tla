------------------------------ MODULE PyValues ------------------------------
(***************************************************************************)
(* The Python values the serializers handle, as records tagged with what   *)
(* isinstance tells apart, and the built-in conversions they apply.        *)
(* A number is kept in halves, so that 1, True and 1.0 carry one amount    *)
(* and 0.5 exists; numbers are not negative and stay below ten.  A date    *)
(* is its ISO text, a quantity (of the optional package kanne) its pint    *)
(* text and its dimension.                                                 *)
(***************************************************************************)
EXTENDS Integers, Sequences
LOCAL INSTANCE TLC

None == [t |-> "none"]
Raised == [t |-> "raised"]              \* an exception instead of a value
Integer(n) == [t |-> "int", half |-> 2 * n]
Bool(b) == [t |-> "bool", half |-> IF b THEN 2 ELSE 0]
Float(h) == [t |-> "float", half |-> h]
Str(x) == [t |-> "str", text |-> x]
Date(x) == [t |-> "date", iso |-> x]
List(s) == [t |-> "list", items |-> s]
Dict(f) == [t |-> "dict", at |-> f]
Quantity(d, x) == [t |-> "quantity", dim |-> d, text |-> x]
\* An object of class c; a dataclass's fields or the attributes of an object.
Object(c, f) == [t |-> "object", cls |-> c, at |-> f]
\* The member `name` of enum class c, with its value and the class's base.
Member(c, name, value, base) ==
    [t |-> "member", cls |-> c, name |-> name, is |-> value, base |-> base]

Numbers == {"int", "bool", "float"}
IsInt(v) == v.t \in {"int", "bool"} \/ (v.t = "member" /\ v.base = "IntEnum")
IsFloat(v) == v.t = "float"
IsBool(v) == v.t = "bool"
IsStr(v) == v.t = "str" \/ (v.t = "member" /\ v.base = "StrEnum")
IsA(v, c) == v.t \in {"object", "member"} /\ v.cls = c

\* What a member of an IntEnum or StrEnum is as a plain value.
Bare(v) == IF v.t = "member" /\ v.base # "Enum" THEN v.is ELSE v

\* str(value), for the values that reach it.
ToStr(value) ==
    LET v == Bare(value) IN
    CASE v.t = "str" -> v
      [] v.t = "int" -> Str(ToString(v.half \div 2))
      [] v.t = "bool" -> Str(IF v.half = 0 THEN "False" ELSE "True")
      [] v.t = "float" -> Str(ToString(v.half \div 2) \o
                              (IF v.half % 2 = 0 THEN ".0" ELSE ".5"))
      [] OTHER -> Str("<" \o v.t \o ">")

\* float(value): a number, or the text of one.
ToFloat(value) ==
    LET v == Bare(value)
        Parsed == {h \in 0 .. 19 : \/ v = ToStr(Float(h))
                                   \/ h % 2 = 0 /\ v = ToStr(Integer(h \div 2))}
    IN  CASE v.t \in Numbers -> Float(v.half)
          [] v.t = "str" /\ Parsed # {} -> Float(CHOOSE h \in Parsed : TRUE)
          [] OTHER -> Raised

\* int(value): a number loses its fraction, a text must be a numeral.
ToInt(value) ==
    LET v == Bare(value)
        Parsed == {n \in 0 .. 9 : v = ToStr(Integer(n))}
    IN  CASE v.t \in Numbers -> Integer(v.half \div 2)
          [] v.t = "str" /\ Parsed # {} -> Integer(CHOOSE n \in Parsed : TRUE)
          [] OTHER -> Raised

\* bool(value): zero, the empty text and the empty containers are false.
ToBool(value) ==
    LET v == Bare(value) IN
    Bool(CASE v.t \in Numbers -> v.half # 0
           [] v.t = "str" -> v.text # ""
           [] v.t = "list" -> v.items # <<>>
           [] v.t = "dict" -> DOMAIN v.at # {}
           [] OTHER -> v.t # "none")

Dates == {"2024-05-01"}
FromIso(v) == IF IsStr(v) /\ Bare(v).text \in Dates THEN Date(Bare(v).text) ELSE Raised

Dimensions == [voltage |-> {"5 mV", "1 V"}, time |-> {"3 s"}]
DimensionOf(x) ==
    {d \in DOMAIN Dimensions : x \in Dimensions[d]}
\* The validation of a kanne type of dimension d.
ToQuantity(d, v) ==
    CASE v.t = "quantity" /\ v.dim = d -> v
      [] v.t = "str" /\ DimensionOf(v.text) = {d} -> Quantity(d, v.text)
      [] OTHER -> Raised

(***************************************************************************)
(* Python's ==: numbers by amount, containers by their items, members of   *)
(* an IntEnum or StrEnum like their plain values.                          *)
(***************************************************************************)
RECURSIVE Equal(_, _)
Equal(a, b) ==
    LET v == Bare(a)
        w == Bare(b)
    IN  CASE v.t \in Numbers -> w.t \in Numbers /\ v.half = w.half
          [] v.t = "list" -> /\ w.t = "list" /\ Len(v.items) = Len(w.items)
                             /\ \A i \in DOMAIN v.items : Equal(v.items[i], w.items[i])
          [] v.t = "dict" -> /\ w.t = "dict" /\ DOMAIN v.at = DOMAIN w.at
                             /\ \A k \in DOMAIN v.at : Equal(v.at[k], w.at[k])
          [] v.t = "object" -> /\ w.t = "object" /\ v.cls = w.cls
                               /\ \A k \in DOMAIN v.at : Equal(v.at[k], w.at[k])
          [] OTHER -> v = w
=============================================================================
