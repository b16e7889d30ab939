------------------------------- MODULE Numbers -------------------------------
(***************************************************************************)
(* Numbers as bytes and back: to_bytes of common/BitUtils.hpp and convert  *)
(* of interpretation/TypeFormatter.hpp.  A number is written as the bytes  *)
(* of its object, least significant first, one for each of its type.       *)
(***************************************************************************)
EXTENDS Integers, Sequences

ByteValue == 0 .. 255

(* The widths numbers come in.                                             *)
Widths == {1, 2, 4, 8}

(* Objects of the integral types.                                          *)
Object == {n \in Seq(ByteValue) : Len(n) \in Widths}

(* to_bytes(value, width): the lowest bytes; it throws if there are fewer. *)
ToBytes(n, width) == SubSeq(n, 1, width)

(* MUTANT: a number is four bytes.                                         *)
SignPad_Int32(v) == v \o [k \in 1 .. 4 - Len(v) |-> IF v[Len(v)] >= 128 THEN 255 ELSE 0]

ZeroPad(v) == v \o [k \in 1 .. 8 - Len(v) |-> 0]
SignPad(v) == v \o [k \in 1 .. 8 - Len(v) |-> IF v[Len(v)] >= 128 THEN 255 ELSE 0]

(* quiet_NaN of an integer is zero; that of a double is written <<>>.      *)
Integer(v)         == IF Len(v) \in Widths THEN SignPad(v) ELSE ZeroPad(<<>>)
UnsignedInteger(v) == IF Len(v) \in Widths THEN ZeroPad(v) ELSE ZeroPad(<<>>)
Float(v)           == IF Len(v) \in {4, 8} THEN v ELSE <<>>
=============================================================================
