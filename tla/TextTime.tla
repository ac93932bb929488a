-------------------------------- MODULE TextTime --------------------------------
(***************************************************************************)
(* Time, and the text that the database keeps of a time (RFC3339Nano): the *)
(* local time and then its offset from UTC.  Now is in ticks, Second of    *)
(* them to a second, at most ten, so that one digit writes any fraction.   *)
(*                                                                         *)
(* Texts are compared, and the offset of two of them need not be the same. *)
(* In one second a fraction of zero is not written: what follows it is the *)
(* offset, and that of UTC, "Z", comes after the point of a fraction, that *)
(* of any other zone, "+" or "-", before it.                               *)
(***************************************************************************)
EXTENDS Integers

CONSTANTS Second, MaxTime

ASSUME TimeAssumption == Second \in 1 .. 10 /\ MaxTime \in Nat

VARIABLE now

UTC == 0

\* Texts are in the order of these numbers; those that differ in the offset alone
\* have the same.
Written(t, offset) ==
  LET local == t + offset
  IN  IF offset = UTC /\ local % Second = 0 THEN 2 * (local + Second) - 1 ELSE 2 * local

Tick == now < MaxTime /\ now' = now + 1
================================================================================
