--------------------------- MODULE MCConfigStore ---------------------------
(* Small instances of ConfigStore for TLC. *)
EXTENDS ConfigStore, TLC

CONSTANTS p1, p2, dflt, none

MCPayloads  == {p1, p2, dflt}
MCHalfRange == 4               \* sequence numbers 0..6, 7 is the erased pattern

Slot(k, n, p, m) == [body |-> [kind |-> k, seq |-> n, payload |-> p],
                     marker |-> m]
Blank == [body |-> Erased, marker |-> "erased"]

\* Virgin flash; one valid slot next to every kind of unusable one; two valid
\* slots just before the wrap of the sequence, with equal numbers, and with a
\* V1 record; no usable slot at all.
MCInitialFlash ==
  {[s \in Slots |-> Blank]}
    \cup {[s \in Slots |-> IF s = v THEN Slot("v2", 5, p1, "full") ELSE other] :
            v \in Slots,
            other \in {Blank, Slot("torn", 0, none, "full"),
                       Slot("v2", 6, p2, "low"),
                       Slot("invalid", 6, none, "full"),
                       Slot("unsupported", 6, none, "full"),
                       Slot("v2", 6, p2, "full"), Slot("v2", 5, p2, "full"),
                       Slot("v1", 4, p2, "full"), Slot("v1", 6, p2, "full")}}
    \cup {[s \in Slots |-> Slot("unsupported", 2, none, "full")],
          [s \in Slots |-> Slot("torn", 0, none, "full")]}
=============================================================================
