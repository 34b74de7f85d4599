---------------------------- MODULE FlightPages ----------------------------
(***************************************************************************)
(* The pages of GET /api/v1/game/flights/active: Paginate                  *)
(* (internal/game/flights/paginate.go), with the machine integers it       *)
(* computes in, for any page number and page length that GetActiveFlights  *)
(* lets pass.  The flights are their positions in the filtered snapshot.   *)
(***************************************************************************)
EXTENDS Integers, Sequences

CONSTANTS
  Width,      \* bits of an int
  MaxItems    \* bound: flights in the snapshot

VARIABLES
  items,       \* the flights
  pageNumber,  \* the page last asked for, 0 before the first
  pageLength,  \* the length it was asked for with
  page         \* the answer

vars == <<items, pageNumber, pageLength, page>>

MaxInt == 2 ^ (Width - 1) - 1

\* The int that arithmetic with the result x leaves.
Wrap(x) == ((x + 2 ^ (Width - 1)) % 2 ^ Width) - 2 ^ (Width - 1)

\* make([]T, end-start) of a negative length.
Panic == << 0 >>

Paginate(all, number, length) ==
  LET start == Wrap(Wrap(number - 1) * length)
      past == Wrap(start + length)
      end == IF past > Len(all) THEN Len(all) ELSE past
  IN  IF start < 0 \/ start >= Len(all) THEN << >>
      ELSE IF end < start THEN Panic
      ELSE SubSeq(all, start + 1, end)

Init ==
  /\ \E n \in 0 .. MaxItems : items = [i \in 1 .. n |-> i]
  /\ pageNumber = 0
  /\ pageLength = 0
  /\ page = << >>

GetActiveFlights(number, length) ==
  /\ pageNumber' = number
  /\ pageLength' = length
  /\ page' = Paginate(items, number, length)
  /\ UNCHANGED items

Next == \E number, length \in 1 .. MaxInt : GetActiveFlights(number, length)

Spec == Init /\ [][Next]_vars
-----------------------------------------------------------------------------
(* Properties.                                                             *)

\* What TestPaginatePastEndIsEmpty says of Paginate: a page past the end is
\* empty, here for every page number and page length the handler lets pass.
PastEndIsEmpty ==
  (pageNumber - 1) * pageLength >= Len(items) => page = << >>
=============================================================================
