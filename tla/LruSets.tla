------------------------------ MODULE LruSets ------------------------------
(***************************************************************************)
(* What an exact LRU cache promises, with no ways, ticks or victims: every *)
(* set is a list of lines, most recently used first, of at most Ways       *)
(* lines.  A used line moves to the front and what no longer fits falls    *)
(* off the end.  A request that does not allocate (a store may be one)     *)
(* bypasses a set that does not hold its line.                             *)
(***************************************************************************)
EXTENDS Naturals, Sequences

CONSTANTS Sets, Ways, Line

VARIABLES recency,    \* per set, its lines from most to least recently used
          requests,   \* the lines asked for, in order, and whether each allocates
          hits

SetIndex == 0 .. Sets - 1
SetOf(line) == line % Sets
Holds(line) == \E i \in DOMAIN recency[SetOf(line)] : recency[SetOf(line)][i] = line

\* The entry of a list that a line takes: its own, or else the one behind the
\* end, or else the last of a full list.
PlaceOf(list, line) ==
    IF \E i \in DOMAIN list : list[i] = line THEN CHOOSE i \in DOMAIN list : list[i] = line
    ELSE IF Len(list) < Ways THEN Len(list) + 1
    ELSE Ways

\* The line comes first, and what stood before its place moves back by one.
MovedToFront(list, line) ==
    LET place == PlaceOf(list, line)
    IN  [i \in DOMAIN list \cup {place} |->
            IF i = 1 THEN line ELSE IF i <= place THEN list[i - 1] ELSE list[i]]

Init ==
    /\ recency = [s \in SetIndex |-> <<>>]
    /\ requests = <<>>
    /\ hits = 0

Request(line, allocates) == [line |-> line, allocates |-> allocates]

Use(line, allocates) ==
    /\ Holds(line) \/ allocates
    /\ recency' = [recency EXCEPT ![SetOf(line)] = MovedToFront(@, line)]
    /\ requests' = Append(requests, Request(line, allocates))
    /\ hits' = IF Holds(line) THEN hits + 1 ELSE hits

Bypass(line) ==
    /\ ~Holds(line)
    /\ requests' = Append(requests, Request(line, FALSE))
    /\ UNCHANGED <<recency, hits>>

Next == \E line \in Line : Bypass(line) \/ \E allocates \in BOOLEAN : Use(line, allocates)

Spec == Init /\ [][Next]_<<recency, requests, hits>>
=============================================================================
