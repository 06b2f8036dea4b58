------------------------------ MODULE LiveWindow ------------------------------
(***************************************************************************)
(* What a live media playlist promises to a player that reads it again and *)
(* again (RFC 8216 6.2.1, 6.2.2, and its Low-Latency extension), whatever  *)
(* is behind it: the entry that has a given media sequence number never    *)
(* changes once it is listed, entries enter at the end and leave at the    *)
(* front one at a time, and the parts listed for the segment being written *)
(* are only added to, until they become the parts of the finished segment. *)
(***************************************************************************)
EXTENDS Integers, Sequences

CONSTANTS
    Capacity,   \* the window never holds more entries
    Fillers     \* the entries put before the first segment

VARIABLES
    first,      \* EXT-X-MEDIA-SEQUENCE, the number of the first entry
    window,     \* the entries, of numbers first, first + 1, ...
    parts       \* the parts of the segment being written

vars == << first, window, parts >>

Init == first = 0 /\ window = << >> /\ parts = << >>

\* s extends t by n elements.
Extends(s, t, n) == Len(s) = Len(t) + n /\ \A i \in 1..Len(t) : s[i] = t[i]

AddPart ==
    /\ Extends(parts', parts, 1)
    /\ UNCHANGED << first, window >>

\* The segment that has just been finished carries the next number and the
\* parts that had been listed, and may push one entry out.
AddSegment ==
    LET shown == IF window = << >> THEN Fillers ELSE window
        added == window'[Len(window')]
        number == first + Len(shown)
    IN  /\ first' \in {first, first + 1}
        /\ Len(window') = number + 1 - first'
        /\ Len(window') <= Capacity
        /\ \A i \in 1..Len(window') - 1 : window'[i] = shown[i + first' - first]
        /\ added.id = number
        /\ \E n \in {0, 1} : Extends(added.parts, parts, n)
        /\ parts' = << >>

Next == AddPart \/ AddSegment

Spec == Init /\ [][Next]_vars
================================================================================
