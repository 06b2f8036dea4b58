-------------------------------- MODULE MCMuxer --------------------------------
(* Values of the constants of Muxer for TLC. *)
EXTENDS Muxer

Ask(kind, s, id, part) == [kind |-> kind, stream |-> s, id |-> id, part |-> part]

\* A Low-Latency muxer with two gaps: identifiers of segments start at 2.
TargetsLL ==
    {Ask("index", 1, 0, 0), Ask("playlist", 2, 0, 0), Ask("segment", 1, 2, 0)}
        \union {Ask("reload", 1, msn, part) : msn \in 1..4, part \in 0..2}
        \union {Ask("part", 2, id, 0) : id \in 1..3}

TargetsFaults ==
    {Ask("index", 1, 0, 0), Ask("playlist", 1, 0, 0),
     Ask("reload", 2, 3, 0), Ask("reload", 2, 3, 1), Ask("part", 2, 1, 0)}

\* A muxer without parts: identifiers of segments start at 0.
TargetsFMP4 ==
    {Ask("index", 1, 0, 0), Ask("playlist", 1, 0, 0), Ask("playlist", 2, 0, 0),
     Ask("segment", 2, 0, 0)}
================================================================================
