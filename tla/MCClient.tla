-------------------------------- MODULE MCClient -------------------------------
(* Values of the constants of Client for TLC. *)
EXTENDS Client

Live(c) == [container |-> c, lowLatency |-> FALSE]
LowLatency(c) == [container |-> c, lowLatency |-> TRUE]

\* A leading stream and a rendition.
TracksOneOne == << 1, 1 >>

\* All of one kind, and the two mixed.
FormatsTwo ==
    {<< Live("FMP4"), Live("FMP4") >>, << Live("MPEGTS"), Live("MPEGTS") >>,
     << Live("MPEGTS"), Live("FMP4") >>, << Live("FMP4"), Live("MPEGTS") >>}

TracksTwo == << 2 >>
TracksOne == << 1 >>
FormatsTS == {<< Live("MPEGTS") >>}
FormatsOne == {<< Live("FMP4") >>, << Live("MPEGTS") >>, << LowLatency("FMP4") >>}
================================================================================
