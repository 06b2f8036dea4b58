------------------------------ MODULE MCSegmenter ------------------------------
(***************************************************************************)
(* The muxers and the timestamps of the run of Segmenter.  A duration is   *)
(* in 1/2000 s and a tick is 1 ms: the samples of the leading track last   *)
(* 0, 0.8 or 1.2 s or go back, those of the other track last 0.5 s or go   *)
(* back.  A part lasts 1 s at least, a segment 1.2 s.                      *)
(***************************************************************************)
EXTENDS Segmenter

MCMuxers == {<< "LL", "VP9" >>, << "FMP4", "AV1" >>, << "MPEGTS", "H26x" >>, << "MPEGTS", "audio" >>}

MCDeltas == << {-200, 0, 803, 1200}, {-200, 500} >>

MCMaxSamples == << 5, 2 >>
================================================================================
