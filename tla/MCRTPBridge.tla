----------------------------- MODULE MCRTPBridge -----------------------------
(* Values of the constants of RTPBridge for TLC: by families of tracks.     *)
EXTENDS RTPBridge

CONSTANTS v1, v2, w, u1, u2, s1, s2, s3, offer

(* Two tracks with one SSRC, as when a peer reconnects, and a third.       *)
SameTracks == {v1, v2, w}
SameSSRCs == {s1, s2}
SameKind == [t \in SameTracks |-> "video"]
SameSSRC == [t \in SameTracks |-> IF t = w THEN s2 ELSE s1]

(* A publisher that sends video and audio by UDP, and a peer's video.      *)
Sources == {u1, u2, w}
SourcesSSRCs == {s1, s2, s3}
SourcesUDP == {u1, u2}
SourcesKind == [t \in Sources |-> IF t = u2 THEN "audio" ELSE "video"]
SourcesSSRC == [t \in Sources |-> CASE t = u1 -> s1 [] t = u2 -> s3 [] OTHER -> s2]

(* What packets may carry: anything, or nothing of interest.               *)
AnyContents == SUBSET {"sps", "pps"}
NoContents == {{}}
=============================================================================
