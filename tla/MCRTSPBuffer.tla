---------------------------- MODULE MCRTSPBuffer ----------------------------
(* Values of the constants of RTSPBuffer for TLC.                          *)
EXTENDS RTSPBuffer

(***************************************************************************)
(* A video source whose sequence numbers and timestamps wrap around, one   *)
(* packet of it a long time later, and one audio packet.                   *)
(***************************************************************************)
MCInputs == {[kind |-> "video", seq |-> 4, ts |-> 14],
             [kind |-> "video", seq |-> 0, ts |-> 1],
             [kind |-> "video", seq |-> 1, ts |-> 3],
             [kind |-> "video", seq |-> 2, ts |-> 9],
             [kind |-> "audio", seq |-> 3, ts |-> 0]}

(* One burst of video, for the liveness properties.                        *)
MCBurst == {[kind |-> "video", seq |-> 0, ts |-> 1],
            [kind |-> "video", seq |-> 2, ts |-> 3],
            [kind |-> "video", seq |-> 3, ts |-> 0]}
=============================================================================
