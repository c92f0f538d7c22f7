------------------------------ MODULE RTPBridge ------------------------------
(***************************************************************************)
(* RTPBridge: the meeting point of every media source and the RTSP server. *)
(* Each source runs in a goroutine of its own (HandleTrack for a peer's    *)
(* track, TrackBroadcaster.run for an OBS track, HandleMPEGTSStream for    *)
(* all tracks that arrive by UDP) and calls TrackStarted, ExtractSPSPPS,   *)
(* WriteRTP and TrackStopped.  Those release the bridge's mutex between    *)
(* reading its state and acting on it, so an action here is one critical   *)
(* section, and sources interleave between them.                           *)
(*                                                                         *)
(* A track is one incarnation of a source: the identity that TrackStarted  *)
(* returns as trackID.  Several tracks may carry the same SSRC.            *)
(* Parameter sets (SPS, PPS) are abstracted to who supplied them.          *)
(***************************************************************************)
EXTENDS Integers, FiniteSets

CONSTANTS
  Tracks,      \* incarnations of sources
  SSRCs,
  KindOf,      \* video or audio, by track
  SSRCOf,      \* SSRC, by track
  UDPTracks,   \* tracks read by the one goroutine of HandleMPEGTSStream
  PLITracks,   \* video tracks of peers: HandleTrack registers a PLI handler
  Contents,    \* what a packet may carry: sets of parameter sets
  SDPs,        \* descriptions that carry sprop-parameter-sets
  MaxRequests, \* bound on keyframe requests waiting to run
  None

Kinds == {"video", "audio"}
Suppliers == Tracks \cup SDPs

ASSUME TrackAssumption ==
  /\ KindOf \in [Tracks -> Kinds]
  /\ SSRCOf \in [Tracks -> SSRCs]
  /\ UDPTracks \subseteq Tracks
  /\ PLITracks \subseteq Tracks \ UDPTracks
  /\ \A t \in PLITracks : KindOf[t] = "video"
ASSUME ContentsAssumption == Contents \subseteq SUBSET {"sps", "pps"}
ASSUME SentinelAssumption ==
  /\ None \notin Tracks \cup SDPs \cup SSRCs
  /\ Tracks \cap SDPs = {}
ASSUME RequestAssumption == MaxRequests \in Nat

VARIABLES
  pc,           \* where the goroutine of each track is
  found,        \* parameter sets in the packet it is handling
  sending,      \* whether the source still sends
  udpClosed,    \* whether the UDP socket has failed
  activeTracks, \* the SSRCs that are keys of activeTracks
  primarySSRC,  \* primaryVideoSSRC and primaryAudioSSRC
  activeID,     \* activeVideoTrackID and activeAudioTrackID
  sps, pps,     \* who supplied the parameter sets
  started,
  serverUp,     \* b.server is not nil
  hasRealData,  \* the server's: set, it sends no dummy packets
  stopping,     \* "no", "closed" (stopChan), "stopped"
  pliHandlers,  \* the track whose handler is registered, by SSRC
  requests,     \* calls of RequestIDR that have not run yet
  pliCalls,     \* handlers copied by RequestIDR that have not run yet
  asked         \* history: tracks asked for a keyframe by RequestIDR

trackVars == <<pc, found, sending, udpClosed>>
slotVars == <<activeTracks, primarySSRC, activeID>>
streamVars == <<sps, pps, started, serverUp, hasRealData>>
pliVars == <<pliHandlers, requests, pliCalls, asked>>
vars == <<trackVars, slotVars, streamVars, stopping, pliVars>>

Init ==
  /\ pc = [t \in Tracks |-> "idle"]
  /\ found = [t \in Tracks |-> {}]
  /\ sending = [t \in Tracks |-> TRUE]
  /\ udpClosed = FALSE
  /\ activeTracks = {}
  /\ primarySSRC = [k \in Kinds |-> None]
  /\ activeID = [k \in Kinds |-> None]
  /\ sps = None /\ pps = None
  /\ started = FALSE
  /\ serverUp = TRUE
  /\ hasRealData = FALSE
  /\ stopping = "no"
  /\ pliHandlers = [s \in SSRCs |-> None]
  /\ requests = 0
  /\ pliCalls = {}
  /\ asked = {}

Live(t) == pc[t] \in {"reading", "set", "write", "send"}
AtRest(t) == pc[t] \in {"idle", "reading", "done"}

(* All tracks of the UDP socket are handled by one goroutine.              *)
HasTurn(t) == t \in UDPTracks => \A u \in UDPTracks \ {t} : AtRest(u)

Goto(t, place) == pc' = [pc EXCEPT ![t] = place]

-----------------------------------------------------------------------------
(* The life of a track.                                                    *)

RegisterPLIHandler(t) ==
  /\ t \in PLITracks /\ pc[t] = "idle"
  /\ pliHandlers' = [pliHandlers EXCEPT ![SSRCOf[t]] = t]
  /\ Goto(t, "registered")
  /\ UNCHANGED <<found, sending, udpClosed, slotVars, streamVars, stopping,
                 requests, pliCalls, asked>>

TakesSlot_Always(t) == TRUE
TakesSlot(t) ==
  primarySSRC[KindOf[t]] \in {None, SSRCOf[t]}

(* The SSRC and the time: different for every incarnation.                 *)
TrackID_SSRC(t) == SSRCOf[t]
TrackID(t) == t

LaunchesIDR_Never(t) == FALSE
LaunchesIDR(t) == KindOf[t] = "video"

(* TrackStarted: the first track of a kind, or a new track with the SSRC   *)
(* of the primary one, becomes the one served.                             *)
TrackStarted(t) ==
  /\ pc[t] = IF t \in PLITracks THEN "registered" ELSE "idle"
  /\ t \in UDPTracks => sending[t] /\ ~udpClosed
  /\ HasTurn(t)
  /\ LaunchesIDR(t) => requests < MaxRequests
  /\ activeTracks' = activeTracks \cup {SSRCOf[t]}
  /\ IF TakesSlot(t)
       THEN /\ primarySSRC' = [primarySSRC EXCEPT ![KindOf[t]] = SSRCOf[t]]
            /\ activeID' = [activeID EXCEPT ![KindOf[t]] = TrackID(t)]
       ELSE UNCHANGED <<primarySSRC, activeID>>
  /\ requests' = IF LaunchesIDR(t) THEN requests + 1 ELSE requests
  /\ Goto(t, "reading")
  /\ UNCHANGED <<found, sending, udpClosed, streamVars, stopping,
                 pliHandlers, pliCalls, asked>>

(* A packet is read; ExtractSPSPPS looks for parameter sets in it if its   *)
(* track is the active one at this moment.                                 *)
ReadPacket(t, params) ==
  /\ pc[t] = "reading" /\ sending[t]
  /\ t \in UDPTracks => ~udpClosed
  /\ HasTurn(t)
  /\ KindOf[t] = "audio" => params = {}
  /\ IF params # {} /\ activeID["video"] = t
       THEN Goto(t, "set") /\ found' = [found EXCEPT ![t] = params]
       ELSE Goto(t, "write") /\ UNCHANGED found
  /\ UNCHANGED <<sending, udpClosed, slotVars, streamVars, stopping, pliVars>>

(* SetSPSPPS(supplier): parameter sets are only filled in when they are    *)
(* missing; when both are there tryStartLocked switches the server to real *)
(* data, after starting a new server if Stop has taken the old one away.   *)
SetSPSPPS(supplier, params) ==
  /\ sps' = IF "sps" \in params /\ sps = None THEN supplier ELSE sps
  /\ pps' = IF "pps" \in params /\ pps = None THEN supplier ELSE pps
  /\ IF started \/ sps' = None \/ pps' = None
       THEN UNCHANGED <<started, serverUp, hasRealData>>
       ELSE \/ started' = TRUE /\ serverUp' = TRUE /\ hasRealData' = TRUE
            \/ ~serverUp /\ UNCHANGED <<started, serverUp, hasRealData>>

SetParams(t) ==
  /\ pc[t] = "set"
  /\ SetSPSPPS(t, found[t])
  /\ found' = [found EXCEPT ![t] = {}]
  /\ Goto(t, "write")
  /\ UNCHANGED <<sending, udpClosed, slotVars, stopping, pliVars>>

(* WriteRTP decides under the mutex whether the track is served, ...       *)
CheckActive(t) ==
  /\ pc[t] = "write"
  /\ Goto(t, IF t \in {activeID["video"], activeID["audio"]} THEN "send" ELSE "reading")
  /\ UNCHANGED <<found, sending, udpClosed, slotVars, streamVars, stopping, pliVars>>

(* ... and hands the packet to the listeners and to rtpChan without it.    *)
SendPacket(t) ==
  /\ pc[t] = "send"
  /\ Goto(t, "reading")
  /\ UNCHANGED <<found, sending, udpClosed, slotVars, streamVars, stopping, pliVars>>

Frees_Swapped(t, k) == primarySSRC[k] = SSRCOf[t] /\ activeID[k] # t
Frees(t, k) == primarySSRC[k] = SSRCOf[t] /\ activeID[k] = t

TrackStopped_KeepsID(t) ==
  /\ pc[t] = "reading"
  /\ t \in UDPTracks => udpClosed
  /\ HasTurn(t)
  /\ activeTracks' = activeTracks \ {SSRCOf[t]}
  /\ primarySSRC' = [k \in Kinds |-> IF Frees(t, k) THEN None ELSE primarySSRC[k]]
  /\ Goto(t, "unregister")
  /\ UNCHANGED <<activeID, found, sending, udpClosed, streamVars, stopping, pliVars>>

(* TrackStopped, first section: a peer's or OBS track has failed or timed  *)
(* out, or the UDP socket has.                                             *)
TrackStopped(t) ==
  /\ pc[t] = "reading"
  /\ t \in UDPTracks => udpClosed
  /\ HasTurn(t)
  /\ activeTracks' = activeTracks \ {SSRCOf[t]}
  /\ primarySSRC' = [k \in Kinds |-> IF Frees(t, k) THEN None ELSE primarySSRC[k]]
  /\ activeID' = [k \in Kinds |-> IF Frees(t, k) THEN None ELSE activeID[k]]
  /\ Goto(t, "unregister")
  /\ UNCHANGED <<found, sending, udpClosed, streamVars, stopping, pliVars>>

DropPLIHandler_Kept(t) ==
  /\ pc[t] = "unregister"
  /\ Goto(t, "release")
  /\ UNCHANGED <<found, sending, udpClosed, slotVars, streamVars, stopping, pliVars>>

(* Second section, under pliMu.                                            *)
DropPLIHandler(t) ==
  /\ pc[t] = "unregister"
  /\ pliHandlers' = [pliHandlers EXCEPT ![SSRCOf[t]] = None]
  /\ Goto(t, "release")
  /\ UNCHANGED <<found, sending, udpClosed, slotVars, streamVars, stopping,
                 requests, pliCalls, asked>>

NoneActive_Unchecked == TRUE
NoneActive == activeTracks = {}

EndStream_KeepsPPS ==
  hasRealData' = FALSE /\ started' = FALSE /\ sps' = None /\ UNCHANGED pps
EndStream_StaysStarted ==
  hasRealData' = FALSE /\ sps' = None /\ pps' = None /\ UNCHANGED started
EndStream ==
  hasRealData' = FALSE /\ started' = FALSE /\ sps' = None /\ pps' = None

(* Third section: without any active track the stream ends.                *)
ReleaseStream(t) ==
  /\ pc[t] = "release"
  /\ IF NoneActive THEN EndStream ELSE UNCHANGED <<hasRealData, started, sps, pps>>
  /\ Goto(t, "done")
  /\ UNCHANGED <<found, sending, udpClosed, slotVars, serverUp, stopping, pliVars>>

-----------------------------------------------------------------------------
(* Sources, descriptions, keyframe requests, shutdown.                     *)

SourceEnds(t) ==
  /\ sending[t]
  /\ sending' = [sending EXCEPT ![t] = FALSE]
  /\ UNCHANGED <<pc, found, udpClosed, slotVars, streamVars, stopping, pliVars>>

UDPReadError ==
  /\ UDPTracks # {} /\ ~udpClosed
  /\ \A t \in UDPTracks : AtRest(t)
  /\ udpClosed' = TRUE
  /\ UNCHANGED <<pc, found, sending, slotVars, streamVars, stopping, pliVars>>

(* An offer or an answer with parameter sets arrives by signaling.         *)
ExtractSPSPPSFromSDP(d) ==
  /\ SetSPSPPS(d, {"sps", "pps"})
  /\ UNCHANGED <<trackVars, slotVars, stopping, pliVars>>

(* An RTSP client starts to play: OnPlay calls RequestIDR.                 *)
OnPlay ==
  /\ serverUp /\ stopping = "no"
  /\ requests < MaxRequests
  /\ requests' = requests + 1
  /\ UNCHANGED <<trackVars, slotVars, streamVars, stopping, pliHandlers, pliCalls, asked>>

RequestIDR ==
  /\ requests > 0
  /\ requests' = requests - 1
  /\ pliCalls' = pliCalls \cup {t \in Tracks : pliHandlers[SSRCOf[t]] = t}
  /\ UNCHANGED <<trackVars, slotVars, streamVars, stopping, pliHandlers, asked>>

SendPLI(t) ==
  /\ t \in pliCalls
  /\ pliCalls' = pliCalls \ {t}
  /\ asked' = asked \cup {t}
  /\ UNCHANGED <<trackVars, slotVars, streamVars, stopping, pliHandlers, requests>>

(* Stop closes stopChan and waits for the sender goroutine; then, under    *)
(* the mutex, it closes the server.                                        *)
CloseStopChan ==
  /\ stopping = "no"
  /\ stopping' = "closed"
  /\ UNCHANGED <<trackVars, slotVars, streamVars, pliVars>>

CloseServer ==
  /\ stopping = "closed"
  /\ stopping' = "stopped"
  /\ serverUp' = FALSE
  /\ hasRealData' = FALSE
  /\ started' = FALSE
  /\ UNCHANGED <<trackVars, slotVars, sps, pps, pliVars>>

-----------------------------------------------------------------------------

Handle(t) ==
  \/ SetParams(t)
  \/ CheckActive(t)
  \/ SendPacket(t)
  \/ DropPLIHandler(t)
  \/ ReleaseStream(t)

Track(t) ==
  \/ RegisterPLIHandler(t)
  \/ TrackStarted(t)
  \/ \E params \in Contents : ReadPacket(t, params)
  \/ TrackStopped(t)
  \/ Handle(t)
  \/ SourceEnds(t)
  \/ SendPLI(t)

Next ==
  \/ \E t \in Tracks : Track(t)
  \/ UDPReadError
  \/ \E d \in SDPs : ExtractSPSPPSFromSDP(d)
  \/ OnPlay
  \/ RequestIDR
  \/ CloseStopChan
  \/ CloseServer

Spec == Init /\ [][Next]_vars

(***************************************************************************)
(* Goroutines keep running.  A read of a track whose source has gone       *)
(* silent fails at its deadline (15 s in HandleTrack, 5 s in the           *)
(* broadcaster); the UDP socket has no deadline, so nothing makes it fail. *)
(***************************************************************************)
Fairness ==
  /\ \A t \in Tracks :
       /\ WF_vars(Handle(t))
       /\ WF_vars(SendPLI(t))
       /\ WF_vars(~sending[t] /\ TrackStopped(t))
  /\ WF_vars(RequestIDR)

FairSpec == Spec /\ Fairness

-----------------------------------------------------------------------------
(* Properties.                                                             *)

TypeOK ==
  /\ pc \in [Tracks -> {"idle", "registered", "reading", "set", "write",
                        "send", "unregister", "release", "done"}]
  /\ found \in [Tracks -> SUBSET {"sps", "pps"}]
  /\ sending \in [Tracks -> BOOLEAN]
  /\ udpClosed \in BOOLEAN
  /\ activeTracks \in SUBSET SSRCs
  /\ primarySSRC \in [Kinds -> SSRCs \cup {None}]
  /\ activeID \in [Kinds -> Tracks \cup {None}]
  /\ sps \in Suppliers \cup {None}
  /\ pps \in Suppliers \cup {None}
  /\ started \in BOOLEAN
  /\ serverUp \in BOOLEAN
  /\ hasRealData \in BOOLEAN
  /\ stopping \in {"no", "closed", "stopped"}
  /\ pliHandlers \in [SSRCs -> Tracks \cup {None}]
  /\ requests \in 0 .. MaxRequests
  /\ pliCalls \in SUBSET Tracks
  /\ asked \in SUBSET Tracks

(***************************************************************************)
(* The two halves of a slot agree: the primary SSRC is set exactly when    *)
(* there is an active track, and is that track's.  Were they to disagree,  *)
(* the slot could never be freed again, because TrackStopped compares      *)
(* both.                                                                   *)
(***************************************************************************)
SlotsConsistent ==
  \A k \in Kinds :
    /\ activeID[k] = None <=> primarySSRC[k] = None
    /\ activeID[k] # None =>
         KindOf[activeID[k]] = k /\ primarySSRC[k] = SSRCOf[activeID[k]]

(***************************************************************************)
(* A slot is never held by a track that has stopped: such a slot would     *)
(* keep every later source out.                                            *)
(***************************************************************************)
ActiveIsLive == \A k \in Kinds : activeID[k] # None => Live(activeID[k])

(***************************************************************************)
(* The bridge and the server agree on whether real data is served, which   *)
(* silences the dummy loop; the stream is on exactly when both parameter   *)
(* sets are known, unless the bridge has been stopped.                     *)
(***************************************************************************)
StreamMatchesServer ==
  /\ started = hasRealData
  /\ started => serverUp
  /\ started => sps # None /\ pps # None
  /\ stopping # "stopped" => (sps # None /\ pps # None => started)

(***************************************************************************)
(* Parameter sets outlive the track that sent them only while another      *)
(* track is live or is still on its way out: once the last one has gone,   *)
(* the next stream starts afresh, and the dummy loop is back.              *)
(***************************************************************************)
Leaving(t) == pc[t] \in {"unregister", "release"}

ParametersDieWithLastTrack ==
  \A t \in {sps, pps} \cap Tracks :
    Live(t) \/ \E u \in Tracks : Live(u) \/ Leaving(u)

(* A later or earlier track of the same SSRC has come in between.          *)
Displaced(t) == \E u \in Tracks \ {t} : SSRCOf[u] = SSRCOf[t] /\ pc[u] # "idle"

(***************************************************************************)
(* A live video track of a peer can be asked for a keyframe, unless the    *)
(* handler of its SSRC was taken over or removed on behalf of another      *)
(* track with that SSRC; and no handler of a finished track is left.       *)
(***************************************************************************)
KeyframeHandlers ==
  /\ \A t \in PLITracks : Live(t) =>
       pliHandlers[SSRCOf[t]] = t \/ Displaced(t)
  /\ \A s \in SSRCs : pliHandlers[s] # None =>
       SSRCOf[pliHandlers[s]] = s /\ pc[pliHandlers[s]] \notin {"idle", "release", "done"}

(***************************************************************************)
(* The server goes back to dummy packets only when no track is served:     *)
(* the end of one track never cuts off another ("RTSP Bridge:              *)
(* Automatically serves ingested streams over RTSP", README.md).           *)
(***************************************************************************)
ServedStreamGoesOn ==
  [][hasRealData /\ ~hasRealData' /\ stopping' # "stopped"
       => \A k \in Kinds : activeID[k] = None]_vars

Slots == INSTANCE MediaSlots WITH
  StreamOf <- SSRCOf,
  live <- {t \in Tracks : Live(t)},
  owner <- activeID,
  admitted <- {t \in Tracks : pc[t] = "send"}

(* The bridge implements the ownership of slots: see MediaSlots.           *)
ImplementsSlots == Slots!Spec

(***************************************************************************)
(* A peer's or OBS source that goes silent gives its slot up, so that a    *)
(* new one can take it.                                                    *)
(***************************************************************************)
Holds(t) == activeID[KindOf[t]] = t

SilentSourceYields ==
  \A t \in Tracks \ UDPTracks : (~sending[t] /\ Holds(t)) ~> ~Holds(t)

(***************************************************************************)
(* A peer's video track is asked for a keyframe after it has started, as   *)
(* its handler is registered before TrackStarted launches RequestIDR,      *)
(* unless the peer's next track with that SSRC takes the handler over.     *)
(***************************************************************************)
KeyframeRequested ==
  \A t \in PLITracks :
    (pc[t] = "reading") ~> (t \in asked \/ pc[t] = "done" \/ Displaced(t))
=============================================================================
