--------------------------- MODULE RTPBridgeProofs ---------------------------
(* Theorems about RTPBridge, for any set of tracks, SSRCs and sources.     *)
EXTENDS RTPBridge, TLAPS

(* The keys of activeTracks belong to live tracks, and only Stop takes the *)
(* server away: what the properties need to be inductive.                  *)
ActiveTracksAreLive ==
  \A s \in activeTracks : \E t \in Tracks : Live(t) /\ SSRCOf[t] = s

ServerUntilStopped == stopping # "stopped" => serverUp

Inv ==
  /\ TypeOK
  /\ SlotsConsistent
  /\ ActiveIsLive
  /\ ActiveTracksAreLive
  /\ ServerUntilStopped
  /\ StreamMatchesServer
  /\ ParametersDieWithLastTrack

LEMMA Constants ==
  /\ KindOf \in [Tracks -> Kinds] /\ SSRCOf \in [Tracks -> SSRCs]
  /\ None \notin Tracks /\ None \notin SDPs /\ None \notin SSRCs
  /\ MaxRequests \in Nat
  /\ "video" \in Kinds /\ "audio" \in Kinds
BY TrackAssumption, SentinelAssumption, RequestAssumption DEF Kinds

LEMMA InitInv == Init => Inv
<1> SUFFICES ASSUME Init PROVE Inv
  OBVIOUS
<1>1. TypeOK
  <2>1. found \in [Tracks -> SUBSET {"sps", "pps"}]
    BY DEF Init
  <2>2. /\ pc \in [Tracks -> {"idle", "registered", "reading", "set", "write",
                               "send", "unregister", "release", "done"}]
        /\ sending \in [Tracks -> BOOLEAN]
        /\ primarySSRC \in [Kinds -> SSRCs \cup {None}]
        /\ activeID \in [Kinds -> Tracks \cup {None}]
        /\ pliHandlers \in [SSRCs -> Tracks \cup {None}]
    BY DEF Init
  <2>3. /\ requests \in 0 .. MaxRequests
        /\ sps \in Suppliers \cup {None} /\ pps \in Suppliers \cup {None}
        /\ activeTracks \in SUBSET SSRCs
        /\ pliCalls \in SUBSET Tracks /\ asked \in SUBSET Tracks
    BY Constants DEF Init
  <2>4. QED
    BY <2>1, <2>2, <2>3 DEF Init, TypeOK
<1>2. SlotsConsistent /\ ActiveIsLive
  BY Constants DEF Init, SlotsConsistent, ActiveIsLive
<1>3. ServerUntilStopped /\ StreamMatchesServer
  BY DEF Init, ServerUntilStopped, StreamMatchesServer
<1>4. ActiveTracksAreLive /\ ParametersDieWithLastTrack
  BY Constants DEF Init, ActiveTracksAreLive, ParametersDieWithLastTrack
<1>5. QED
  BY <1>1, <1>2, <1>3, <1>4 DEF Inv

LEMMA TypeStep == TypeOK /\ [Next]_vars => TypeOK'
<1> SUFFICES ASSUME TypeOK, [Next]_vars PROVE TypeOK'
  OBVIOUS
<1> USE Constants DEF TypeOK
<1>1. ASSUME NEW t \in Tracks, RegisterPLIHandler(t) PROVE TypeOK'
  BY <1>1 DEF RegisterPLIHandler, Goto, slotVars, streamVars
<1>2. ASSUME NEW t \in Tracks, TrackStarted(t) PROVE TypeOK'
  BY <1>2 DEF TrackStarted, TrackID, LaunchesIDR, Goto, streamVars
<1>3. ASSUME NEW t \in Tracks, NEW params \in Contents, ReadPacket(t, params)
      PROVE  TypeOK'
  <2>1. CASE params # {} /\ activeID["video"] = t
    <3>1. found' = [found EXCEPT ![t] = params]
      BY <1>3, <2>1 DEF ReadPacket
    <3>2. found' \in [Tracks -> SUBSET {"sps", "pps"}]
      BY <3>1, ContentsAssumption
    <3>3. QED
      BY <1>3, <2>1, <3>2 DEF ReadPacket, Goto, slotVars, streamVars, pliVars
  <2>2. CASE ~(params # {} /\ activeID["video"] = t)
    BY <1>3, <2>2 DEF ReadPacket, Goto, slotVars, streamVars, pliVars
  <2>3. QED
    BY <2>1, <2>2
<1>4. ASSUME NEW t \in Tracks, SetParams(t) PROVE TypeOK'
  BY <1>4 DEF SetParams, SetSPSPPS, Suppliers, Goto, slotVars, pliVars
<1>5. ASSUME NEW t \in Tracks, CheckActive(t) \/ SendPacket(t) PROVE TypeOK'
  BY <1>5 DEF CheckActive, SendPacket, Goto, slotVars, streamVars, pliVars
<1>6. ASSUME NEW t \in Tracks, TrackStopped(t) PROVE TypeOK'
  BY <1>6 DEF TrackStopped, Goto, streamVars, pliVars
<1>7. ASSUME NEW t \in Tracks, DropPLIHandler(t) PROVE TypeOK'
  BY <1>7 DEF DropPLIHandler, Goto, slotVars, streamVars
<1>8. ASSUME NEW t \in Tracks, ReleaseStream(t) PROVE TypeOK'
  BY <1>8 DEF ReleaseStream, EndStream, Goto, slotVars, pliVars
<1>9. ASSUME NEW t \in Tracks, SourceEnds(t) \/ SendPLI(t) PROVE TypeOK'
  BY <1>9 DEF SourceEnds, SendPLI, trackVars, slotVars, streamVars, pliVars
<1>10. ASSUME NEW d \in SDPs, ExtractSPSPPSFromSDP(d) PROVE TypeOK'
  BY <1>10 DEF ExtractSPSPPSFromSDP, SetSPSPPS, Suppliers, trackVars, slotVars, pliVars
<1>11. CASE UDPReadError \/ OnPlay \/ RequestIDR
  <2>1. CASE UDPReadError
    BY <2>1 DEF UDPReadError, slotVars, streamVars, pliVars
  <2>2. CASE OnPlay
    BY <2>2 DEF OnPlay, trackVars, slotVars, streamVars, pliVars
  <2>3. CASE RequestIDR
    BY <2>3 DEF RequestIDR, trackVars, slotVars, streamVars, pliVars
  <2>4. QED
    BY <1>11, <2>1, <2>2, <2>3
<1>12. CASE CloseStopChan \/ CloseServer
  BY <1>12 DEF CloseStopChan, CloseServer, trackVars, slotVars, streamVars, pliVars
<1>13. CASE UNCHANGED vars
  BY <1>13 DEF vars, trackVars, slotVars, streamVars, pliVars
<1>14. QED
  BY <1>1, <1>2, <1>3, <1>4, <1>5, <1>6, <1>7, <1>8, <1>9, <1>10, <1>11,
     <1>12, <1>13
  DEF Next, Track, Handle

-----------------------------------------------------------------------------
(* A step of a track moves it between places; what the invariant reads of  *)
(* the places is which tracks are live and which are on their way out.     *)

LEMMA SlotStep == Inv /\ [Next]_vars => SlotsConsistent' /\ ActiveIsLive'
<1> SUFFICES ASSUME Inv, [Next]_vars PROVE SlotsConsistent' /\ ActiveIsLive'
  OBVIOUS
<1> USE Constants DEF Inv, TypeOK, SlotsConsistent, ActiveIsLive, Live
<1>1. ASSUME NEW t \in Tracks, TrackStarted(t)
      PROVE  SlotsConsistent' /\ ActiveIsLive'
  <2>1. SlotsConsistent'
    BY <1>1 DEF TrackStarted, TakesSlot, TrackID
  <2>2. ActiveIsLive'
    BY <1>1 DEF TrackStarted, TakesSlot, TrackID, Goto
  <2>3. QED
    BY <2>1, <2>2
<1>2. ASSUME NEW t \in Tracks, TrackStopped(t)
      PROVE  SlotsConsistent' /\ ActiveIsLive'
  <2>1. SlotsConsistent'
    BY <1>2 DEF TrackStopped, Frees
  <2>2. ASSUME NEW k \in Kinds, activeID'[k] # None
        PROVE  activeID[k] = activeID'[k] /\ activeID[k] # t
    BY <1>2, <2>2 DEF TrackStopped, Frees
  <2>3. ActiveIsLive'
    BY <1>2, <2>2 DEF TrackStopped, Goto
  <2>4. QED
    BY <2>1, <2>3
<1>3. ASSUME NEW t \in Tracks,
             \/ RegisterPLIHandler(t) \/ DropPLIHandler(t) \/ ReleaseStream(t)
             \/ \E params \in Contents : ReadPacket(t, params)
             \/ SetParams(t) \/ CheckActive(t) \/ SendPacket(t)
      PROVE  SlotsConsistent' /\ ActiveIsLive'
  <2>1. UNCHANGED slotVars /\ pc' = [pc EXCEPT ![t] = pc'[t]]
        /\ (Live(t) => Live(t)')
    BY <1>3
    DEF RegisterPLIHandler, DropPLIHandler, ReleaseStream, ReadPacket, SetParams,
        CheckActive, SendPacket, Goto
  <2>2. QED
    BY <2>1 DEF slotVars
<1>4. ASSUME UNCHANGED <<pc, slotVars>>
      PROVE  SlotsConsistent' /\ ActiveIsLive'
  BY <1>4 DEF slotVars
<1>5. QED
  <2>1. ASSUME NEW t \in Tracks, SourceEnds(t) \/ SendPLI(t)
        PROVE  UNCHANGED <<pc, slotVars>>
    BY <2>1 DEF SourceEnds, SendPLI, trackVars
  <2>2. ASSUME NEW d \in SDPs, ExtractSPSPPSFromSDP(d)
        PROVE  UNCHANGED <<pc, slotVars>>
    BY <2>2 DEF ExtractSPSPPSFromSDP, trackVars
  <2>3. CASE UDPReadError \/ OnPlay \/ RequestIDR \/ CloseStopChan \/ CloseServer
    BY <2>3, <1>4
    DEF UDPReadError, OnPlay, RequestIDR, CloseStopChan, CloseServer, trackVars
  <2>4. CASE UNCHANGED vars
    BY <2>4, <1>4 DEF vars, trackVars
  <2>5. QED
    BY <1>1, <1>2, <1>3, <1>4, <2>1, <2>2, <2>3, <2>4 DEF Next, Track, Handle

(* Only TrackStopped removes a key of activeTracks, and it is the key of   *)
(* the track that ceases to be live.                                       *)
LEMMA ActiveTracksStep == Inv /\ [Next]_vars => ActiveTracksAreLive'
<1> SUFFICES ASSUME Inv, [Next]_vars PROVE ActiveTracksAreLive'
  OBVIOUS
<1> USE Constants DEF Inv, TypeOK, ActiveTracksAreLive, Live
<1>1. ASSUME NEW t \in Tracks, TrackStarted(t) PROVE ActiveTracksAreLive'
  <2>1. activeTracks' = activeTracks \cup {SSRCOf[t]}
        /\ pc' = [pc EXCEPT ![t] = "reading"]
    BY <1>1 DEF TrackStarted, Goto
  <2>2. QED
    BY <2>1
<1>2. ASSUME NEW t \in Tracks, TrackStopped(t) PROVE ActiveTracksAreLive'
  <2>1. activeTracks' = activeTracks \ {SSRCOf[t]}
        /\ pc' = [pc EXCEPT ![t] = "unregister"]
    BY <1>2 DEF TrackStopped, Goto
  <2>2. QED
    BY <2>1
<1>3. ASSUME NEW t \in Tracks,
             \/ RegisterPLIHandler(t) \/ DropPLIHandler(t) \/ ReleaseStream(t)
             \/ \E params \in Contents : ReadPacket(t, params)
             \/ SetParams(t) \/ CheckActive(t) \/ SendPacket(t)
      PROVE  ActiveTracksAreLive'
  <2>1. UNCHANGED slotVars /\ pc' = [pc EXCEPT ![t] = pc'[t]]
        /\ (Live(t) => Live(t)')
    BY <1>3
    DEF RegisterPLIHandler, DropPLIHandler, ReleaseStream, ReadPacket, SetParams,
        CheckActive, SendPacket, Goto
  <2>2. QED
    BY <2>1 DEF slotVars
<1>4. ASSUME UNCHANGED <<pc, slotVars>> PROVE ActiveTracksAreLive'
  BY <1>4 DEF slotVars
<1>5. QED
  <2>1. ASSUME NEW t \in Tracks, SourceEnds(t) \/ SendPLI(t)
        PROVE  UNCHANGED <<pc, slotVars>>
    BY <2>1 DEF SourceEnds, SendPLI, trackVars
  <2>2. ASSUME NEW d \in SDPs, ExtractSPSPPSFromSDP(d)
        PROVE  UNCHANGED <<pc, slotVars>>
    BY <2>2 DEF ExtractSPSPPSFromSDP, trackVars
  <2>3. CASE UDPReadError \/ OnPlay \/ RequestIDR \/ CloseStopChan \/ CloseServer
    BY <2>3, <1>4
    DEF UDPReadError, OnPlay, RequestIDR, CloseStopChan, CloseServer, trackVars
  <2>4. CASE UNCHANGED vars
    BY <2>4, <1>4 DEF vars, trackVars
  <2>5. QED
    BY <1>1, <1>2, <1>3, <1>4, <2>1, <2>2, <2>3, <2>4 DEF Next, Track, Handle

-----------------------------------------------------------------------------
(* The stream, its parameter sets and the server.                          *)

LEMMA SetSPSPPSKeeps ==
  ASSUME Inv, NEW supplier \in Suppliers, NEW params \in SUBSET {"sps", "pps"},
         SetSPSPPS(supplier, params), UNCHANGED stopping
  PROVE  ServerUntilStopped' /\ StreamMatchesServer'
<1>1. supplier # None
  BY Constants DEF Suppliers
<1>2. sps' \in {sps, supplier} /\ pps' \in {pps, supplier}
      /\ (sps # None => sps' # None) /\ (pps # None => pps' # None)
  BY <1>1 DEF SetSPSPPS
<1>3. CASE started \/ sps' = None \/ pps' = None
  BY <1>2, <1>3 DEF SetSPSPPS, Inv, ServerUntilStopped, StreamMatchesServer
<1>4. CASE ~(started \/ sps' = None \/ pps' = None)
  BY <1>2, <1>4 DEF SetSPSPPS, Inv, TypeOK, ServerUntilStopped, StreamMatchesServer
<1>5. QED
  BY <1>3, <1>4

LEMMA StreamStep == Inv /\ [Next]_vars => ServerUntilStopped' /\ StreamMatchesServer'
<1> DEFINE Goal == ServerUntilStopped' /\ StreamMatchesServer'
<1> SUFFICES ASSUME Inv, [Next]_vars PROVE Goal
  OBVIOUS
<1>1. ASSUME NEW t \in Tracks, SetParams(t) PROVE Goal
  BY <1>1, SetSPSPPSKeeps, Constants DEF SetParams, Suppliers, Inv, TypeOK
<1>2. ASSUME NEW d \in SDPs, ExtractSPSPPSFromSDP(d) PROVE Goal
  BY <1>2, SetSPSPPSKeeps DEF ExtractSPSPPSFromSDP, Suppliers
<1>3. ASSUME NEW t \in Tracks, ReleaseStream(t) PROVE Goal
  BY <1>3
  DEF ReleaseStream, EndStream, Inv, TypeOK, ServerUntilStopped, StreamMatchesServer
<1>4. CASE CloseStopChan
  BY <1>4 DEF CloseStopChan, streamVars, Inv, TypeOK, ServerUntilStopped, StreamMatchesServer
<1>5. CASE CloseServer
  BY <1>5 DEF CloseServer, ServerUntilStopped, StreamMatchesServer
<1>6. ASSUME UNCHANGED <<streamVars, stopping>> PROVE Goal
  BY <1>6 DEF streamVars, Inv, ServerUntilStopped, StreamMatchesServer
<1>7. ASSUME NEW t \in Tracks,
             \/ RegisterPLIHandler(t) \/ TrackStarted(t) \/ TrackStopped(t)
             \/ \E params \in Contents : ReadPacket(t, params)
             \/ CheckActive(t) \/ SendPacket(t) \/ DropPLIHandler(t)
             \/ SourceEnds(t) \/ SendPLI(t)
      PROVE  UNCHANGED <<streamVars, stopping>>
  BY <1>7
  DEF RegisterPLIHandler, TrackStarted, TrackStopped, ReadPacket, CheckActive,
      SendPacket, DropPLIHandler, SourceEnds, SendPLI
<1>8. CASE UDPReadError \/ OnPlay \/ RequestIDR \/ UNCHANGED vars
  <2>1. UNCHANGED <<streamVars, stopping>>
    BY <1>8 DEF UDPReadError, OnPlay, RequestIDR, vars
  <2>2. QED
    BY <2>1, <1>6
<1>9. QED
  BY <1>1, <1>2, <1>3, <1>4, <1>5, <1>6, <1>7, <1>8 DEF Next, Track, Handle

(* A supplier stays on record only while some track is live or leaving;    *)
(* the last to leave finds activeTracks empty and clears the record.       *)
LEMMA ParametersStep == Inv /\ [Next]_vars => ParametersDieWithLastTrack'
<1> DEFINE Present(t) == Live(t) \/ Leaving(t)
<1> SUFFICES ASSUME Inv, [Next]_vars PROVE ParametersDieWithLastTrack'
  OBVIOUS
<1> USE Constants
<1>1. ASSUME NEW t \in Tracks, ReleaseStream(t) PROVE ParametersDieWithLastTrack'
  <2>1. CASE NoneActive
    BY <1>1, <2>1 DEF ReleaseStream, EndStream, ParametersDieWithLastTrack
  <2>2. CASE ~NoneActive
    <3>1. PICK u \in Tracks : Live(u)
      BY <2>2 DEF NoneActive, Inv, ActiveTracksAreLive, TypeOK
    <3>2. Live(u)'
      BY <1>1, <3>1 DEF ReleaseStream, Goto, Live, Inv, TypeOK
    <3>3. QED
      BY <3>2 DEF ParametersDieWithLastTrack
  <2>3. QED
    BY <2>1, <2>2
<1>2. ASSUME NEW t \in Tracks, SetParams(t) PROVE ParametersDieWithLastTrack'
  <2>1. Live(t)'
    BY <1>2 DEF SetParams, Goto, Live, Inv, TypeOK
  <2>2. QED
    BY <2>1 DEF ParametersDieWithLastTrack
<1>3. ASSUME NEW t \in Tracks,
             \/ RegisterPLIHandler(t) \/ TrackStarted(t) \/ TrackStopped(t)
             \/ \E params \in Contents : ReadPacket(t, params)
             \/ CheckActive(t) \/ SendPacket(t) \/ DropPLIHandler(t)
      PROVE  ParametersDieWithLastTrack'
  <2>1. UNCHANGED <<sps, pps>> /\ pc' = [pc EXCEPT ![t] = pc'[t]]
    BY <1>3
    DEF RegisterPLIHandler, TrackStarted, TrackStopped, ReadPacket, CheckActive,
        SendPacket, DropPLIHandler, Goto, streamVars, Inv, TypeOK
  <2>2. Present(t) => Present(t)'
    BY <1>3
    DEF RegisterPLIHandler, TrackStarted, TrackStopped, ReadPacket, CheckActive,
        SendPacket, DropPLIHandler, Goto, Live, Leaving, Inv, TypeOK
  <2>3. \A u \in Tracks : Present(u) => Present(u)'
    BY <2>1, <2>2 DEF Live, Leaving, Inv, TypeOK
  <2>4. QED
    BY <2>1, <2>3 DEF ParametersDieWithLastTrack, Inv
<1>4. ASSUME NEW d \in SDPs, ExtractSPSPPSFromSDP(d) PROVE ParametersDieWithLastTrack'
  <2>1. sps' \in {sps, d} /\ pps' \in {pps, d} /\ UNCHANGED pc
    BY <1>4 DEF ExtractSPSPPSFromSDP, SetSPSPPS, trackVars
  <2>2. d \notin Tracks
    BY SentinelAssumption
  <2>3. QED
    BY <2>1, <2>2 DEF ParametersDieWithLastTrack, Inv, Live, Leaving
<1>5. ASSUME UNCHANGED <<pc, sps, pps>> PROVE ParametersDieWithLastTrack'
  BY <1>5 DEF ParametersDieWithLastTrack, Inv, Live, Leaving
<1>6. ASSUME NEW t \in Tracks, SourceEnds(t) \/ SendPLI(t)
      PROVE  UNCHANGED <<pc, sps, pps>>
  BY <1>6 DEF SourceEnds, SendPLI, trackVars, streamVars
<1>7. CASE \/ UDPReadError \/ OnPlay \/ RequestIDR \/ CloseStopChan \/ CloseServer
           \/ UNCHANGED vars
  <2>1. UNCHANGED <<pc, sps, pps>>
    BY <1>7
    DEF UDPReadError, OnPlay, RequestIDR, CloseStopChan, CloseServer, vars,
        trackVars, streamVars
  <2>2. QED
    BY <2>1, <1>5
<1>8. QED
  BY <1>1, <1>2, <1>3, <1>4, <1>5, <1>6, <1>7 DEF Next, Track, Handle

LEMMA Inductive == Inv /\ [Next]_vars => Inv'
BY TypeStep, SlotStep, ActiveTracksStep, StreamStep, ParametersStep DEF Inv

THEOREM InvHolds == Spec => []Inv
BY InitInv, Inductive, PTL DEF Spec

(* The variables keep their types.                                         *)
THEOREM TypeCorrect == Spec => []TypeOK
BY InvHolds, PTL DEF Inv

(* The primary SSRC and the active track of a slot agree.                  *)
THEOREM SlotsAreConsistent == Spec => []SlotsConsistent
BY InvHolds, PTL DEF Inv

(* A slot is never held by a stopped track.                                *)
THEOREM ActiveTrackIsLive == Spec => []ActiveIsLive
BY InvHolds, PTL DEF Inv

(* Bridge and server agree on real data and on the parameter sets.         *)
THEOREM StreamAndServerAgree == Spec => []StreamMatchesServer
BY InvHolds, PTL DEF Inv

(* No stream survives its last track.                                      *)
THEOREM NoParametersWithoutTracks == Spec => []ParametersDieWithLastTrack
BY InvHolds, PTL DEF Inv

-----------------------------------------------------------------------------
(* Keyframe handlers.  The claim about a live track must hold from the     *)
(* moment it registers, before it is live.                                 *)

HandlerInv ==
  /\ \A t \in PLITracks : Live(t) \/ pc[t] = "registered" =>
       pliHandlers[SSRCOf[t]] = t \/ Displaced(t)
  /\ \A s \in SSRCs : pliHandlers[s] # None =>
       SSRCOf[pliHandlers[s]] = s /\ pc[pliHandlers[s]] \notin {"idle", "release", "done"}

LEMMA HandlerStep == TypeOK /\ HandlerInv /\ [Next]_vars => HandlerInv'
<1> SUFFICES ASSUME TypeOK, HandlerInv, [Next]_vars PROVE HandlerInv'
  OBVIOUS
<1> USE Constants, TrackAssumption DEF TypeOK, HandlerInv, Live, Displaced
<1>1. ASSUME NEW t \in Tracks, RegisterPLIHandler(t) PROVE HandlerInv'
  <2>1. /\ pc[t] = "idle" /\ pc' = [pc EXCEPT ![t] = "registered"]
        /\ pliHandlers' = [pliHandlers EXCEPT ![SSRCOf[t]] = t]
    BY <1>1 DEF RegisterPLIHandler, Goto
  <2>2. QED
    BY <2>1
<1>2. ASSUME NEW t \in Tracks, DropPLIHandler(t) PROVE HandlerInv'
  <2>1. /\ pc[t] = "unregister" /\ pc' = [pc EXCEPT ![t] = "release"]
        /\ pliHandlers' = [pliHandlers EXCEPT ![SSRCOf[t]] = None]
    BY <1>2 DEF DropPLIHandler, Goto
  <2>2. QED
    BY <2>1
<1>3. ASSUME NEW t \in Tracks,
             \/ TrackStarted(t) \/ TrackStopped(t) \/ ReleaseStream(t)
             \/ \E params \in Contents : ReadPacket(t, params)
             \/ SetParams(t) \/ CheckActive(t) \/ SendPacket(t)
      PROVE  HandlerInv'
  <2>1. UNCHANGED pliHandlers /\ pc' = [pc EXCEPT ![t] = pc'[t]]
    BY <1>3
    DEF TrackStarted, TrackStopped, ReleaseStream, ReadPacket, SetParams,
        CheckActive, SendPacket, Goto, pliVars
  <2>2. /\ t \in PLITracks /\ Live(t)' => Live(t) \/ pc[t] = "registered"
        /\ pc'[t] \notin {"idle", "registered"}
        /\ pc'[t] \in {"release", "done"} => pc[t] \in {"release", "done"}
    BY <1>3
    DEF TrackStarted, TrackStopped, ReleaseStream, ReadPacket, SetParams,
        CheckActive, SendPacket, Goto
  <2>3. QED
    BY <2>1, <2>2
<1>4. ASSUME UNCHANGED <<pc, pliHandlers>> PROVE HandlerInv'
  BY <1>4
<1>5. ASSUME NEW t \in Tracks, SourceEnds(t) \/ SendPLI(t)
      PROVE  UNCHANGED <<pc, pliHandlers>>
  BY <1>5 DEF SourceEnds, SendPLI, trackVars, pliVars
<1>6. ASSUME NEW d \in SDPs, ExtractSPSPPSFromSDP(d)
      PROVE  UNCHANGED <<pc, pliHandlers>>
  BY <1>6 DEF ExtractSPSPPSFromSDP, trackVars, pliVars
<1>7. CASE \/ UDPReadError \/ OnPlay \/ RequestIDR \/ CloseStopChan \/ CloseServer
           \/ UNCHANGED vars
  BY <1>7, <1>4
  DEF UDPReadError, OnPlay, RequestIDR, CloseStopChan, CloseServer, vars,
      trackVars, pliVars
<1>8. QED
  BY <1>1, <1>2, <1>3, <1>4, <1>5, <1>6, <1>7 DEF Next, Track, Handle

(* Live video tracks can be asked for a keyframe; no handler dangles.      *)
THEOREM HandlersAreKept == Spec => []KeyframeHandlers
<1>1. Init => HandlerInv
  BY Constants, TrackAssumption DEF Init, HandlerInv, Live
<1>2. HandlerInv => KeyframeHandlers
  BY DEF HandlerInv, KeyframeHandlers, Displaced
<1>3. QED
  BY <1>1, <1>2, HandlerStep, TypeCorrect, PTL DEF Spec

-----------------------------------------------------------------------------
(* Refinement of MediaSlots.                                               *)

LEMMA SlotsInit == Init => Slots!Init
BY DEF Init, Slots!Init, Live

LEMMA SlotsStep == Inv /\ [Next]_vars => [Slots!Next]_Slots!slotVars
<1> DEFINE live == {u \in Tracks : Live(u)}
           sent == {u \in Tracks : pc[u] = "send"}
<1> SUFFICES ASSUME Inv, [Next]_vars PROVE [Slots!Next]_Slots!slotVars
  OBVIOUS
<1> USE Constants DEF Inv, TypeOK
<1>1. ASSUME NEW t \in Tracks, TrackStarted(t) PROVE Slots!Start(t)
  <2>1. /\ pc[t] \in {"idle", "registered"}
        /\ pc' = [pc EXCEPT ![t] = "reading"]
        /\ activeID' = IF TakesSlot(t) THEN [activeID EXCEPT ![KindOf[t]] = t] ELSE activeID
    BY <1>1 DEF TrackStarted, TrackID, Goto
  <2>2. live' = live \cup {t} /\ t \notin live /\ sent' = sent
    BY <2>1 DEF Live
  <2>3. TakesSlot(t) <=> Slots!MayOwn(t)
    BY DEF TakesSlot, Slots!MayOwn, SlotsConsistent
  <2>4. QED
    BY <2>1, <2>2, <2>3 DEF Slots!Start
<1>2. ASSUME NEW t \in Tracks, TrackStopped(t) PROVE Slots!Stop(t)
  <2>1. /\ pc[t] = "reading" /\ pc' = [pc EXCEPT ![t] = "unregister"]
        /\ activeID' = [k \in Kinds |-> IF Frees(t, k) THEN None ELSE activeID[k]]
    BY <1>2 DEF TrackStopped, Goto
  <2>2. live' = live \ {t} /\ t \in live \ sent /\ sent' = sent
    BY <2>1 DEF Live
  <2>3. \A k \in Kinds : Frees(t, k) <=> activeID[k] = t
    BY DEF Frees, SlotsConsistent
  <2>4. QED
    BY <2>1, <2>2, <2>3 DEF Slots!Stop
<1>3. ASSUME NEW t \in Tracks, CheckActive(t)
      PROVE  Slots!Admit(t) \/ UNCHANGED Slots!slotVars
  <2>1. /\ pc[t] = "write" /\ UNCHANGED activeID
        /\ pc' = [pc EXCEPT ![t] =
             IF t \in {activeID["video"], activeID["audio"]} THEN "send" ELSE "reading"]
    BY <1>3 DEF CheckActive, Goto, slotVars
  <2>2. live' = live
    BY <2>1 DEF Live
  <2>3. CASE t \in {activeID["video"], activeID["audio"]}
    <3>1. sent' = sent \cup {t}
      BY <2>1, <2>3
    <3>2. activeID[KindOf[t]] = t
      BY <2>3 DEF SlotsConsistent
    <3>3. QED
      BY <2>1, <2>2, <3>1, <3>2 DEF Slots!Admit
  <2>4. CASE t \notin {activeID["video"], activeID["audio"]}
    <3>1. sent' = sent
      BY <2>1, <2>4
    <3>2. QED
      BY <2>1, <2>2, <3>1 DEF Slots!slotVars
  <2>5. QED
    BY <2>3, <2>4
<1>4. ASSUME NEW t \in Tracks, SendPacket(t) PROVE Slots!Deliver(t)
  <2>1. /\ pc[t] = "send" /\ UNCHANGED activeID
        /\ pc' = [pc EXCEPT ![t] = "reading"]
    BY <1>4 DEF SendPacket, Goto, slotVars
  <2>2. live' = live /\ sent' = sent \ {t} /\ t \in sent
    BY <2>1 DEF Live
  <2>3. QED
    BY <2>1, <2>2 DEF Slots!Deliver
<1>5. ASSUME NEW t \in Tracks,
             \/ RegisterPLIHandler(t) \/ DropPLIHandler(t) \/ ReleaseStream(t)
             \/ \E params \in Contents : ReadPacket(t, params)
             \/ SetParams(t)
      PROVE  UNCHANGED Slots!slotVars
  <2>1. UNCHANGED activeID /\ pc' = [pc EXCEPT ![t] = pc'[t]]
        /\ (Live(t)' <=> Live(t)) /\ pc[t] # "send" /\ pc'[t] # "send"
    BY <1>5
    DEF RegisterPLIHandler, DropPLIHandler, ReleaseStream, ReadPacket, SetParams,
        Goto, Live, slotVars
  <2>2. \A u \in Tracks : Live(u)' <=> Live(u)
    BY <2>1 DEF Live
  <2>3. live' = live /\ sent' = sent
    BY <2>1, <2>2
  <2>4. QED
    BY <2>1, <2>3 DEF Slots!slotVars
<1>6. ASSUME UNCHANGED <<pc, activeID>> PROVE UNCHANGED Slots!slotVars
  BY <1>6 DEF Slots!slotVars, Live
<1>7. ASSUME NEW t \in Tracks, SourceEnds(t) \/ SendPLI(t)
      PROVE  UNCHANGED <<pc, activeID>>
  BY <1>7 DEF SourceEnds, SendPLI, trackVars, slotVars
<1>8. ASSUME NEW d \in SDPs, ExtractSPSPPSFromSDP(d)
      PROVE  UNCHANGED <<pc, activeID>>
  BY <1>8 DEF ExtractSPSPPSFromSDP, trackVars, slotVars
<1>9. CASE \/ UDPReadError \/ OnPlay \/ RequestIDR \/ CloseStopChan \/ CloseServer
           \/ UNCHANGED vars
  <2>1. UNCHANGED <<pc, activeID>>
    BY <1>9
    DEF UDPReadError, OnPlay, RequestIDR, CloseStopChan, CloseServer, vars,
        trackVars, slotVars
  <2>2. QED
    BY <2>1, <1>6
<1>10. QED
  BY <1>1, <1>2, <1>3, <1>4, <1>5, <1>6, <1>7, <1>8, <1>9
  DEF Next, Track, Handle, Slots!Next

(* The bridge implements the ownership of slots that MediaSlots specifies. *)
THEOREM BridgeImplementsSlots == Spec => ImplementsSlots
BY SlotsInit, SlotsStep, InvHolds, PTL DEF Spec, ImplementsSlots, Slots!Spec

-----------------------------------------------------------------------------
(* When no two tracks share an SSRC, activeTracks lists every live track,  *)
(* and then the end of one track cannot cut off another.                   *)

DistinctSSRCs == \A t, u \in Tracks : SSRCOf[t] = SSRCOf[u] => t = u

LiveIsListed == \A t \in Tracks : Live(t) => SSRCOf[t] \in activeTracks

LEMMA ListedStep ==
  DistinctSSRCs /\ TypeOK /\ LiveIsListed /\ [Next]_vars => LiveIsListed'
<1> SUFFICES ASSUME DistinctSSRCs, TypeOK, LiveIsListed, [Next]_vars
             PROVE  LiveIsListed'
  OBVIOUS
<1> USE Constants DEF TypeOK, LiveIsListed, Live
<1>1. ASSUME NEW t \in Tracks, TrackStarted(t) PROVE LiveIsListed'
  <2>1. activeTracks' = activeTracks \cup {SSRCOf[t]}
        /\ pc' = [pc EXCEPT ![t] = "reading"]
    BY <1>1 DEF TrackStarted, Goto
  <2>2. QED
    BY <2>1
<1>2. ASSUME NEW t \in Tracks, TrackStopped(t) PROVE LiveIsListed'
  <2>1. activeTracks' = activeTracks \ {SSRCOf[t]}
        /\ pc' = [pc EXCEPT ![t] = "unregister"]
    BY <1>2 DEF TrackStopped, Goto
  <2>2. QED
    BY <2>1 DEF DistinctSSRCs
<1>3. ASSUME NEW t \in Tracks,
             \/ RegisterPLIHandler(t) \/ DropPLIHandler(t) \/ ReleaseStream(t)
             \/ \E params \in Contents : ReadPacket(t, params)
             \/ SetParams(t) \/ CheckActive(t) \/ SendPacket(t)
      PROVE  LiveIsListed'
  <2>1. UNCHANGED activeTracks /\ pc' = [pc EXCEPT ![t] = pc'[t]]
        /\ (Live(t)' => Live(t))
    BY <1>3
    DEF RegisterPLIHandler, DropPLIHandler, ReleaseStream, ReadPacket, SetParams,
        CheckActive, SendPacket, Goto, slotVars
  <2>2. QED
    BY <2>1
<1>4. ASSUME NEW t \in Tracks, SourceEnds(t) \/ SendPLI(t)
      PROVE  UNCHANGED <<pc, activeTracks>>
  BY <1>4 DEF SourceEnds, SendPLI, trackVars, slotVars
<1>5. ASSUME NEW d \in SDPs, ExtractSPSPPSFromSDP(d)
      PROVE  UNCHANGED <<pc, activeTracks>>
  BY <1>5 DEF ExtractSPSPPSFromSDP, trackVars, slotVars
<1>6. CASE \/ UDPReadError \/ OnPlay \/ RequestIDR \/ CloseStopChan \/ CloseServer
           \/ UNCHANGED vars
  BY <1>6
  DEF UDPReadError, OnPlay, RequestIDR, CloseStopChan, CloseServer, vars,
      trackVars, slotVars
<1>7. ASSUME UNCHANGED <<pc, activeTracks>> PROVE LiveIsListed'
  BY <1>7
<1>8. QED
  BY <1>1, <1>2, <1>3, <1>4, <1>5, <1>6, <1>7 DEF Next, Track, Handle

LEMMA OnlyUnservedStreamsEnd ==
  Inv /\ LiveIsListed /\ [Next]_vars =>
    (hasRealData /\ ~hasRealData' /\ stopping' # "stopped"
       => \A k \in Kinds : activeID[k] = None)
<1> SUFFICES ASSUME Inv, LiveIsListed, [Next]_vars,
                    hasRealData, ~hasRealData', stopping' # "stopped"
             PROVE  \A k \in Kinds : activeID[k] = None
  OBVIOUS
<1>1. ASSUME NEW t \in Tracks, ReleaseStream(t)
      PROVE  \A k \in Kinds : activeID[k] = None
  <2>1. activeTracks = {}
    BY <1>1 DEF ReleaseStream, NoneActive
  <2>2. QED
    BY <2>1 DEF LiveIsListed, Inv, TypeOK, ActiveIsLive
<1>2. ASSUME NEW t \in Tracks,
             \/ RegisterPLIHandler(t) \/ TrackStarted(t) \/ TrackStopped(t)
             \/ \E params \in Contents : ReadPacket(t, params)
             \/ SetParams(t) \/ CheckActive(t) \/ SendPacket(t)
             \/ DropPLIHandler(t) \/ SourceEnds(t) \/ SendPLI(t)
      PROVE  FALSE
  BY <1>2
  DEF RegisterPLIHandler, TrackStarted, TrackStopped, ReadPacket, SetParams,
      SetSPSPPS, CheckActive, SendPacket, DropPLIHandler, SourceEnds, SendPLI,
      streamVars
<1>3. ASSUME NEW d \in SDPs, ExtractSPSPPSFromSDP(d) PROVE FALSE
  BY <1>3 DEF ExtractSPSPPSFromSDP, SetSPSPPS
<1>4. CASE \/ UDPReadError \/ OnPlay \/ RequestIDR \/ CloseStopChan \/ CloseServer
           \/ UNCHANGED vars
  BY <1>4
  DEF UDPReadError, OnPlay, RequestIDR, CloseStopChan, CloseServer, vars, streamVars
<1>5. QED
  BY <1>1, <1>2, <1>3, <1>4 DEF Next, Track, Handle

(* Among tracks with SSRCs of their own a served stream goes on until it   *)
(* ends itself, whatever the others do.                                    *)
THEOREM DistinctSSRCsServe ==
  ASSUME DistinctSSRCs PROVE Spec => ServedStreamGoesOn
<1>1. Init => LiveIsListed
  BY DEF Init, LiveIsListed, Live
<1>2. TypeOK /\ LiveIsListed /\ [Next]_vars => LiveIsListed'
  BY ListedStep
<1>3. Inv /\ LiveIsListed /\ [Next]_vars =>
        [hasRealData /\ ~hasRealData' /\ stopping' # "stopped"
           => \A k \in Kinds : activeID[k] = None]_vars
  BY OnlyUnservedStreamsEnd
<1>4. QED
  BY <1>1, <1>2, <1>3, InvHolds, TypeCorrect, PTL DEF Spec, ServedStreamGoesOn
=============================================================================
