------------------------------ MODULE RTSPServer ------------------------------
(***************************************************************************)
(* The RTSP server between the bridge and its clients: the loop that sends *)
(* dummy packets while there is no real data, the sessions and their       *)
(* count, audio conversion, and the order in which the bridge stops it.    *)
(*                                                                         *)
(* Goroutines: the dummy loop; the bridge's sender, which fetches the      *)
(* server and then writes packets; the tracks, which switch real data on   *)
(* and off; a session per client (gortsplib, external), which calls OnPlay *)
(* and OnSessionClose; and Stop.  An action is one critical section of the *)
(* server's mutex or a step between two.                                   *)
(***************************************************************************)
EXTENDS AACProcessor, FiniteSets

CONSTANTS
  Sessions,
  MaxPlays,      \* bound on PLAY requests of a session
  MaxSwitches,   \* bound on InitStream
  MaxHeard,      \* bound on the samples of the audio stream
  MaxTaken,      \* bound on the sum of the decoder's error codes
  DecodeSizes,   \* samples that packets decode to; 0: a packet without payload
  StartTS        \* timestamps of a first audio packet

ASSUME ServerAssumption ==
  /\ IsFiniteSet(Sessions)
  /\ MaxPlays \in Nat /\ MaxSwitches \in Nat /\ MaxHeard \in Nat
  /\ MaxTaken \in Nat
  /\ DecodeSizes \subseteq 0..OpusFrame
  /\ StartTS \subseteq 0..TSSpace - 1

VARIABLES
  audioCodec,         \* "aac": converted; "opus": passed on
  hasRealData,
  activeClientCount,
  loop,               \* the dummy loop: "waiting", "locking", "writing", "ended"
  currentInterval,    \* of its ticker: "default" or "active"
  closing,            \* of the server: "open", "closing" (Close has the mutex), "closed"
  converter,          \* "none", "ready" or "freed"
  session,            \* "none", "describing", "setup", "open", "ending", "ended"
  stopChan,           \* the bridge's: whether it has been closed
  sender,             \* the sender goroutine: "idle", "flushing", "last", "ended"
  served,             \* the bridge's view: InitStream more recent than StopRealData
  switches,           \* number of calls of InitStream
  (* For the properties: dummy packets written since real data came, and   *)
  (* PLAY requests by session.                                             *)
  late, plays

loopVars == <<loop, currentInterval, late>>
clientVars == <<activeClientCount, session, plays>>
dataVars == <<hasRealData, served, switches>>
stopVars == <<stopChan, sender, closing, converter>>
vars == <<audioCodec, loopVars, clientVars, dataVars, stopVars, aacVars>>

Init ==
  /\ audioCodec \in {"aac", "opus"}
  /\ hasRealData = FALSE
  /\ activeClientCount = 0
  /\ loop = "waiting" /\ currentInterval = "default"
  /\ closing = "open"
  /\ converter = IF audioCodec = "aac" THEN "ready" ELSE "none"
  /\ session = [s \in Sessions |-> "none"]
  /\ stopChan = FALSE
  /\ sender = "idle"
  /\ served = FALSE /\ switches = 0
  /\ late = 0 /\ plays = [s \in Sessions |-> 0]
  /\ AACInit

(* Close holds the mutex until the library has closed every session.       *)
Locked == closing = "closing"

-----------------------------------------------------------------------------
(* The bridge switches real data on and off.                               *)

(* tryStartLocked calls it only while the stream is not on.                *)
InitStream ==
  /\ closing = "open" /\ ~served
  /\ switches < MaxSwitches
  /\ switches' = switches + 1
  /\ hasRealData' = TRUE
  /\ served' = TRUE
  /\ late' = 0
  /\ UNCHANGED <<audioCodec, loop, currentInterval, clientVars, stopVars, aacVars>>

StopRealData ==
  /\ closing = "open" /\ served
  /\ hasRealData' = FALSE
  /\ served' = FALSE
  /\ UNCHANGED <<audioCodec, loopVars, clientVars, switches, stopVars, aacVars>>

-----------------------------------------------------------------------------
(* dummyPacketLoop: the tick, what it reads under the mutex, and the write *)
(* without it.                                                             *)

Tick ==
  /\ loop = "waiting"
  /\ loop' = "locking"
  /\ UNCHANGED <<audioCodec, currentInterval, late, clientVars, dataVars, stopVars, aacVars>>

TargetInterval == IF activeClientCount > 0 THEN "active" ELSE "default"

Snapshot_ReadsNothing ==
  /\ loop = "locking" /\ ~Locked
  /\ currentInterval' = TargetInterval
  /\ loop' = "writing"
  /\ UNCHANGED <<audioCodec, late, clientVars, dataVars, stopVars, aacVars>>

Snapshot ==
  /\ loop = "locking" /\ ~Locked
  /\ currentInterval' = TargetInterval
  /\ loop' = IF hasRealData THEN "waiting" ELSE "writing"
  /\ UNCHANGED <<audioCodec, late, clientVars, dataVars, stopVars, aacVars>>

WriteDummy ==
  /\ loop = "writing"
  /\ loop' = "waiting"
  /\ late' = IF hasRealData THEN late + 1 ELSE late
  /\ UNCHANGED <<audioCodec, currentInterval, clientVars, dataVars, stopVars, aacVars>>

LoopEnds ==
  /\ loop = "waiting" /\ closing # "open"
  /\ loop' = "ended"
  /\ UNCHANGED <<audioCodec, currentInterval, late, clientVars, dataVars, stopVars, aacVars>>

-----------------------------------------------------------------------------
(* Clients.  A client may ask for a description and sets up a session,    *)
(* which may play several times (gortsplib calls OnPlay for each PLAY,     *)
(* after a pause or without) and may end without having played.  A request *)
(* and its handler are two steps: the handler waits for the mutex in a     *)
(* goroutine that the library's Close waits for.  Requests can come until  *)
(* that has returned.  Pausing changes nothing in the server.              *)

Request(s) ==
  /\ session[s] = "none" /\ closing # "closed"
  /\ \E asked \in {"describing", "setup"} : session' = [session EXCEPT ![s] = asked]
  /\ UNCHANGED <<audioCodec, loopVars, activeClientCount, plays, dataVars, stopVars, aacVars>>

OnDescribe(s) ==
  /\ session[s] = "describing" /\ ~Locked
  /\ session' = [session EXCEPT ![s] = "none"]
  /\ UNCHANGED <<audioCodec, loopVars, activeClientCount, plays, dataVars, stopVars, aacVars>>

OnSetup(s) ==
  /\ session[s] = "setup" /\ ~Locked
  /\ session' = [session EXCEPT ![s] = "open"]
  /\ UNCHANGED <<audioCodec, loopVars, activeClientCount, plays, dataVars, stopVars, aacVars>>

OnPlay(s) ==
  /\ session[s] = "open" /\ ~Locked
  /\ plays[s] < MaxPlays
  /\ activeClientCount' = activeClientCount + 1
  /\ plays' = [plays EXCEPT ![s] = @ + 1]
  /\ UNCHANGED <<audioCodec, loopVars, session, dataVars, stopVars, aacVars>>

Open(s) == session[s] \in {"open", "ending"}
Busy(s) == Open(s) \/ session[s] \in {"describing", "setup"}

(* The client tears down or its connection breaks.                         *)
SessionEnds(s) ==
  /\ session[s] = "open"
  /\ session' = [session EXCEPT ![s] = "ending"]
  /\ UNCHANGED <<audioCodec, loopVars, activeClientCount, plays, dataVars, stopVars, aacVars>>

OnSessionClose_NoFloor(s) ==
  /\ session[s] = "ending" /\ ~Locked
  /\ session' = [session EXCEPT ![s] = "ended"]
  /\ activeClientCount' = activeClientCount - 1
  /\ UNCHANGED <<audioCodec, loopVars, plays, dataVars, stopVars, aacVars>>

OnSessionClose_Keeps(s) ==
  /\ session[s] = "ending" /\ ~Locked
  /\ session' = [session EXCEPT ![s] = "ended"]
  /\ UNCHANGED <<audioCodec, loopVars, activeClientCount, plays, dataVars, stopVars, aacVars>>

OnSessionClose(s) ==
  /\ session[s] = "ending" /\ ~Locked
  /\ session' = [session EXCEPT ![s] = "ended"]
  /\ activeClientCount' = IF activeClientCount > 0 THEN activeClientCount - 1
                                                   ELSE activeClientCount
  /\ UNCHANGED <<audioCodec, loopVars, plays, dataVars, stopVars, aacVars>>

-----------------------------------------------------------------------------
(* The bridge's sender: flushBufferedPackets fetches the server under the  *)
(* bridge's mutex, and Flush writes to it afterwards.                      *)

FetchServer ==
  /\ sender = "idle"
  /\ \/ sender' = "flushing"
     \/ stopChan /\ sender' = "last"
  /\ UNCHANGED <<audioCodec, loopVars, clientVars, dataVars, stopChan, closing, converter, aacVars>>

Writing == sender \in {"flushing", "last"}

(* WritePacketRTP of an audio packet: the decoder accepts or refuses it.   *)
(* What a converter does after it has written over other memory is not     *)
(* followed.                                                               *)
ConvertAudio(ts, samples, code, encoded) ==
  LET decoded == IF code = 0 THEN samples ELSE -code
  IN  /\ Writing /\ ~Locked
      /\ audioCodec = "aac" /\ ~damaged
      /\ heard + samples <= MaxHeard /\ taken + code <= MaxTaken
      /\ code # 0 => samples # 0
      /\ Process(ts, samples, decoded, encoded)
      /\ UNCHANGED <<audioCodec, loopVars, clientVars, dataVars, stopVars>>

LoseAudio(samples) ==
  /\ audioCodec = "aac" /\ ~damaged
  /\ heard + samples <= MaxHeard
  /\ PacketLost(samples)
  /\ UNCHANGED <<audioCodec, loopVars, clientVars, dataVars, stopVars>>

EndFlush_GoesOn ==
  /\ Writing
  /\ sender' = "idle"
  /\ UNCHANGED <<audioCodec, loopVars, clientVars, dataVars, stopChan, closing, converter, aacVars>>

EndFlush ==
  /\ Writing
  /\ sender' = IF sender = "last" THEN "ended" ELSE "idle"
  /\ UNCHANGED <<audioCodec, loopVars, clientVars, dataVars, stopChan, closing, converter, aacVars>>

-----------------------------------------------------------------------------
(* RTPBridge.Stop: closes stopChan, waits for the sender, closes the       *)
(* server.                                                                 *)

CloseStopChan ==
  /\ ~stopChan
  /\ stopChan' = TRUE
  /\ UNCHANGED <<audioCodec, loopVars, clientVars, dataVars, sender, closing, converter, aacVars>>

SenderIsGone_NotAwaited == TRUE
SenderIsGone == sender = "ended"

(* Close takes the mutex, closes closeChan and the stream, frees the       *)
(* converter, and tells every session to end.                              *)
Close ==
  /\ stopChan /\ SenderIsGone /\ closing = "open"
  /\ closing' = "closing"
  /\ converter' = IF audioCodec = "aac" THEN "freed" ELSE converter
  /\ session' = [s \in Sessions |-> IF Open(s) THEN "ending" ELSE session[s]]
  /\ UNCHANGED <<audioCodec, loopVars, activeClientCount, plays, dataVars, stopChan, sender, aacVars>>

(* The library returns when all sessions have ended and all handlers have  *)
(* returned.                                                               *)
CloseReturns ==
  /\ Locked
  /\ \A s \in Sessions : ~Busy(s)
  /\ closing' = "closed"
  /\ served' = FALSE
  /\ UNCHANGED <<audioCodec, loopVars, clientVars, hasRealData, switches,
                 stopChan, sender, converter, aacVars>>

-----------------------------------------------------------------------------

Loop == Tick \/ Snapshot \/ WriteDummy \/ LoopEnds

Client(s) ==
  \/ Request(s) \/ OnDescribe(s) \/ OnSetup(s) \/ OnPlay(s)
  \/ SessionEnds(s) \/ OnSessionClose(s)

Sender ==
  \/ FetchServer
  \/ \E ts \in StartTS, d \in DecodeSizes, c \in ErrorCodes \cup {0}, e \in BOOLEAN :
       ConvertAudio(ts, d, c, e)
  \/ EndFlush

Next ==
  \/ InitStream \/ StopRealData
  \/ Loop
  \/ \E s \in Sessions : Client(s)
  \/ Sender
  \/ \E d \in DecodeSizes : LoseAudio(d)
  \/ CloseStopChan \/ Close \/ CloseReturns

Spec == Init /\ [][Next]_vars

(***************************************************************************)
(* Goroutines that are running go on, and enter a critical section that    *)
(* they can enter; select picks at random between the ticker and closeChan *)
(* in the loop, and between packets, ticks and stopChan in the sender, so  *)
(* what is ready again and again is taken; flushes end.  Nothing is        *)
(* assumed of clients, tracks, tickers or the caller of Stop.              *)
(***************************************************************************)
Fairness ==
  /\ WF_vars(Snapshot) /\ WF_vars(WriteDummy) /\ SF_vars(LoopEnds)
  /\ SF_vars(FetchServer /\ sender' = "last") /\ WF_vars(EndFlush)
  /\ WF_vars(Close) /\ WF_vars(CloseReturns)

FairSpec == Spec /\ Fairness

-----------------------------------------------------------------------------
(* Properties.                                                             *)

TypeOK ==
  /\ audioCodec \in {"aac", "opus"}
  /\ hasRealData \in BOOLEAN /\ served \in BOOLEAN /\ stopChan \in BOOLEAN
  /\ activeClientCount \in Nat
  /\ loop \in {"waiting", "locking", "writing", "ended"}
  /\ currentInterval \in {"default", "active"}
  /\ closing \in {"open", "closing", "closed"}
  /\ converter \in {"none", "ready", "freed"}
  /\ session \in [Sessions -> {"none", "describing", "setup", "open", "ending", "ended"}]
  /\ sender \in {"idle", "flushing", "last", "ended"}
  /\ switches \in Nat /\ late \in Nat
  /\ plays \in [Sessions -> Nat]
  /\ AACTypeOK

(***************************************************************************)
(* The loop writes its packet after it has let the mutex go (server.go),   *)
(* so a dummy packet can follow the first real one; but at most one does,  *)
(* each time real data comes.                                              *)
(***************************************************************************)
OneLateDummy == late <= 1

(***************************************************************************)
(* The sender never writes to a server whose converter has been freed:     *)
(* Close leaves the stream in place, so only the order in Stop (stopChan,  *)
(* the sender's end, Close) keeps packets from a transcoder that is gone.  *)
(***************************************************************************)
ConverterAlive == Writing /\ audioCodec = "aac" => converter = "ready"

(***************************************************************************)
(* If no session plays twice or ends without playing, the count of clients *)
(* is the number of sessions that have played and not ended, whatever the  *)
(* order of their handlers.  (OnPlay counts requests and OnSessionClose    *)
(* sessions, so otherwise it is not.)                                      *)
(***************************************************************************)
EachPlaysOnce ==
  \A s \in Sessions : plays[s] <= 1 /\ (session[s] = "ended" => plays[s] = 1)
Playing == {s \in Sessions : plays[s] = 1 /\ session[s] # "ended"}
ClientsCounted ==
    EachPlaysOnce => activeClientCount = Cardinality(Playing)

(***************************************************************************)
(* Stop comes to its end, and the loop with it, unless a session is open   *)
(* or being described or set up while it closes the server: then Close     *)
(* waits, with the mutex, for a goroutine whose handler waits for the      *)
(* mutex.  (Nothing is promised of a process whose memory is damaged.)     *)
(***************************************************************************)
StopCompletes ==
  stopChan ~> \/ closing = "closed" /\ loop = "ended"
              \/ Locked /\ \E s \in Sessions : Busy(s)
              \/ damaged
=============================================================================
