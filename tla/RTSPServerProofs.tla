--------------------------- MODULE RTSPServerProofs ---------------------------
(***************************************************************************)
(* Proofs about RTSPServer and AACProcessor, for every number of sessions, *)
(* frame sizes and bounds.                                                 *)
(***************************************************************************)
EXTENDS RTSPServer, FiniteSetTheorems, TLAPS

-----------------------------------------------------------------------------
(* Remainders.                                                             *)

LEMMA ModUnique ==
  ASSUME NEW a \in Int, NEW n \in Nat \ {0}, NEW q \in Int, NEW r \in 0..n - 1,
         a = n * q + r
  PROVE  a % n = r
  OBVIOUS

LEMMA Division ==
  ASSUME NEW a \in Int, NEW n \in Nat \ {0}
  PROVE  \E q \in Int : a = n * q + (a % n) /\ a % n \in 0..n - 1
<1>1. a \div n \in Int /\ a = n * (a \div n) + (a % n) /\ a % n \in 0..n - 1
  OBVIOUS
<1>2. QED
  BY <1>1

(* Wrapping twice is wrapping once.                                        *)
LEMMA Wraps ==
  ASSUME NEW a \in Int, NEW b \in Int, NEW n \in Nat \ {0}
  PROVE  ((a % n) + b) % n = (a + b) % n
<1>1. PICK p \in Int : a = n * p + (a % n) /\ a % n \in 0..n - 1
  BY Division
<1> DEFINE r == a % n
           c == r + b
           s == c % n
<1>2. r \in Int /\ c \in Int
  BY <1>1
<1>3. PICK q \in Int : c = n * q + s /\ s \in 0..n - 1
  BY <1>2, Division
<1>4. a = n * p + r
  BY <1>1
<1> HIDE DEF r, s
<1>5. a + b = n * p + n * q + s
  BY <1>2, <1>3, <1>4
<1>6. n * p + n * q = n * (p + q)
  OBVIOUS
<1>7. a + b = n * (p + q) + s /\ a + b \in Int /\ p + q \in Int
  BY <1>3, <1>5, <1>6
<1>8. (a + b) % n = s
  BY <1>3, <1>7, ModUnique
<1>9. QED
  BY <1>8 DEF r, s

-----------------------------------------------------------------------------
(* The invariant.                                                          *)

(***************************************************************************)
(* A dummy packet under way when real data came has not been counted yet;  *)
(* the server is closed only after the sender has ended and has a usable   *)
(* converter until then; between packets the buffer holds less than a      *)
(* frame, and error codes alone take its size below zero; nothing has been *)
(* heard before the clock is set.                                          *)
(***************************************************************************)
LateInv == late <= 1 /\ (loop = "writing" /\ hasRealData => late = 0)

StopInv ==
  /\ closing # "open" => sender = "ended"
  /\ closing = "open" /\ audioCodec = "aac" => converter = "ready"

AudioInv ==
  /\ pcmSize < AACFrame /\ pcmSize >= -taken
  /\ damaged => taken > 0
  /\ ~tsInit => pcmSize = 0 /\ heard = 0 /\ lost = 0 /\ taken = 0 /\ mute = 0
  /\ AudioClock

(* A session that has played has been opened; ClientsCounted keeps itself. *)
CountInv ==
  /\ \A s \in Sessions : plays[s] > 0 => session[s] \in {"open", "ending", "ended"}
  /\ ClientsCounted

Inv == TypeOK /\ LateInv /\ StopInv /\ AudioInv

LEMMA Constants ==
  /\ OpusFrame \in Nat \ {0} /\ AACFrame \in Nat \ {0} /\ TSSpace \in Nat \ {0}
  /\ OpusFrame <= AACFrame
  /\ \A d \in DecodeSizes : d \in Nat /\ d <= OpusFrame
  /\ \A ts \in StartTS : ts \in 0..TSSpace - 1
  /\ \A c \in ErrorCodes : c \in Nat /\ c > 0
BY FrameAssumption, CodeAssumption, SpaceAssumption, ServerAssumption

LEMMA InitInv == Init => Inv
<1> SUFFICES ASSUME Init PROVE Inv
  OBVIOUS
<1> USE DEF Init, AACInit
<1>1. TypeOK
  <2>1. AACTypeOK
    <3>1. 0 \in Nat /\ 0 \in Int /\ 0 \in 0..TSSpace - 1
      BY Constants
    <3>2. QED
      BY <3>1 DEF AACTypeOK
  <2>2. /\ session \in [Sessions -> {"none", "describing", "setup", "open", "ending", "ended"}]
        /\ plays \in [Sessions -> Nat]
    OBVIOUS
  <2>3. QED
    BY <2>1, <2>2 DEF TypeOK
<1>2. LateInv /\ StopInv
  BY DEF LateInv, StopInv
<1>3. AudioInv
  BY Constants DEF AudioInv, AudioClock
<1>4. QED
  BY <1>1, <1>2, <1>3 DEF Inv

(* What an audio packet does to the buffer and the clock, accepted by the  *)
(* decoder or refused.                                                     *)
Returned(samples, code) == IF code = 0 THEN samples ELSE -code

LEMMA ProcessKeeps ==
  ASSUME AACTypeOK, AudioInv, ~damaged,
         NEW ts \in StartTS, NEW samples \in DecodeSizes, NEW code \in ErrorCodes \cup {0},
         NEW e \in BOOLEAN, Process(ts, samples, Returned(samples, code), e)
  PROVE  AACTypeOK' /\ AudioInv'
<1> DEFINE d == Returned(samples, code)
           now == IF tsInit THEN nextTS ELSE ts
           first == IF tsInit THEN firstTS ELSE ts
           gone == lost + taken
           x == first + heard - gone - AACFrame * mute - pcmSize
<1>1. /\ pcmSize \in Int /\ heard \in Nat /\ lost \in Nat /\ taken \in Nat /\ mute \in Nat
      /\ now \in 0..TSSpace - 1 /\ first \in 0..TSSpace - 1
      /\ samples \in Nat /\ d \in Int /\ d <= OpusFrame /\ (d < 0 \/ d = samples)
      /\ pcmSize < AACFrame /\ pcmSize >= -taken
  <2>1. samples \in Nat /\ samples <= OpusFrame /\ ts \in 0..TSSpace - 1
    BY Constants
  <2>2. code = 0 \/ (code \in Nat /\ code > 0)
    BY Constants
  <2>3. d \in Int /\ d <= OpusFrame /\ (d < 0 \/ d = samples)
    BY <2>1, <2>2, Constants DEF Returned
  <2>4. QED
    BY <2>1, <2>3 DEF AACTypeOK, AudioInv
<1>2. x \in Int /\ now = x % TSSpace
  <2>1. CASE tsInit
    <3>1. x = firstTS + heard - lost - AACFrame * mute - taken - pcmSize
      BY <2>1, <1>1, Constants
    <3>2. nextTS = (firstTS + heard - lost - AACFrame * mute - taken - pcmSize) % TSSpace
      BY <2>1 DEF AudioInv, AudioClock
    <3>3. x \in Int
      BY <1>1, Constants
    <3> HIDE DEF x
    <3>4. QED
      BY <2>1, <3>1, <3>2, <3>3
  <2>2. CASE ~tsInit
    <3>1. x = ts
      BY <2>2, <1>1, Constants DEF AudioInv
    <3>2. ts \in Int /\ 0 \in Int /\ ts = TSSpace * 0 + ts
      BY Constants
    <3>3. ts % TSSpace = ts
      BY <3>2, Constants, ModUnique
    <3>4. QED
      BY <2>2, <3>1, <3>2, <3>3
  <2>3. QED
    BY <2>1, <2>2
<1>3. /\ tsInit' = TRUE /\ firstTS' = first /\ heard' = heard + samples
      /\ damaged' \in BOOLEAN
      /\ pcmSize >= 0 => ~damaged'
      /\ lost' = IF d < 0 THEN lost + samples ELSE lost
      /\ taken' = IF d < 0 THEN taken - d ELSE taken
      /\ pcmSize' = IF FrameReady(d) THEN pcmSize + d - AACFrame ELSE pcmSize + d
      /\ mute' = IF FrameReady(d) /\ ~e THEN mute + 1 ELSE mute
      /\ nextTS' = IF FrameReady(d) /\ e THEN Advanced(now) ELSE now
  BY <1>1 DEF Process, Write, Transcode
<1> HIDE DEF d, now, first
<1> DEFINE gone1 == lost' + taken'
           y == first + heard' - gone1 - AACFrame * mute' - pcmSize'
<1>4. /\ heard' \in Nat /\ lost' \in Nat /\ taken' \in Nat /\ mute' \in Nat
      /\ taken' >= taken
  BY <1>1, <1>3
<1>5. /\ pcmSize' \in Int /\ pcmSize' < AACFrame /\ pcmSize' >= -taken'
      /\ FrameReady(d) => d >= 0
  BY <1>1, <1>3, Constants DEF FrameReady
<1>6. heard' - gone1 = heard - gone + d
  BY <1>1, <1>3
<1>7. gone \in Int /\ gone1 \in Int
  BY <1>1, <1>4
<1> HIDE DEF gone, gone1
<1>8. nextTS' = y % TSSpace
  <2>1. CASE FrameReady(d) /\ e
    <3>1. y = x + AACFrame
      BY <1>1, <1>3, <1>6, <1>7, <2>1, Constants
    <3>2. nextTS' = ((x % TSSpace) + AACFrame) % TSSpace
      BY <1>2, <1>3, <2>1 DEF Advanced
    <3>3. x \in Int /\ AACFrame \in Int /\ TSSpace \in Nat \ {0}
      BY <1>2, Constants
    <3> HIDE DEF x
    <3>4. ((x % TSSpace) + AACFrame) % TSSpace = (x + AACFrame) % TSSpace
      BY <3>3, Wraps
    <3>5. y % TSSpace = (x + AACFrame) % TSSpace
      BY <3>1
    <3>6. QED
      BY <3>2, <3>4, <3>5
  <2>2. CASE FrameReady(d) /\ ~e
    <3>1. AACFrame * (mute + 1) = AACFrame * mute + AACFrame
      BY <1>1, Constants
    <3> DEFINE m == AACFrame * mute
               h1 == heard'
    <3>2. /\ first \in Int /\ heard \in Int /\ pcmSize \in Int /\ d \in Int
          /\ AACFrame \in Int /\ m \in Int /\ h1 \in Int
      BY <1>1, <1>4, Constants
    <3>3. y = first + h1 - gone1 - (m + AACFrame) - (pcmSize + d - AACFrame)
      BY <1>3, <2>2, <3>1
    <3>4. h1 - gone1 = heard - gone + d
      BY <1>6
    <3> HIDE DEF m, h1, x, y
    <3>5. first + h1 - gone1 - (m + AACFrame) - (pcmSize + d - AACFrame)
          = first + heard - gone - m - pcmSize
      BY <1>7, <3>2, <3>4
    <3>6. y = x
      BY <3>3, <3>5 DEF m, x
    <3>7. QED
      BY <1>2, <1>3, <2>2, <3>6
  <2>3. CASE ~FrameReady(d)
    <3>1. y = x
      BY <1>1, <1>3, <1>6, <1>7, <2>3, Constants
    <3>2. QED
      BY <1>2, <1>3, <2>3, <3>1
  <2>4. QED
    BY <2>1, <2>2, <2>3
<1>9. y \in Int
  BY <1>1, <1>4, <1>5, <1>7, Constants
<1>10. y = firstTS' + heard' - lost' - AACFrame * mute' - taken' - pcmSize'
  BY <1>1, <1>3, <1>4, <1>5, Constants DEF gone1
<1> HIDE DEF y
<1>11. nextTS' \in 0..TSSpace - 1
  BY <1>8, <1>9, Division, Constants
<1>12. AudioClock'
  BY <1>8, <1>10 DEF AudioClock
<1>13. damaged' \in BOOLEAN /\ (damaged' => taken' > 0)
  BY <1>1, <1>3, <1>4
<1>14. QED
  BY <1>1, <1>3, <1>4, <1>5, <1>11, <1>12, <1>13 DEF AACTypeOK, AudioInv

(* A packet that gets lost.                                                *)
LEMMA LossKeeps ==
  ASSUME AACTypeOK, AudioInv, ~damaged, NEW d \in DecodeSizes, PacketLost(d)
  PROVE  AACTypeOK' /\ AudioInv'
<1>1. d \in Nat /\ heard \in Nat /\ lost \in Nat
  BY Constants DEF AACTypeOK
<1>2. /\ tsInit /\ heard' = heard + d /\ lost' = lost + d
      /\ UNCHANGED <<pcmSize, damaged, tsInit, nextTS, taken, mute, firstTS>>
  BY DEF PacketLost
<1>3. AACTypeOK'
  BY <1>1, <1>2 DEF AACTypeOK
<1>4. firstTS' + heard' - lost' - AACFrame * mute' - taken' - pcmSize'
      = firstTS + heard - lost - AACFrame * mute - taken - pcmSize
  BY <1>1, <1>2, Constants DEF AACTypeOK
<1>5. QED
  BY <1>2, <1>3, <1>4 DEF AudioInv, AudioClock

LEMMA AudioUnchanged ==
  ASSUME AACTypeOK, AudioInv, UNCHANGED aacVars
  PROVE  AACTypeOK' /\ AudioInv'
BY DEF aacVars, AACTypeOK, AudioInv, AudioClock

-----------------------------------------------------------------------------
(* The sessions.                                                           *)

(* Their count, at its floor, when one ends.                               *)
LEMMA CountStays ==
  ASSUME activeClientCount \in Nat
  PROVE  (IF activeClientCount > 0 THEN activeClientCount - 1
                                   ELSE activeClientCount) \in Nat
  OBVIOUS

LEMMA ClientKeeps ==
  ASSUME Inv, NEW s \in Sessions, Client(s)
  PROVE  Inv'
<1> USE DEF Inv
<1>1. activeClientCount' \in Nat
  BY CountStays DEF Client, Request, OnDescribe, OnSetup, OnPlay, SessionEnds, OnSessionClose, TypeOK,
                    clientVars
<1>2. /\ session' \in [Sessions -> {"none", "describing", "setup", "open", "ending", "ended"}]
      /\ plays' \in [Sessions -> Nat]
  BY DEF Client, Request, OnDescribe, OnSetup, OnPlay, SessionEnds, OnSessionClose, TypeOK
<1>3. UNCHANGED <<audioCodec, loopVars, dataVars, stopVars, aacVars>>
  BY DEF Client, Request, OnDescribe, OnSetup, OnPlay, SessionEnds, OnSessionClose
<1>4. AACTypeOK' /\ AudioInv'
  BY <1>3, AudioUnchanged DEF TypeOK
<1>5. LateInv' /\ StopInv'
  BY <1>3 DEF LateInv, StopInv, loopVars, dataVars, stopVars
<1>6. TypeOK'
  BY <1>1, <1>2, <1>3, <1>4 DEF TypeOK, loopVars, dataVars, stopVars
<1>7. QED
  BY <1>4, <1>5, <1>6

-----------------------------------------------------------------------------
(* The other goroutines.                                                   *)

LEMMA SwitchKeeps ==
  ASSUME Inv, InitStream \/ StopRealData
  PROVE  Inv'
<1> USE DEF Inv
<1>1. /\ UNCHANGED <<audioCodec, loop, currentInterval, clientVars, stopVars, aacVars>>
      /\ hasRealData' \in BOOLEAN /\ served' \in BOOLEAN
      /\ switches' \in Nat /\ late' \in Nat
  <2>1. CASE InitStream
    BY <2>1 DEF InitStream, TypeOK
  <2>2. CASE StopRealData
    BY <2>2 DEF StopRealData, TypeOK, loopVars
  <2>3. QED
    BY <2>1, <2>2
<1>2. AACTypeOK' /\ AudioInv'
  BY <1>1, AudioUnchanged DEF TypeOK
<1>3. LateInv'
  BY <1>1 DEF InitStream, StopRealData, LateInv, loopVars
<1>4. StopInv'
  BY <1>1 DEF StopInv, stopVars
<1>5. TypeOK'
  BY <1>1, <1>2 DEF TypeOK, clientVars, stopVars
<1>6. QED
  BY <1>2, <1>3, <1>4, <1>5

LEMMA LoopKeeps ==
  ASSUME Inv, Loop
  PROVE  Inv'
<1> USE DEF Inv
<1>1. UNCHANGED <<audioCodec, clientVars, dataVars, stopVars, aacVars>>
  BY DEF Loop, Tick, Snapshot, WriteDummy, LoopEnds
<1>2. AACTypeOK' /\ AudioInv'
  BY <1>1, AudioUnchanged DEF TypeOK
<1>3. LateInv'
  BY <1>1 DEF Loop, Tick, Snapshot, WriteDummy, LoopEnds, LateInv, dataVars, TypeOK
<1>4. StopInv'
  BY <1>1 DEF StopInv, stopVars
<1>5. TypeOK'
  BY <1>1, <1>2 DEF Loop, Tick, Snapshot, WriteDummy, LoopEnds, TargetInterval,
                    TypeOK, clientVars, dataVars, stopVars
<1>6. QED
  BY <1>2, <1>3, <1>4, <1>5

LEMMA SenderKeeps ==
  ASSUME Inv, FetchServer \/ EndFlush
  PROVE  Inv'
<1> USE DEF Inv
<1>1. /\ UNCHANGED <<audioCodec, loopVars, clientVars, dataVars, stopChan, closing,
                     converter, aacVars>>
      /\ sender # "ended" /\ sender' \in {"idle", "flushing", "last", "ended"}
  BY DEF FetchServer, EndFlush, Writing
<1>2. AACTypeOK' /\ AudioInv'
  BY <1>1, AudioUnchanged DEF TypeOK
<1>3. LateInv' /\ StopInv'
  BY <1>1 DEF LateInv, StopInv, loopVars, dataVars
<1>4. TypeOK'
  BY <1>1, <1>2 DEF TypeOK, loopVars, clientVars, dataVars
<1>5. QED
  BY <1>2, <1>3, <1>4

LEMMA AudioKeeps ==
  ASSUME Inv,
         \/ \E ts \in StartTS, d \in DecodeSizes, c \in ErrorCodes \cup {0}, e \in BOOLEAN :
              ConvertAudio(ts, d, c, e)
         \/ \E d \in DecodeSizes : LoseAudio(d)
  PROVE  Inv'
<1> USE DEF Inv
<1>1. AACTypeOK' /\ AudioInv'
  BY ProcessKeeps, LossKeeps DEF ConvertAudio, LoseAudio, Returned, TypeOK
<1>2. UNCHANGED <<audioCodec, loopVars, clientVars, dataVars, stopVars>>
  BY DEF ConvertAudio, LoseAudio
<1>3. LateInv' /\ StopInv'
  BY <1>2 DEF LateInv, StopInv, loopVars, dataVars, stopVars
<1>4. TypeOK'
  BY <1>1, <1>2 DEF TypeOK, loopVars, clientVars, dataVars, stopVars
<1>5. QED
  BY <1>1, <1>3, <1>4

LEMMA StopKeeps ==
  ASSUME Inv, CloseStopChan \/ Close \/ CloseReturns
  PROVE  Inv'
<1> USE DEF Inv
<1>1. /\ UNCHANGED <<audioCodec, loopVars, activeClientCount, plays, hasRealData, switches,
                     sender, aacVars>>
      /\ served' \in BOOLEAN /\ stopChan' \in BOOLEAN
      /\ session' \in [Sessions -> {"none", "describing", "setup", "open", "ending", "ended"}]
  BY DEF CloseStopChan, Close, CloseReturns, TypeOK, clientVars, dataVars
<1>2. AACTypeOK' /\ AudioInv'
  BY <1>1, AudioUnchanged DEF TypeOK
<1>3. LateInv'
  BY <1>1 DEF LateInv, loopVars
<1>4. StopInv' /\ closing' \in {"open", "closing", "closed"}
      /\ converter' \in {"none", "ready", "freed"}
  BY <1>1 DEF CloseStopChan, Close, CloseReturns, SenderIsGone, Locked, StopInv, TypeOK
<1>5. TypeOK'
  BY <1>1, <1>2, <1>4 DEF TypeOK, loopVars
<1>6. QED
  BY <1>2, <1>3, <1>4, <1>5

LEMMA StutterKeeps ==
  ASSUME Inv, UNCHANGED vars
  PROVE  Inv'
BY AudioUnchanged DEF Inv, TypeOK, LateInv, StopInv, vars, loopVars, clientVars, dataVars,
                      stopVars

THEOREM Invariance == Spec => []Inv
<1>1. Inv /\ [Next]_vars => Inv'
  <2> SUFFICES ASSUME Inv, [Next]_vars PROVE Inv'
    OBVIOUS
  <2>1. CASE InitStream \/ StopRealData
    BY <2>1, SwitchKeeps
  <2>2. CASE Loop
    BY <2>2, LoopKeeps
  <2>3. CASE \E s \in Sessions : Client(s)
    BY <2>3, ClientKeeps
  <2>4. CASE Sender \/ \E d \in DecodeSizes : LoseAudio(d)
    BY <2>4, SenderKeeps, AudioKeeps DEF Sender
  <2>5. CASE CloseStopChan \/ Close \/ CloseReturns
    BY <2>5, StopKeeps
  <2>6. CASE UNCHANGED vars
    BY <2>6, StutterKeeps
  <2>7. QED
    BY <2>1, <2>2, <2>3, <2>4, <2>5, <2>6 DEF Next
<1>2. QED
  BY InitInv, <1>1, PTL DEF Spec

-----------------------------------------------------------------------------
(* The count of clients.                                                   *)

LEMMA PlayingFinite == IsFiniteSet(Playing) /\ Cardinality(Playing) \in Nat
<1>1. Playing \in SUBSET Sessions
  BY DEF Playing
<1>2. IsFiniteSet(Playing)
  BY <1>1, ServerAssumption, FS_Subset
<1>3. QED
  BY <1>2, FS_CardinalityType

(* If each session plays once after a step, it did before.                 *)
LEMMA CountStep ==
  ASSUME TypeOK, CountInv, Next
  PROVE  CountInv'
<1> USE DEF CountInv
<1>1. ASSUME NEW s \in Sessions, OnPlay(s) PROVE CountInv'
  <2>1. /\ session' = session /\ session[s] = "open"
        /\ plays' = [plays EXCEPT ![s] = @ + 1]
        /\ activeClientCount' = activeClientCount + 1
    BY <1>1 DEF OnPlay
  <2>2. \A t \in Sessions : plays'[t] = IF t = s THEN plays[t] + 1 ELSE plays[t]
    BY <2>1 DEF TypeOK
  <2>3. \A t \in Sessions : plays[t] \in Nat
    BY DEF TypeOK
  <2>4. ASSUME EachPlaysOnce' PROVE activeClientCount' = Cardinality(Playing')
    <3>1. plays[s] = 0 /\ EachPlaysOnce
      BY <2>1, <2>2, <2>3, <2>4 DEF EachPlaysOnce
    <3>2. s \notin Playing /\ Playing' = Playing \cup {s}
      BY <2>1, <2>2, <2>3, <3>1 DEF Playing
    <3>3. Cardinality(Playing \cup {s}) = Cardinality(Playing) + 1
      BY <3>2, PlayingFinite, FS_AddElement
    <3>4. QED
      BY <2>1, <3>1, <3>2, <3>3 DEF ClientsCounted
  <2>5. \A t \in Sessions : plays'[t] > 0 => session'[t] \in {"open", "ending", "ended"}
    BY <2>1, <2>2, <2>3
  <2>6. QED
    BY <2>4, <2>5 DEF ClientsCounted
<1>2. ASSUME NEW s \in Sessions, OnSessionClose(s) PROVE CountInv'
  <2>1. /\ plays' = plays /\ session[s] = "ending"
        /\ session' = [session EXCEPT ![s] = "ended"]
        /\ activeClientCount' = IF activeClientCount > 0 THEN activeClientCount - 1
                                                         ELSE activeClientCount
    BY <1>2 DEF OnSessionClose, clientVars
  <2>2. \A t \in Sessions : session'[t] = IF t = s THEN "ended" ELSE session[t]
    BY <2>1 DEF TypeOK
  <2>3. ASSUME EachPlaysOnce' PROVE activeClientCount' = Cardinality(Playing')
    <3>1. plays[s] = 1 /\ EachPlaysOnce
      BY <2>1, <2>2, <2>3 DEF EachPlaysOnce
    <3>2. s \in Playing /\ Playing' = Playing \ {s}
      BY <2>1, <2>2, <3>1 DEF Playing
    <3>3. Cardinality(Playing \ {s}) = Cardinality(Playing) - 1
      BY <3>2, PlayingFinite, FS_RemoveElement
    <3>4. Cardinality(Playing) # 0
      BY <3>2, PlayingFinite, FS_EmptySet
    <3>5. activeClientCount = Cardinality(Playing) /\ Cardinality(Playing) \in Nat
      BY <3>1, PlayingFinite DEF ClientsCounted
    <3>6. activeClientCount > 0
      BY <3>4, <3>5
    <3>7. QED
      BY <2>1, <3>2, <3>3, <3>5, <3>6
  <2>4. \A t \in Sessions : plays'[t] > 0 => session'[t] \in {"open", "ending", "ended"}
    BY <2>1, <2>2
  <2>5. QED
    BY <2>3, <2>4 DEF ClientsCounted
<1>3. ASSUME /\ activeClientCount' = activeClientCount /\ plays' = plays
             /\ \A t \in Sessions : \/ session'[t] = session[t]
                                    \/ /\ session[t] \in {"none", "describing", "setup"}
                                       /\ session'[t] # "ended"
                                    \/ session[t] = "open" /\ session'[t] = "ending"
      PROVE  CountInv'
  <2>0. \A t \in Sessions : plays[t] \in Nat
    BY DEF TypeOK
  <2>1. \A t \in Sessions : plays'[t] > 0 => session'[t] \in {"open", "ending", "ended"}
    BY <1>3, <2>0
  <2>2. EachPlaysOnce' <=> EachPlaysOnce
    BY <1>3, <2>0 DEF EachPlaysOnce
  <2>3. Playing' = Playing
    BY <1>3 DEF Playing
  <2>4. QED
    BY <1>3, <2>1, <2>2, <2>3 DEF ClientsCounted
<1>4. ASSUME NEW s \in Sessions,
             Request(s) \/ OnDescribe(s) \/ OnSetup(s) \/ SessionEnds(s)
      PROVE  CountInv'
  <2>1. /\ activeClientCount' = activeClientCount /\ plays' = plays
        /\ session' = [session EXCEPT ![s] = session'[s]]
        /\ \/ session[s] \in {"none", "describing", "setup"} /\ session'[s] # "ended"
           \/ session[s] = "open" /\ session'[s] = "ending"
    BY <1>4 DEF Request, OnDescribe, OnSetup, SessionEnds, TypeOK
  <2>2. \A t \in Sessions : t # s => session'[t] = session[t]
    BY <2>1 DEF TypeOK
  <2>3. QED
    BY <1>3, <2>1, <2>2
<1>5. CASE Close
  <2>1. /\ activeClientCount' = activeClientCount /\ plays' = plays
        /\ session' = [s \in Sessions |-> IF Open(s) THEN "ending" ELSE session[s]]
    BY <1>5 DEF Close
  <2>2. \A t \in Sessions : \/ session'[t] = session[t]
                            \/ session[t] = "open" /\ session'[t] = "ending"
    BY <2>1 DEF Open
  <2>3. QED
    BY <1>3, <2>1, <2>2
<1>6. CASE UNCHANGED clientVars
  BY <1>3, <1>6 DEF clientVars
<1>7. QED
  <2>1. CASE \E s \in Sessions : Client(s)
    BY <2>1, <1>1, <1>2, <1>4 DEF Client
  <2>2. CASE InitStream \/ StopRealData \/ Loop
    BY <2>2, <1>6 DEF InitStream, StopRealData, Loop, Tick, Snapshot, WriteDummy, LoopEnds
  <2>3. CASE Sender \/ \E d \in DecodeSizes : LoseAudio(d)
    BY <2>3, <1>6 DEF Sender, FetchServer, ConvertAudio, EndFlush, LoseAudio
  <2>4. CASE CloseStopChan \/ CloseReturns
    BY <2>4, <1>6 DEF CloseStopChan, CloseReturns
  <2>5. QED
    BY <1>5, <2>1, <2>2, <2>3, <2>4 DEF Next

LEMMA CountInit == Init => CountInv
<1> SUFFICES ASSUME Init PROVE CountInv
  OBVIOUS
<1>1. \A s \in Sessions : plays[s] = 0
  BY DEF Init
<1>2. Playing = {} /\ activeClientCount = 0
  BY <1>1 DEF Playing, Init
<1>3. QED
  BY <1>1, <1>2, FS_EmptySet DEF CountInv, ClientsCounted

-----------------------------------------------------------------------------
(* Theorems.                                                               *)

(* Every variable of the server and of its converter keeps its type.       *)
THEOREM TypeCorrect == Spec => []TypeOK
<1>1. Inv => TypeOK
  BY DEF Inv
<1>2. QED
  BY Invariance, <1>1, PTL

(***************************************************************************)
(* Each time real data comes, at most one dummy packet follows it.         *)
(***************************************************************************)
THEOREM DummyIsLateOnce == Spec => []OneLateDummy
<1>1. Inv => OneLateDummy
  BY DEF Inv, LateInv, OneLateDummy
<1>2. QED
  BY Invariance, <1>1, PTL

(***************************************************************************)
(* The order in Stop keeps every packet from a converter that was freed.   *)
(***************************************************************************)
THEOREM NeverFreedInUse == Spec => []ConverterAlive
<1>1. Inv => ConverterAlive
  BY DEF Inv, TypeOK, StopInv, ConverterAlive, Writing
<1>2. QED
  BY Invariance, <1>1, PTL

(***************************************************************************)
(* For every frame size of the two codecs with OpusFrame <= AACFrame, what *)
(* the decoder writes never goes past the end of the buffer of two frames, *)
(* and goes before its front only after the decoder has refused packets.   *)
(***************************************************************************)
THEOREM NoOverflow == Spec => []SamplesFit
<1>1. Inv => SamplesFit
  BY Constants DEF Inv, TypeOK, AACTypeOK, AudioInv, SamplesFit
<1>2. QED
  BY Invariance, <1>1, PTL

(***************************************************************************)
(* The AAC clock is the source's clock less what was lost or refused or    *)
(* encoded to nothing and less the error codes, across every wrap of the   *)
(* timestamps, until the converter has written over other memory.          *)
(***************************************************************************)
THEOREM ClockFallsBehindByLoss == Spec => []AudioClock
<1>1. Inv => AudioClock
  BY DEF Inv, AudioInv
<1>2. QED
  BY Invariance, <1>1, PTL

(***************************************************************************)
(* As long as every session plays once before it ends, the count is that   *)
(* of the sessions playing, for any number of them and whatever the order. *)
(***************************************************************************)
THEOREM CountIsExact == Spec => []ClientsCounted
<1>1. TypeOK /\ CountInv /\ [Next]_vars => CountInv'
  <2> SUFFICES ASSUME TypeOK, CountInv, [Next]_vars PROVE CountInv'
    OBVIOUS
  <2>1. CASE Next
    BY <2>1, CountStep
  <2>2. CASE UNCHANGED vars
    BY <2>2 DEF CountInv, ClientsCounted, EachPlaysOnce, Playing, vars, clientVars
  <2>3. QED
    BY <2>1, <2>2
<1>2. CountInv => ClientsCounted
  BY DEF CountInv
<1>3. QED
  BY TypeCorrect, CountInit, <1>1, <1>2, PTL DEF Spec
=============================================================================
