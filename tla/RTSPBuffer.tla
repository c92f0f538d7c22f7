----------------------------- MODULE RTSPBuffer -----------------------------
(***************************************************************************)
(* The path of an RTP packet from RTPBridge.WriteRTP to the RTSP server:   *)
(* the bounded channel rtpChan, the goroutine rtpSenderLoop, and the       *)
(* jitter buffer RTSPBuffer it owns (Add, Flush, Cleanup).                 *)
(*                                                                         *)
(* The buffer is only touched by the sender goroutine, so its mutex never  *)
(* blocks; what interleaves with the goroutine are the producers (Write),  *)
(* the clock (TimePasses) and the request to stop (Stop).  One iteration   *)
(* of the loop in flushBufferSet is one step here.  Sequence numbers and   *)
(* timestamps wrap around, as uint16 and uint32 do in the code.            *)
(***************************************************************************)
EXTENDS Integers, Sequences, SequencesExt

CONSTANTS
  SeqSpace,           \* number of sequence numbers (2^16 in the code)
  TSSpace,            \* number of timestamps (2^32)
  MaxTimestampDelta,  \* largest timestamp step taken over (90000)
  MaxBufferSize,      \* packets kept per kind before the oldest is evicted
  MaxFlushBatch,      \* packets emitted by one flush of one kind (500)
  ChanCap,            \* capacity of rtpChan
  StaleAge,           \* a packet is stale when its age exceeds StaleAge
  Inputs,             \* packets that may arrive: [kind, seq, ts]
  MaxPackets,         \* bound on the number of packets written
  Nil                 \* an empty slot, an unset timestamp or position

Kinds == {"video", "audio"}
SeqNums == 0 .. SeqSpace - 1
Timestamps == 0 .. TSSpace - 1
Ages == 0 .. StaleAge + 1

Packet == [id : Nat, kind : Kinds, seq : SeqNums, ts : Timestamps]
BufferedPacket == [id : Nat, ts : Timestamps, age : Ages]
EmittedPacket == [id : Nat, orig : SeqNums, inTS : Timestamps,
                  seq : SeqNums, ts : Timestamps, stale : BOOLEAN]

ASSUME SpaceAssumption ==
  /\ SeqSpace \in Nat \ {0}
  /\ TSSpace \in Nat \ {0}
  /\ MaxTimestampDelta \in Nat
ASSUME BoundAssumption ==
  /\ MaxBufferSize \in Nat \ {0}
  /\ MaxFlushBatch \in Nat
  /\ ChanCap \in Nat
  /\ StaleAge \in Nat
  /\ MaxPackets \in Nat
ASSUME InputAssumption ==
  Inputs \subseteq [kind : Kinds, seq : SeqNums, ts : Timestamps]
ASSUME NilAssumption ==
  Nil \notin BufferedPacket \cup SeqNums \cup Timestamps

VARIABLES
  rtpChan,              \* packets queued for the sender goroutine
  buf,                  \* videoBuffer and audioBuffer: slot per sequence number
  order,                \* videoOrder and audioOrder: occupied slots, oldest first
  nextSeq,              \* sequence number to emit next; Nil before the first flush
  outgoingSeq,          \* sequence number of the last packet emitted
  lastInputTimestamp,   \* its timestamp before rewriting
  lastOutputTimestamp,  \* and after; Nil before the first packet
  pc,                   \* where the sender goroutine is
  cur,                  \* the kind it is flushing
  sentInBatch,          \* packets emitted by this flush of cur
  stopping,             \* "no", "requested" (stopChan closed), "draining"
  arrived,              \* number of packets written so far, the source of ids
  emitted               \* history: what each kind handed to WritePacketRTP

chanVars == <<rtpChan, arrived>>
bufVars == <<buf, order>>
clockVars == <<outgoingSeq, lastInputTimestamp, lastOutputTimestamp, emitted>>
loopVars == <<pc, cur, sentInBatch>>
vars == <<chanVars, bufVars, nextSeq, clockVars, loopVars, stopping>>

Init ==
  /\ rtpChan = << >>
  /\ buf = [k \in Kinds |-> [s \in SeqNums |-> Nil]]
  /\ order = [k \in Kinds |-> << >>]
  /\ nextSeq = [k \in Kinds |-> Nil]
  /\ outgoingSeq = [k \in Kinds |-> 0]
  /\ lastInputTimestamp = [k \in Kinds |-> 0]
  /\ lastOutputTimestamp = [k \in Kinds |-> Nil]
  /\ pc = "select"
  /\ cur = "video"
  /\ sentInBatch = 0
  /\ stopping = "no"
  /\ arrived = 0
  /\ emitted = [k \in Kinds |-> << >>]

-----------------------------------------------------------------------------
(* Environment: producers, clock, shutdown.                                *)

(* WriteRTP of an admitted packet: queued, or dropped when rtpChan is full *)
Write(in) ==
  /\ arrived < MaxPackets
  /\ arrived' = arrived + 1
  /\ rtpChan' = IF Len(rtpChan) < ChanCap
                  THEN Append(rtpChan, [id |-> arrived + 1, kind |-> in.kind,
                                        seq |-> in.seq, ts |-> in.ts])
                  ELSE rtpChan
  /\ UNCHANGED <<bufVars, nextSeq, clockVars, loopVars, stopping>>

Older(slot) ==
  IF slot = Nil \/ slot.age > StaleAge THEN slot ELSE [slot EXCEPT !.age = @ + 1]

TimePasses ==
  /\ buf' = [k \in Kinds |-> [s \in SeqNums |-> Older(buf[k][s])]]
  /\ UNCHANGED <<chanVars, order, nextSeq, clockVars, loopVars, stopping>>

Stop ==
  /\ stopping = "no"
  /\ stopping' = "requested"
  /\ UNCHANGED <<chanVars, bufVars, nextSeq, clockVars, loopVars>>

-----------------------------------------------------------------------------
(* The sender goroutine.                                                   *)

Evict_TooEarly(k) == Len(order[k]) >= MaxBufferSize - 1
Evict(k) == Len(order[k]) >= MaxBufferSize

(* RTSPBuffer.Add: make room, then fill the slot of the sequence number; a *)
(* packet already there is replaced and keeps its place in the order.      *)
Add(p) ==
  LET k == p.kind
      kept == IF Evict(k) THEN Tail(order[k]) ELSE order[k]
      slots == IF Evict(k) THEN [buf[k] EXCEPT ![Head(order[k])] = Nil]
                           ELSE buf[k]
  IN  /\ order' = [order EXCEPT ![k] =
                     IF slots[p.seq] = Nil THEN Append(kept, p.seq) ELSE kept]
      /\ buf' = [buf EXCEPT ![k] =
                   [slots EXCEPT ![p.seq] = [id |-> p.id, ts |-> p.ts, age |-> 0]]]

StartFlush ==
  /\ pc' = "enter"
  /\ cur' = "video"
  /\ sentInBatch' = 0

Receive ==
  /\ pc = "select"
  /\ rtpChan # << >>
  /\ rtpChan' = Tail(rtpChan)
  /\ Add(Head(rtpChan))
  /\ StartFlush
  /\ UNCHANGED <<nextSeq, clockVars, stopping, arrived>>

Tick ==
  /\ pc = "select"
  /\ StartFlush
  /\ UNCHANGED <<chanVars, bufVars, nextSeq, clockVars, stopping>>

LeaveFlush_NoReturn ==
  /\ cur' = "audio"
  /\ pc' = IF cur = "video" THEN "enter" ELSE "select"
  /\ sentInBatch' = 0

(* After the video buffer comes the audio buffer, then the loop's select,  *)
(* or, on shutdown, the cleanup of both buffers.                           *)
LeaveFlush ==
  /\ cur' = "audio"
  /\ pc' = CASE cur = "video" -> "enter"
             [] cur = "audio" /\ stopping = "draining" -> "cleanup"
             [] OTHER -> "select"
  /\ sentInBatch' = 0

EnterFlush ==
  /\ pc = "enter"
  /\ IF order[cur] = << >>
       THEN LeaveFlush /\ UNCHANGED nextSeq
       ELSE /\ pc' = "flush"
            /\ nextSeq' = [nextSeq EXCEPT ![cur] = IF @ = Nil THEN Head(order[cur]) ELSE @]
            /\ UNCHANGED <<cur, sentInBatch>>
  /\ UNCHANGED <<chanVars, bufVars, clockVars, stopping>>

LoopGoesOn == sentInBatch < MaxFlushBatch /\ order[cur] # << >>
Hole == buf[cur][nextSeq[cur]] = Nil
HeadIsStale_Whatever == buf[cur][Head(order[cur])] # Nil
HeadIsStale_Inverted ==
  LET oldest == buf[cur][Head(order[cur])]
  IN  oldest # Nil /\ oldest.age < StaleAge
HeadIsStale ==
  LET oldest == buf[cur][Head(order[cur])]
  IN  oldest # Nil /\ oldest.age > StaleAge

SkipHole_ByOne ==
  /\ pc = "flush"
  /\ LoopGoesOn /\ Hole /\ HeadIsStale
  /\ nextSeq' = [nextSeq EXCEPT ![cur] = (@ + 1) % SeqSpace]
  /\ UNCHANGED <<chanVars, bufVars, clockVars, loopVars, stopping>>

(* A hole at nextSeq: skip to the oldest packet once that one is stale.    *)
SkipHole ==
  /\ pc = "flush"
  /\ LoopGoesOn /\ Hole /\ HeadIsStale
  /\ nextSeq' = [nextSeq EXCEPT ![cur] = Head(order[cur])]
  /\ UNCHANGED <<chanVars, bufVars, clockVars, loopVars, stopping>>

TimestampStep_Unlimited(k, ts) == (ts - lastInputTimestamp[k]) % TSSpace

(* uint32 subtraction: a step back in time is a huge step forward *)
TimestampStep(k, ts) ==
  LET delta == (ts - lastInputTimestamp[k]) % TSSpace
  IN  IF delta > MaxTimestampDelta THEN 0 ELSE delta

OutSeq_NoWrap(k) ==
  IF lastOutputTimestamp[k] = Nil THEN nextSeq[k] ELSE outgoingSeq[k] + 1
OutSeq_Kept(k) == nextSeq[k]
OutSeq(k) ==
  IF lastOutputTimestamp[k] = Nil THEN nextSeq[k] ELSE (outgoingSeq[k] + 1) % SeqSpace

OutTS(k, ts) ==
  IF lastOutputTimestamp[k] = Nil
    THEN ts
    ELSE (lastOutputTimestamp[k] + TimestampStep(k, ts)) % TSSpace

(* The order list without the entry of slot s, which is the first with s.  *)
PositionOf(entries, s) ==
  CHOOSE i \in DOMAIN entries :
    entries[i] = s /\ \A j \in 1 .. i - 1 : entries[j] # s

Without_HeadOnly(entries, s) == Tail(entries)
Without(entries, s) == RemoveAt(entries, PositionOf(entries, s))

Vacated_Kept(slots, s) == slots
Vacated(slots, s) == [slots EXCEPT ![s] = Nil]

(* Emit the packet at nextSeq, renumbered and retimed.                     *)
EmitPacket ==
  /\ pc = "flush"
  /\ LoopGoesOn /\ ~Hole
  /\ LET s == nextSeq[cur]
         p == buf[cur][s]
     IN  /\ emitted' = [emitted EXCEPT ![cur] =
                          Append(@, [id |-> p.id, orig |-> s, inTS |-> p.ts,
                                     seq |-> OutSeq(cur), ts |-> OutTS(cur, p.ts),
                                     stale |-> p.age > StaleAge])]
         /\ outgoingSeq' = [outgoingSeq EXCEPT ![cur] = OutSeq(cur)]
         /\ lastOutputTimestamp' = [lastOutputTimestamp EXCEPT ![cur] = OutTS(cur, p.ts)]
         /\ lastInputTimestamp' = [lastInputTimestamp EXCEPT ![cur] = p.ts]
         /\ buf' = [buf EXCEPT ![cur] = Vacated(@, s)]
         /\ order' = [order EXCEPT ![cur] = Without(@, s)]
         /\ nextSeq' = [nextSeq EXCEPT ![cur] = (s + 1) % SeqSpace]
  /\ sentInBatch' = sentInBatch + 1
  /\ UNCHANGED <<chanVars, pc, cur, stopping>>

FlushEnds == ~(LoopGoesOn /\ (Hole => HeadIsStale))

EndFlush ==
  /\ pc = "flush"
  /\ FlushEnds
  /\ LeaveFlush
  /\ UNCHANGED <<chanVars, bufVars, nextSeq, clockVars, stopping>>

(* The stopChan case of the select: a last flush, then Cleanup, then exit. *)
Drain ==
  /\ pc = "select"
  /\ stopping = "requested"
  /\ stopping' = "draining"
  /\ StartFlush
  /\ UNCHANGED <<chanVars, bufVars, nextSeq, clockVars>>

CleanupSlots(k) ==
  [s \in SeqNums |-> IF s \in ToSet(order[k]) THEN Nil ELSE buf[k][s]]

Cleanup ==
  /\ pc = "cleanup"
  /\ pc' = "done"
  /\ buf' = [k \in Kinds |-> CleanupSlots(k)]
  /\ order' = [k \in Kinds |-> << >>]
  /\ UNCHANGED <<chanVars, nextSeq, clockVars, cur, sentInBatch, stopping>>

Flushing == EnterFlush \/ SkipHole \/ EmitPacket \/ EndFlush

Next ==
  \/ \E in \in Inputs : Write(in)
  \/ TimePasses
  \/ Stop
  \/ Receive
  \/ Tick
  \/ Flushing
  \/ Drain
  \/ Cleanup

Spec == Init /\ [][Next]_vars

(***************************************************************************)
(* The goroutine runs whenever it can, and the clock advances.  The cases  *)
(* of a Go select are picked at random among those that are ready, so each *)
(* of them is taken if it is ready again and again.                        *)
(***************************************************************************)
Fairness ==
  /\ WF_vars(Flushing)
  /\ WF_vars(Cleanup)
  /\ WF_vars(TimePasses)
  /\ SF_vars(Receive)
  /\ SF_vars(Tick)
  /\ SF_vars(Drain)

FairSpec == Spec /\ Fairness

-----------------------------------------------------------------------------
(* Properties.                                                             *)

TypeOK ==
  /\ rtpChan \in Seq(Packet)
  /\ buf \in [Kinds -> [SeqNums -> BufferedPacket \cup {Nil}]]
  /\ order \in [Kinds -> Seq(SeqNums)]
  /\ nextSeq \in [Kinds -> SeqNums \cup {Nil}]
  /\ outgoingSeq \in [Kinds -> SeqNums]
  /\ lastInputTimestamp \in [Kinds -> Timestamps]
  /\ lastOutputTimestamp \in [Kinds -> Timestamps \cup {Nil}]
  /\ pc \in {"select", "enter", "flush", "cleanup", "done"}
  /\ cur \in Kinds
  /\ sentInBatch \in Nat
  /\ stopping \in {"no", "requested", "draining"}
  /\ arrived \in Nat
  /\ emitted \in [Kinds -> Seq(EmittedPacket)]

(***************************************************************************)
(* The order list names exactly the filled slots, each once.  The loop of  *)
(* flushBufferSet depends on it: an order entry with an empty slot at the  *)
(* head would make every later flush break at that entry for good.         *)
(***************************************************************************)
OrderIndexesBuffer ==
  \A k \in Kinds :
    /\ IsInjective(order[k])
    /\ \A s \in SeqNums : (buf[k][s] # Nil) <=> (s \in ToSet(order[k]))

(* Add makes room before it appends, so the buffer stays within its bound. *)
BufferBounded == \A k \in Kinds : Len(order[k]) <= MaxBufferSize

Copies(id) ==
  Cardinality({i \in DOMAIN rtpChan : rtpChan[i].id = id})
  + Cardinality({x \in Kinds \X SeqNums :
                   buf[x[1]][x[2]] # Nil /\ buf[x[1]][x[2]].id = id})
  + Cardinality({x \in Kinds \X (1 .. arrived) :
                   x[2] \in DOMAIN emitted[x[1]] /\ emitted[x[1]][x[2]].id = id})

(***************************************************************************)
(* A packet is in one place only: the channel, a slot, or the output.  No  *)
(* interleaving of Add, Flush and Cleanup sends one packet twice (which    *)
(* would also return its payload to packetPool twice).                     *)
(***************************************************************************)
AtMostOnce == \A id \in 1 .. arrived : Copies(id) <= 1

(***************************************************************************)
(* Whatever arrives, in whatever order and from however many sources, the  *)
(* sequence numbers handed to the RTSP server have no gap and no repeat    *)
(* ("Rewrite Timestamps / Sequence Numbers" in flushBufferSet).            *)
(***************************************************************************)
Consecutive(out) ==
  \A i \in 1 .. Len(out) - 1 : out[i + 1].seq = (out[i].seq + 1) % SeqSpace

GaplessOutput ==
  \A k \in Kinds :
    /\ Consecutive(emitted[k])
    /\ emitted[k] # << >> => outgoingSeq[k] = Last(emitted[k]).seq

(***************************************************************************)
(* The output clock never runs backwards and never jumps by more than      *)
(* MaxTimestampDelta, and packets that come out in time order keep their   *)
(* distance, also across flushes, wrap-around and a change of source.      *)
(***************************************************************************)
SteadyClock ==
  \A k \in Kinds : \A i \in 1 .. Len(emitted[k]) - 1 :
    LET a == emitted[k][i]
        b == emitted[k][i + 1]
        input == (b.inTS - a.inTS) % TSSpace
        output == (b.ts - a.ts) % TSSpace
    IN  output = IF input <= MaxTimestampDelta THEN input ELSE 0

(***************************************************************************)
(* A packet overtakes a missing one only when it has waited for longer     *)
(* than maxStalePacketAge: every other emitted packet is the successor of  *)
(* the one before it.                                                      *)
(***************************************************************************)
InOrderOrStale ==
  \A k \in Kinds : \A i \in 1 .. Len(emitted[k]) - 1 :
    \/ emitted[k][i + 1].orig = (emitted[k][i].orig + 1) % SeqSpace
    \/ emitted[k][i + 1].stale

(***************************************************************************)
(* A packet leaves its slot only to be emitted, replaced by a later copy   *)
(* of its sequence number, evicted as the oldest of a full buffer, or      *)
(* dropped at shutdown.                                                    *)
(***************************************************************************)
LossIsAccounted ==
  [][\A k \in Kinds : \A s \in SeqNums :
       (buf[k][s] # Nil /\ (buf'[k][s] = Nil \/ buf'[k][s].id # buf[k][s].id))
       => \/ emitted'[k] # emitted[k] /\ Last(emitted'[k]).id = buf[k][s].id
          \/ buf'[k][s] # Nil /\ buf'[k][s].id > buf[k][s].id
          \/ Len(order[k]) = MaxBufferSize /\ Head(order[k]) = s /\ pc = "select"
          \/ pc = "cleanup"]_vars

(* How often the loop of flushBufferSet may still go round: a packet for   *)
(* each place left in the batch, and a step over what is missing before it.*)
RoundsLeft == 2 * (MaxFlushBatch - sentInBatch) + (IF Hole THEN 1 ELSE 0)

(***************************************************************************)
(* Every round of the loop brings its end nearer, and nothing that happens *)
(* meanwhile puts it off: it skips and sends 2 * MaxFlushBatch + 1 times   *)
(* at most, so that the sender comes back to its select.                   *)
(***************************************************************************)
FlushComesDown ==
  [][pc = "flush" =>
       /\ RoundsLeft \in Nat
       /\ pc' = "flush" => RoundsLeft' <= RoundsLeft
       /\ SkipHole \/ EmitPacket => RoundsLeft' < RoundsLeft]_vars

Waiting ==
  ToSet(rtpChan) \cup
  {[id |-> buf[x[1]][x[2]].id, kind |-> x[1], seq |-> x[2], ts |-> buf[x[1]][x[2]].ts] :
     x \in {y \in Kinds \X SeqNums : buf[y[1]][y[2]] # Nil}}

RS == INSTANCE Resequencer WITH offered <- arrived, waiting <- Waiting, sent <- emitted

(***************************************************************************)
(* Channel, buffers, flushes and shutdown together implement Resequencer:  *)
(* every packet is sent at most once and never after it was lost, and what *)
(* is sent is one stream in number and time.                               *)
(***************************************************************************)
ImplementsResequencer == RS!Spec

Buffered(id) ==
  \E k \in Kinds : \E s \in SeqNums : buf[k][s] # Nil /\ buf[k][s].id = id

(* No packet is stuck in the jitter buffer behind one that never comes.    *)
EventuallyLeaves ==
  \A id \in 1 .. MaxPackets : Buffered(id) ~> ~Buffered(id)

(* RTPBridge.Stop waits for the sender goroutine: it does end.             *)
ShutdownCompletes == (stopping = "requested") ~> (pc = "done")
=============================================================================
