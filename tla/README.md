# MistLink: TLA+ models, model checking and proofs

MistLink takes media from three kinds of sources (WebRTC peers of a MistNet
room, OBS by WHIP, MPEG-TS-style RTP by UDP), serves one video and one audio
track of them over RTSP, and forwards media to WebRTC viewers. It is written in
Go: nearly every event (a signaling message, a state change of a connection, a
timer, a track) is handled by a goroutine of its own, and shared state is
guarded by many small mutexes that are released between reading and acting. What
is hard about this code is therefore the order in which those critical sections
run, and that is what the modules here are about.

Paths below are relative to `src/`, the repository.

## 1. Inventory

| Component | Code | State | Operations |
| --- | --- | --- | --- |
| Jitter buffer and RTSP sender loop | `internal/receiver/rtsp_buffer.go`, `rtp_sender.go` | `videoBuffer`/`audioBuffer` (65536 slots), `videoOrder`/`audioOrder`, next and outgoing sequence number, last timestamps, `rtpChan`, `stopChan` | `WriteRTP`, `rtpSenderLoop`, `Add`, `Flush`, `Cleanup` |
| RTP bridge | `internal/receiver/bridge.go`, `rtp_handler.go`, `sps_pps.go`, `sdp.go` | `activeTracks`, primary SSRC and active track id per kind, SPS and PPS with `started`, `pliHandlers`, packet listeners | `TrackStarted`, `TrackStopped`, `ExtractSPSPPS`, `SetSPSPPS`, `RequestIDR`, `RegisterPLIHandler`, `Stop` |
| UDP ingest | `internal/sender/mpegts_to_rtp.go` | one packet and read buffer; a map of SSRCs seen | `HandleMPEGTSStream` |
| OBS track broadcaster | `internal/stream/broadcaster.go` | receivers by peer id, cached SPS/PPS, `lastSeq` | `run`, `Subscribe`, `RemoveReceiver`, `checkSequenceGap` |
| RTSP server | `internal/rtsp/server.go` | `hasRealData`, `activeClientCount`, stream and media, one mutex | `StartServer`, `InitStream`, `StopRealData`, `Close`, `OnPlay`, `OnSessionClose`, dummy loop, `WritePacketRTP` |
| Track statistics and loss reports | `internal/receiver/stats.go`, `rtp_handler.go` | last sequence number | `checkSequenceGap`, `SendNACK` |
| Stream manager | `internal/stream/stream_manager.go`, `peer_connection.go`, `forwarder.go`, `obs_track.go`, `helpers.go` | peer connections, close handlers, `forwardedReceivers`, OBS tracks, broadcasters, all keyed by peer or track id, a mutex each | set/get/remove a connection, add an OBS track, forward tracks, register close handlers, clean up |
| Peer connections | `internal/sender/pc_factory.go`, `peer_connection.go` | the `webrtc.PeerConnection` objects and their callbacks | `CreatePeerConnection`, `Configure`, `EnsureOutgoingTracks`, reconnect, clean-up, `WaitForStableAndForward` |
| Relay of bridge packets | `internal/sender/relay_stream.go` | `pktChan`, `done`, a listener of the bridge | `HandleRelayStream`, its callback in `Broadcast` |
| Offer, answer, candidate callbacks | `internal/sender/handler.go`, `callbacks.go`, `internal/webrtc_utils/signaling.go` | `pendingCandidates` | one callback per type of message |
| Signaling client | `internal/signaling/client.go` | WebSocket, `sendChan`, a callback by type | `NewClient`, `SetCallbacks`, `readLoop`, `writePump`, `Send...` |
| AAC conversion | `internal/rtsp/aac_processor.go`, `internal/rtp_utils/opus_to_aac.go`, `converter.c` | decoder, encoder and the samples between them, `nextTS` | `Process`, `Close` |
| WHIP server | `internal/sender/whip_server.go` | none of its own | one HTTP handler |
| Startup, configuration, logging; RTP/RTCP helpers | `cmd/mistlink`, `internal/config`, `internal/logger`, `sender/run.go`, `rtp_utils/nal.go`, `webrtc_utils/rtcp.go` | flags, loggers | sequential start |

How they interact. A source (a peer's `HandleTrack`, an OBS broadcaster, the
UDP reader) calls the bridge: `TrackStarted`, then for each packet
`ExtractSPSPPS` and `WriteRTP`, at the end `TrackStopped`. The bridge gives one
track per kind the slot, and puts its packets into `rtpChan`; the sender
goroutine orders and renumbers them in the jitter buffer and writes them to the
RTSP server, which sends dummy packets as long as `hasRealData` is false. A
signaling message makes or finds a peer connection in the stream manager; the
connection's callbacks create tracks for it (of OBS through broadcasters, or a
relay that listens to the bridge), reconnect it or clean it up.

What is hard, and what makes each part correct:

* *Jitter buffer*: two lists that must agree through eviction, duplicates and
  removal from the middle; wrap-around of 16- and 32-bit numbers; a hole must
  hold packets up, but not for ever; the sender goroutine must end when asked to
  while packets keep coming. Correct: each packet is sent at most once, in order
  unless a hole went stale, under gapless numbers and a steady clock, and no
  packet is lost except for a reason the code names.
* *Bridge*: `TrackStopped` works in three critical sections, slots are keyed by
  SSRC *and* track id while `activeTracks` and `pliHandlers` are keyed by SSRC
  alone; parameter sets are read and set in two sections. Correct: a slot is held
  by a live track only, the stream is on exactly while it can be served, and a
  track's end does not disturb another's.
* *Loss reports*: arithmetic modulo 2^16, late packets. Correct: every hole is
  asked for once, and nothing that has arrived is (which one of the two versions
  does not keep: see 7).
* *Stream manager and peer connections*: tables keyed by peer id are changed on
  behalf of a connection, while the next connection of the same peer may already
  be there; callbacks and timers are late. Correct: what belongs to a connection
  ends with it, once, and its successor is left alone.
* *RTSP server*: the dummy loop acts on what it read before it let the mutex go;
  `Close` frees the converter and holds the mutex while sessions end. Correct: one
  late dummy packet at most, no packet to a freed converter, and Stop ends.
* *AAC conversion*: the clock counts frames, not what the source says, and what the
  decoder returns for a packet that it refuses counts as samples. Correct: the clock
  is wrong by exactly what was lost, refused and returned.
* *Signaling client*: a bounded queue before a goroutine that may be gone, a goroutine
  for every message that arrives. Correct: what was accepted is handled at most once
  and, while the connections hold, at last; little is accepted for nobody.
* *Negotiation*: offers, answers and candidates in any order at both ends, whose
  handlers run at once. Correct: a candidate is put aside or given to one connection,
  once, and no end waits for an answer that will not come.
* *Relay*: packets go on by reference while their reader goes on reading. Correct:
  copies are intact, a relay never goes back, and no viewer holds a reader up.

`PROJECT.json` lists each of these hazards at its line.

## 2. Modules

| Module | What it is |
| --- | --- |
| `Resequencer` | abstract: what becomes of packets that are offered to the RTSP server |
| `RTSPBuffer` | rtpChan, the sender goroutine and the jitter buffer; implements `Resequencer` |
| `RTSPBufferProofs` | theorems about it, the refinement included |
| `MediaSlots` | abstract: who may own a slot, and whose packets are admitted |
| `RTPBridge` | the bridge with its source goroutines; implements `MediaSlots` |
| `RTPBridgeProofs` | theorems about it, the refinement included |
| `SequenceGaps` | both versions of `checkSequenceGap`, and `SendNACK` |
| `SequenceGapsProofs` | theorems about it |
| `PeerSessions` | stream manager, peer connections, callbacks, start and end of relays |
| `PeerSessionsProofs` | theorems about it |
| `AACProcessor` | samples and clock of the audio conversion |
| `RTSPServer` | the RTSP server with its dummy loop, sessions and shutdown; extends `AACProcessor` |
| `RTSPServerProofs` | theorems about both |
| `Mailbox` | abstract: what the signaling layer promises |
| `SignalingClient` | clients of the signaling server; implements `Mailbox` |
| `SignalingClientProofs` | theorems about it, the refinement included |
| `Negotiation` | both ends of a peer connection; extends `Mailbox`, which carries its messages |
| `NegotiationProofs` | theorems about it |
| `Relay` | packets by reference and by copy, relays, the pool of buffers |
| `RelayProofs` | theorems about it |
| `MCRTSPBuffer`, `MCRTPBridge` | values of constants for TLC |

Definitions with an underscore in their name (`Evict_TooEarly`) are variants of the
definition after them with a plausible mistake; nothing refers to them. They are
there to show that each checked property notices a mistake in the code:
`PROJECT.json` pairs every property with one of them.

### Resequencer and RTSPBuffer

`Resequencer` says it without channel, slots, batches and clock: a packet that is
offered is lost or waits, one that waits is lost or sent, once, and what is sent of a
kind is one stream (`Continues`).

In `RTSPBuffer`, one action per case of the sender's `select` (`Receive`, `Tick`, `Drain`), and
one per iteration of the loop in `flushBufferSet` (`SkipHole`, `EmitPacket`,
`EndFlush`). `Write` is `WriteRTP` of an admitted packet, which drops it when
`rtpChan` is full. A slot keeps the age of its packet instead of the time it was
received; `TimePasses` ages them all. Output (`emitted`) is a history of what was
handed to the RTSP server, with the number and timestamp before and after
rewriting. Payloads are reduced to an id. The adaptive flush interval only decides
when a tick comes, so a tick may come at any time. The buffer's mutex is not
modelled: only the sender goroutine uses the buffer. `PROPERTY
ImplementsResequencer` is the refinement: what waits is what is in the channel or in
a slot, with the number and the time that the source gave it.

### MediaSlots and RTPBridge

`MediaSlots` states what the bridge promises about its sources: one owner per
kind, taken over only when free or by the same stream, given up when the owner
stops, and packets admitted only from an owner. `RTPBridge` has one action per
critical section: a track is "idle", then `RegisterPLIHandler`, `TrackStarted`,
`ReadPacket` / `SetParams` / `CheckActive` / `SendPacket` for each packet, and
`TrackStopped`, `DropPLIHandler`, `ReleaseStream` at its end. All UDP tracks share
one goroutine (`HasTurn`), and end only when the socket fails. Parameter sets are
reduced to who supplied them. `PROPERTY ImplementsSlots` is the refinement: `live`
is read off the program counters, `owner` is `activeVideoTrackID` and
`activeAudioTrackID`, `admitted` are the tracks between the two halves of
`WriteRTP`.

### SequenceGaps

Packets are counted without wrapping, the code sees `Wire(n) = n % SeqSpace`.
`Arrive` is one call of `checkSequenceGap` and, if it finds a hole, of `SendNACK`;
`Requested` is how the sender of the track reads the pairs (external).
`signed` says which of the two versions the reader calls. Packets come late and
twice in both; the OBS version then counts from the late packet on (`last` goes back),
so that the next one may be asked for again, with all that lies before it, or may be so
far ahead that it is taken for a restart (`skipped`, a history, as `latest` is).

### PeerSessions

A worker is a goroutine; `task[w].at` is its next step. The steps are the critical
sections of the stream manager and the calls of the WebRTC library, in the order
of the code: a maker (`CreatePeerConnection`) runs `Create`, `Configure`,
`EnsureOutgoingTracks`, `SendOffer`; a receiver (`HandleOfferAsReceiver`) runs
`Receive`, `Purge`, `Lookup`, `Accept`, `SetRemoteDescription`, `SendAnswer`; a
clean-up runs `CloseConnection`, `RemoveMatching`, `DeleteMarks`,
`RemoveReceivers`, `TakeHandlers`, `CallHandlers`; other tasks forward tracks to a
peer or wait for a stable connection. `HandleNotice` is the state callback,
`TimerFires` the end of the three seconds of
`scheduleReconnectIfStillDisconnected`. The library is external: a connection
becomes connected, disconnected or failed as the network pleases, `Close` raises
the Closed callback if callbacks have been configured.

### AACProcessor and RTSPServer

`Process` is one call of `AACProcessor.Process` with `transcode_frame` below it:
`pcmSize` counts the samples in the buffer, `nextTS` is the clock; what a sample is
does not matter. A packet is accepted or refused; for a refused one the decoder
returns one of `ErrorCodes`, negated, which the code adds to `pcmSize`. When that is
below zero, the next packet is decoded to memory before the buffer (`Write`,
`damaged`); what such a process does then is not followed. `heard`, `lost`, `taken`
and `mute` are histories. `RTSPServer` has one
action per critical section of the server's mutex and the steps between two:
`Tick`, `Snapshot` (under the mutex), `WriteDummy` (after it) for the dummy loop;
`Request` and then `OnDescribe` or `OnSetup`, `OnPlay`, `OnSessionClose` for a client,
all of which gortsplib calls; `FetchServer` and
`EndFlush` around the writes of the bridge's sender; `CloseStopChan`, `Close`,
`CloseReturns` for `RTPBridge.Stop`. `Close` does not let the mutex go before the
library has closed every session and every handler that runs has returned: `Locked`
is a guard of all other sections.

### Mailbox, SignalingClient and Negotiation

`Mailbox` says what the layers above the client may rely on, which is little: an
accepted message is handled by whom it is for, at most once, in any order, perhaps
never. `SignalingClient` shows that the client gives that (`ImplementsMailbox`),
and `Negotiation` is built on it: its messages are those of `Mailbox`, so that what
holds there holds for every order that the client and its goroutines can produce.
In `SignalingClient` the server is external: it relays to the members of the room,
in order. Handlers are not part of the module: a message counts as handled when its
goroutine has been started, and any goroutine of a client, a handler or another, may
call `Send` at any time, to anybody. In `Negotiation` a task is a goroutine between two of its steps; the
steps are those of the callbacks of `sender` up to the next look at shared state.
`webrtc.PeerConnection` is reduced to its signaling state, to whether it has a
remote and a local description, and to whether ICE has been started; a rollback may
fail or succeed. Any connection that ICE has been started for may fail, also one that
another has replaced; its callback closes it, forgets it and reconnects (`Fail`,
`Forget`, `ReconnectAsInitiator`, `ReconnectAsReceiver`). The queue may refuse an offer
(`Refused`), which `CreatePeerConnection` answers by closing its connection; no caller
does anything when it refuses another message, which is then one that is never
handled.

### Relay

A reader's memory holds the number of the packet that its header and its payload
are of; a queue holds references, so that `Present` tells what a relay sees when it
looks. `WriteHeader` and `WritePayload` are the two moments at which the library
looks. The RTSP server's copies are in cells, which are in `packetPool` or in use.

## 3. Runs

| Run | Module, configuration | Instance | Distinct states |
| --- | --- | --- | --- |
| `buffer` | `MCRTSPBuffer`, `RTSPBuffer.cfg` | 4 packets out of 5 | 631,458 |
| `buffer_live` | `MCRTSPBuffer`, `RTSPBufferLive.cfg` | 3 packets, fairness | 9,800 |
| `bridge` | `MCRTPBridge`, `RTPBridge.cfg` | 3 video tracks, 2 with one SSRC | 935,904 |
| `bridge_sources` | `MCRTPBridge`, `RTPBridgeSources.cfg` | UDP video and audio, a peer, an offer, fairness | 849,360 |
| `gaps` | `SequenceGaps`, `SequenceGaps.cfg` | 5 arrivals out of 19 packets | 609,363 |
| `sessions` | `PeerSessions`, `PeerSessions.cfg` | 2 peers, one that asks and one that offers, 2 connections, 2 goroutines, 1 OBS track, 3 events, fairness | 861,841 |
| `rtsp_server` | `RTSPServer`, `RTSPServer.cfg` | 2 sessions with 2 PLAYs each, audio of 9 samples, error codes, fairness | 814,897 |
| `signaling` | `SignalingClient`, `SignalingClient.cfg` | 2 clients, 4 messages each, a queue of 1, fairness | 262,807 |
| `negotiation` | `Negotiation`, `Negotiation.cfg` | 3 connections, 1 candidate an end, 1 renegotiation, 1 failure, 1 refusal | 2.25 million |
| `relay` | `Relay`, `Relay.cfg` | 2 readers with 2 packets each, 1 relay, 3 buffers, fairness | 1.41 million |
| `sessions_marks`, `negotiation_lost_offer` | | violated: see 6 | |

### What they show

`buffer`: `OrderIndexesBuffer` (the two representations agree), `AtMostOnce` (a
packet is in one place: its payload goes back to the pool once), `SteadyClock` and
`InOrderOrStale` (what an RTSP client sees), `LossIsAccounted` (what a step may do to a
packet), `FlushComesDown` (the loop in `flushBufferSet`, which skips and sends in turn,
comes to its end whatever is written meanwhile), and `ImplementsResequencer`, which adds gapless numbers and that nothing is sent which was
not waiting. `buffer_live`: no packet stays behind a hole that is never filled
(`EventuallyLeaves`), and `Stop` does not wait in vain (`ShutdownCompletes`).

`bridge`: `SlotsConsistent`, `KeyframeHandlers` and `ImplementsSlots` while a peer
reconnects with the SSRC it had and its old goroutine is still on its way out.
`bridge_sources`: `StreamMatchesServer`, `ParametersDieWithLastTrack`,
`ServedStreamGoesOn` over all interleavings of the three sections of `TrackStopped`
with packets, an offer and `Stop`; `SilentSourceYields`, `KeyframeRequested`.

`gaps`: `HolesAreAsked` (but for what an OBS reader steps over as at a restart),
`AsksOnlyForMissing` (only for numbers that have not arrived, and once; the OBS reader
right after a late packet asks for more, and the property says for what at most).

`sessions`: `HandlersAccounted` (the close handler of every running relay is in
exactly one place, so it is neither lost nor called twice; called twice, it would
close a closed channel and end the program), `SuccessorIsKept` (a late clean-up
that compares before it removes leaves an open successor in the table) and
`LostIsForgotten` (a lost connection recovers or leaves the table).

`rtsp_server`: `OneLateDummy` and `ConverterAlive` (an order of steps each),
`ClientsCounted`, `AudioClock` (the clock of converted audio is behind the source's
by what was lost, refused or encoded to nothing and by the decoder's error codes, and
by nothing else), `SamplesFit` (the decoder never writes behind its buffer, and before
it only after error codes), `StopCompletes` (Stop ends, unless a session is open or a
DESCRIBE or SETUP in progress: then it need not, see 7).

`signaling`: `ImplementsMailbox`, `SilentLossBounded` (after a write error at most a
queue of messages is accepted for nobody), `AcceptedIsHandled`.

`negotiation`: `CandidatesOnce`, for both ends and every order of messages, answers and
failures: a candidate that has come is put aside or given to one connection, never
both, never twice, and never neither. That one which is put aside is given later is
not so: see 7.

`relay`: `CopiesIntact` (the reader may reuse its memory and the pool its buffers,
the RTSP server is written what was read), `RelayNeverGoesBack` (the strongest that
holds of relayed packets: see 7), `ReaderGoesOn` (no reader waits for a viewer).

### Bounds, and why they are enough

* `RTSPBuffer`: `SeqSpace` 5, `TSSpace` 16, `MaxTimestampDelta` 3,
  `MaxBufferSize` 2, `MaxFlushBatch` 2, `ChanCap` 2, `StaleAge` 1,
  `MaxPackets` 4, instead of 2^16, 2^32, 90000, and hundreds. Four packets fill a
  buffer of two, evict, wrap around, repeat a number, leave a hole that goes
  stale, fill a batch and fill the channel; each constant is the least with which
  its case occurs. The theorems hold without these bounds.
  `RTSPBufferLive.cfg`: `SeqSpace` 4, `TSSpace` 8, `MaxBufferSize` 3,
  `StaleAge` 0, 3 packets.
* `RTPBridge`: two incarnations of an SSRC and a competitor are what the
  comparisons in `TrackStarted` and `TrackStopped` tell apart. `MaxRequests` 1
  bounds the keyframe requests that wait; it delays a track's start until one
  has run. `Contents` says what packets may carry: in the run about slots and
  handlers, no parameter sets, which do not bear on them.
* `SequenceGaps`: `SeqSpace` 16, `NackBitmapSize` 2, `RestartGap` 5, `MaxSent` 18
  (packets 0 to 18: past the wrap-around), `MaxArrivals` 5. `MaxDelay` 8 and
  `MaxJump` 7 are the largest distances that a signed comparison of a space of 16
  can tell apart (`WindowAssumption`). A hole of 6 needs two pairs. Five arrivals are a
  first packet, a hole, a late packet out of it, a step from there, and one more.
* `PeerSessions`: an old connection and its successor are what the tables confuse;
  two goroutines are the old one's and the new one's. `MaxEvents` 3 bounds messages
  and losses of connection together. `Connect`, `HandleNotice`, timers and every
  step of a goroutine are not bounded by it. One peer is asked for and another
  offers, because `LostIsForgotten` holds only if a peer's own offers do not race
  with requests for it; see 7. `MaxViewers` 3 is the code's limit.
* `RTSPServer`: `OpusFrame` 3 and `AACFrame` 4 stand for 960 and 1024 (a packet does
  not fill a frame, two do, and a rest remains); `TSSpace` 16 and `StartTS` 14 let
  the clock wrap around at once; `MaxHeard` 9 is three packets and two frames.
  `ErrorCodes` {1} and `MaxTaken` 2 let the size go below zero before the first packet
  is accepted, and from a rest of samples to none. `MaxPlays` 2 lets a session play again, `MaxSwitches` 1 real data come once.
* `SignalingClient`: `ChanCap` 1 stands for 256: full, and not full. Of 4 messages
  two introduce the client, so that the others can be in the queue and in hand, or in
  hand and on the way, at both clients at once.
* `Negotiation`: `MaxConns` 3 is as many as an end makes in the `negotiation` run
  (with 4 TLC finds the same states); `MaxRefusals` 1 lets the queue refuse any one
  of the offers; `MaxFailures` 1 gives a reconnect from either end,
  `MaxOffers` 1 a renegotiation that may meet it, `MaxCandidates` 1 a candidate
  before, between and after the descriptions. `negotiation_lost_offer` needs
  `MaxFailures` 2 and none of the others.
* `Relay`: queues and buffer of 2, 1 and 1; 3 buffers are one more than can be in
  use at the same time (`RelayAssumption`), so that the pool is never waited for,
  as `sync.Pool` never is. Two packets a reader are one to be overtaken and one
  that overtakes.

`CHECK_DEADLOCK FALSE` is stated for all but the buffer: elsewhere tracks end,
arrivals, messages and events are bounded, and the system may really stop. The
buffer cannot, if only because the clock goes on.

### Fairness

* `RTSPBuffer`: weak fairness of the steps of a running flush, of the clean-up and
  of the clock; strong fairness of the three cases of `select`, because Go picks at
  random among those that are ready. Nothing is assumed of producers or of `Stop`.
* `RTPBridge`: weak fairness of what a running goroutine does next, of
  `RequestIDR` and of the keyframe handlers; and of the end of a track whose source
  has gone silent, because reads have a deadline (15 s in `HandleTrack`, 5 s in the
  broadcaster). None for UDP, whose read has no deadline, none for sources or
  clients.
* `PeerSessions`: weak fairness of "some goroutine, callback or timer that is due
  goes on". None for messages, peers or the network. It is weaker than fairness of
  every goroutine.
* `RTSPServer`: weak fairness of the dummy loop's section and write, of a flush's end
  and of the steps of `Close`; strong fairness of the cases `closeChan` and `stopChan`
  of a `select`. None for clients and their handlers, tracks, tickers or the caller of
  `Stop`.
* `SignalingClient`: weak fairness of the pump and the reader of each client. None for
  who sends, for the start, or for when a lost connection is noticed.
* `Relay`: weak fairness of each reader once it has a packet; none for relays and
  the sender, which is the point of `ReaderGoesOn`.
* `Negotiation` has none: its properties are invariants.

## 4. Proofs

All of these are checked by TLAPS for every value of the constants that satisfies
the named `ASSUME`s of the module (`SpaceAssumption`, `TrackAssumption`,
`NoneAssumption`, ...), which say that sizes are numbers, sentinels are not
values, tracks have a kind and an SSRC, and what the code's constants have in common
with every instance: a decoded packet is not longer than a frame (`FrameAssumption`),
and the pool has a buffer for every packet in use (`RelayAssumption`).

**RTSPBufferProofs**: `TypeCorrect`, `OrderIsIndex`, `BufferIsBounded`,
`OutputIsGapless`, `OutputInOrder`, `ClockIsSteady`, `SentAtMostOnce`,
`EveryLossAccounted`, `FlushesComeDown`, `BufferImplementsResequencer`. There are four inductive invariants, each used by the
next.

* `Inv`: types, the order list as an index of the slots, the bound and gapless
  numbers, with `Wellformed`: while a flush runs it has a number to wait for
  (otherwise the arithmetic of `SkipHole` is about nothing), and the output timestamp
  of a kind is unset exactly before its first packet (which is when `OutSeq` may start
  anywhere). The work is in the lemmas on the order list: removing its head, removing
  from its middle (`WithoutIndexes`) and appending keep it an injective list of exactly
  the filled slots.
* `OrderInv`: a kind waits for the successor of what it emitted last, unless the flush
  that is running has just skipped a hole; then the packet it stands at is stale, and
  the next round emits it (`AtStale`). `InOrderOrStale` alone is not inductive: it says
  nothing of `nextSeq`.
* `ClockInv`: the last timestamps are those of the last packet emitted (`Remembers`).
  The rest is arithmetic modulo `TSSpace` (`AddAndTakeAway`).
* `PlaceInv`: a packet's id is its number, and the channel is a queue. So what is in
  slots or was emitted came before all that is in the channel, and no two places have
  one id. A duplicate replaces a slot's packet by one that has just left the channel;
  that is why ids, not sequence numbers, are what is apart.

`FlushesComeDown` is the safety half of both liveness properties: a round of the loop
in `flushBufferSet` lowers `RoundsLeft`, twice what is left of the batch plus one while
it stands before a hole, so that a flush ends after at most 2 * `MaxFlushBatch` + 1
rounds. A skip does not count towards the batch in the code; the bound holds because
a skip is always followed by a packet. The refinement maps `Write` to `Take` or `Refuse`,
`EmitPacket` to `Send`, eviction, replacement and clean-up to `Lose`, and the rest to
stutters; it needs all four invariants, `PlaceInv` because a packet that is sent or
replaced must leave the waiting set for good.

**SequenceGapsProofs**: `RunIsAsked`, `EveryHoleIsAsked`, `OnlyMissingIsAsked`.
`RunIsAsked` is about `SendNACK` alone: for every bitmap size and every run of lost
numbers no longer than the number space, the pairs it makes ask for exactly the run.
`NackPairs` is a recursive function, and the theorems of the library that do induction take
an operator; the proof takes the least counterexample instead (`LeastElement`), and
shows that the function exists by building it from the end of the run (`PairsExist`).
`GapsInv` adds that the last number is that of the newest packet or, in the OBS version,
of the one that came last, and that nothing is asked for beyond the newest
(`UpToNewest`). The step of an arrival goes by where it falls: ahead of the packet that
the reader counts from, which is the only case that asks, or behind, which asks for
nothing. A signed comparison tells these apart within `WindowAssumption`; the OBS
version tells them apart because `RestartGap` is less than half the number space, and
what it asks for after a late packet lies between that and the next (`OnlyMissingIsAsked`,
for late packets of both versions).

**RTPBridgeProofs**: `TypeCorrect`, `SlotsAreConsistent`, `ActiveTrackIsLive`,
`StreamAndServerAgree`, `NoParametersWithoutTracks`, `HandlersAreKept`,
`BridgeImplementsSlots`, and `DistinctSSRCsServe` under the additional assumption
that no two tracks share an SSRC (without it the property is false: see 7). The
invariant adds `ActiveTracksAreLive` (a key of `activeTracks` belongs to some live
track, so that the third section of `TrackStopped` keeps the stream only for a
track that is live: it may err, see 7, but only by ending the stream too early)
and `ServerUntilStopped`. The refinement maps each
action to one of `MediaSlots` or to a stutter; it needs `SlotsConsistent`, because
the code compares SSRCs where `MediaSlots` compares owners.

**PeerSessionsProofs**: `TypeCorrect`, `HandlersCalledOnce`, `SuccessorsAreKept`.
The invariant says of every goroutine (`Sound`) that it holds handlers only at the
step that calls them, marks only a map that is in the table, and looks for an entry
to remove only when it has closed its connection; of the relays of a connection
that they are numbered, so that a new handler is a new one (`Numbered`); and of
callbacks and the table that they refer to connections that exist. Every action
has a lemma of its own; `StepInv` reduces each to what it does to the connections,
the tables and one task.

**RTSPServerProofs**: `TypeCorrect`, `DummyIsLateOnce`, `NeverFreedInUse`,
`NoOverflow` (`SamplesFit`: the decoder's output does not go past the transcoder's
buffer, and before it only after error codes), `ClockFallsBehindByLoss`,
`CountIsExact`. The decoder's error codes may be any positive numbers, negated
(`CodeAssumption`). The invariant `Inv` is the conjunction of
the types with: a late dummy packet has been written only if the loop is not about
to write another; the converter is freed only after the sender has ended; fewer
samples than a frame are in the buffer between packets, and no fewer than what error
codes have taken, negated; and `AudioClock`, whose
step is arithmetic modulo `TSSpace` (lemmas `ModUnique`, `Division`, `Wraps`).
`CountIsExact` adds its own invariant, that the count is the cardinality of the
sessions that play, which a step changes by one member at most (`CountStep`).

**SignalingClientProofs**: `TypeCorrect`, `SilentLossIsBounded`,
`ClientsImplementMailbox`. `ClientInv` says how a client's parts hang together (who
is at work is connected; once a write has failed the pump is gone, so that the queue
only grows, up to its capacity). `MailInv` says where a message is: in one queue, in
one hand, or on its way to clients that have not handled it; and that a number not
given out yet has not been accepted. With it a successful `Send` is `Post`, a handler
that begins is `Handle`, and every other step is a stutter of `Mailbox`.

**NegotiationProofs**: `CandidatesGivenOnce`. The invariant says that connections are
made in order, so that the next one is new, and that ICE has been started only for
connections that have been made; that a task works on a connection that has been made;
that a task which is about to put a candidate aside is the only one that has it; and
that a candidate which waits or has been given has been handled, so that the mailbox
does not hand it out again. `CandidatesOnce` is not inductive without these. The other
way round, that what is handled waits or has been given, goes by what a step handles:
only two of them handle candidates.

**RelayProofs**: `CopiesStayIntact`, `BuffersAreBounded`, `RelaysNeverGoBack`. `CopyInv`: a buffer is in the
pool or belongs to one packet, and a reader's memory is one packet from the moment it
hands it on until the next read, which is when the copy is made. `PoolInv`: the
buffers in use are those of packets on their way, which the channel and the sender's
buffer bound, the packet that is being written included (`BuffersAreBounded`). `RelayInv`: a relay's
queue is in the order of its reader, nothing in it is younger than the reader's
memory, and the header in hand is not older than what was written. With `Present`,
which only grows, the next packet is never older than the last.

Not proved, and only model-checked: liveness under fairness (`EventuallyLeaves`,
`ShutdownCompletes`, `SilentSourceYields`, `KeyframeRequested`, `LostIsForgotten`,
`StopCompletes`, `AcceptedIsHandled`, `ReaderGoesOn`), which is
outside what the proof system handles. Every other property of the passing runs is a theorem. The
type invariants of `SequenceGaps`, `Negotiation` and `Relay` are proved as far as
their theorems need them.

## 5. Not modelled, and why

WHIP has no state of its own: a request makes a connection and reports its tracks to
the stream manager, whose part is in `PeerSessions`. Startup, configuration and
logging are sequential; the retry over ports in `StartServer` and `StartWHIPServer`
is a loop without shared state. The broadcaster's cached parameter sets are written
and read by different goroutines without a common mutex (`broadcaster.go:141` onwards);
what a reader of them can see is a matter of the Go memory model, and they are left
out. The RTSP protocol is gortsplib's, ICE and SDP are pion's, conversion is
libopus' and fdk-aac's, relaying messages is the signaling server's: they appear
only as what the code can see of them. Counters that are only logged, wording and
layout are left out everywhere.

## 6. What the code does not keep

Two runs are expected to fail; each is a behaviour of the code.

1. `sessions_marks` (`StreamIsOffered`): a peer that asks again gets a connection
   without tracks, because `forwardedReceivers` still says that it has them
   (`forwarder.go:61`).
2. `negotiation_lost_offer` (`NothingHalfOpen`): both ends of a connection reconnect
   after failures, and two offers reach one end at once. One goroutine makes a
   connection, the other finds it in the table and sets its remote description
   first; the first fails on its own new connection, closes it and does not try
   again (`handler.go:105`), the other then fails on the closed connection. Neither
   offer is answered, and the initiator waits for ever.

## 7. Other observations

Met while modelling; no run states them, because nothing in the repository promises
otherwise, because they are plain from the code, or because they follow from a
property that is stated with an exception for them.

Bridge and sources:

* A peer restarts with its SSRC before its old goroutine has ended: the late
  `TrackStopped` of the old track sees that it is old and keeps the slot, but removes
  the SSRC from `activeTracks`, finds it empty and ends the stream that the new track
  is serving (`bridge.go:160,188`). `ServedStreamGoesOn` is checked and proved for
  distinct SSRCs; with one SSRC twice TLC finds it violated.
* A video track that is turned away by `TrackStarted` never gets the slot later,
  also when it is the only one left.
* The track of a UDP publisher that has gone keeps its slot until the socket fails,
  so a publisher that restarts with another SSRC is ignored.
* `RTPBridge.Stop` is only reached when the WHIP URL cannot be parsed; parameter
  sets that arrive after it start a server that nobody closes. A stream started by
  an offer without any track suppresses the dummy packets.
* SPS and PPS are never replaced while a stream is on, so a change of resolution
  keeps the old ones. SSRC 0 is taken for "unset".
* A duplicate of the packet at the head of the buffer makes it young again.
* The broadcaster's version of `checkSequenceGap` moves back on a late packet, such as
  its own loss reports bring about, and asks again, and for what has arrived
  (`broadcaster.go:208-232`; the exception in `AsksOnlyForMissing`). If the
  next packet is more than 100 ahead of the late one, that is taken for a restart, and a
  hole right before it is never asked for (the exception in `HolesAreAsked`). The broadcaster gives receivers the raw SPS and PPS units where
  they expect RTP packets (`broadcaster.go:49-58`).

RTSP server and audio:

* `Close` holds the mutex while gortsplib waits for the sessions to end, and a
  session's `OnSessionClose` waits for the mutex: with an open session `Stop` never
  returns (`server.go:267-287,320-327`). Nor does it when a DESCRIBE or a SETUP comes
  while `Close` has the mutex and no session is open, because their handlers take it
  too (`server.go:289-305`). These are the exceptions in `StopCompletes`.
* Every PLAY raises the count of clients, every end of a session lowers it: a client
  that plays twice leaves it up, one that never plays takes another's place
  (`server.go:311,320`; the premise of `ClientsCounted`).
* Lost audio is never made up for (`AudioClock`), and packets that are swallowed by
  the conversion leave gaps in the sequence numbers.
* A decoder's error code is added to the number of samples unchecked
  (`converter.c:32-35`). The clock falls behind by it, and a size that it has brought
  below zero makes the next packet be decoded to memory before the buffer (`damaged`;
  the exceptions in `SamplesFit` and `AudioClock`).

Signaling and negotiation:

* Messages that arrive before `SetCallbacks` are dropped (`run.go:55,122`). After a
  write error the pump is gone, senders are not told, and nobody connects again.
* An answer that `SendAnswer` could not queue leaves the offering end waiting. For an
  offer that could not be queued, `CreatePeerConnection` closes its connection, which
  stays in the table until its Closed callback, and nobody tries again; in a
  renegotiation the connection is left in have-local-offer.
* Candidates that are put aside at the answering end, or after the flush, wait for
  an answer that need not come (`callbacks.go:127`): `CandidatesOnce` says that they
  are not lost, not that they are ever added.
* The answer to an offer of an older connection is applied to the newer one, if that
  is waiting for one.
* Of two ends only the greater id makes connections: a newcomer with the greater id
  gets none unless it is told of the members, who skip its request
  (`callbacks.go:172`).
* Both ends may renegotiate at once. The one that has an offer out withdraws it, if
  the library can, and answers; nothing offers the withdrawn tracks again.

Connections and relays:

* The clean-up of an old connection takes the close handlers of the *peer*, and so
  stops the relay of the open connection that has replaced it
  (`stream/peer_connection.go:43`).
* The number of viewers is compared before the goroutine that adds one starts, and
  viewers served by a relay are not counted (`callbacks.go:178`), so more are
  accepted than the limit says.
* A connection is in the table before its callbacks are set: if an offer of the same
  peer closes it in between, no callback removes it.
* The Failed callback of a superseded connection reconnects, and replaces a healthy
  one. OBS tracks and WHIP connections are never forgotten.
* The UDP reader has one packet and one buffer (`mpegts_to_rtp.go:30,33`), and the
  relay queues the packet by reference (`relay_stream.go:30`): what it writes may be
  a later packet than it was given, twice the same, or the header of one with the
  payload of another. `RelayNeverGoesBack` says what is left.

## 8. Plan

Done, in this order: `RTSPBuffer` with proofs; `MediaSlots`, `RTPBridge` with
proofs; `SequenceGaps` with proofs; `PeerSessions` with proofs; `AACProcessor`,
`RTSPServer` with proofs; `Mailbox`, `SignalingClient` and `Negotiation` with proofs;
`Relay` with proofs; `Resequencer` and its refinement. Next:

1. Variants like `RoundsLeft` for the other loops whose end is a liveness property:
   the steps of a clean-up in `PeerSessions`, of `Stop` in `RTSPServer`.
2. The broadcaster's receivers, which come and go while a packet is written, as a
   module of its own.

## 9. Running it

`tlc -config RTPBridge.cfg MCRTPBridge.tla` checks a run (the table in 3 names
module and configuration), `tlapm RTPBridgeProofs.tla` checks the proofs of a module.
