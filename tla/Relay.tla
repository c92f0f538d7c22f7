--------------------------------- MODULE Relay ---------------------------------
(***************************************************************************)
(* What becomes of the packets that sources hand to the bridge: each goes  *)
(* to the relays of the peers, by reference, and to the sender of the RTSP *)
(* server, in a copy with a buffer of the pool.  A relay is a goroutine    *)
(* behind a bounded queue.                                                 *)
(*                                                                         *)
(* HandleMPEGTSStream (a reader in Reusing) reads every packet into the    *)
(* same memory; pion gives the others a new one each time.  A packet is    *)
(* its reader and its number; memory holds the numbers of the packets that *)
(* its header and its payload are of.  Left out: the readers of the tracks *)
(* of a relay's own peer, which it ignores; packets that do not parse;     *)
(* which packets the sender writes and when (RTSPBuffer); which sources    *)
(* are let in, and whether the stream is on (RTPBridge).                   *)
(***************************************************************************)
EXTENDS Integers, Sequences, FiniteSets, SequencesExt

CONSTANTS
  Readers, Reusing,
  Relays,
  PktCap,       \* capacity of pktChan
  RtpCap,       \* capacity of rtpChan
  BufferSize,   \* packets that RTSPBuffer holds
  Cells,        \* payload buffers, in packetPool or in use
  MaxPackets    \* bound on the packets of a reader

ASSUME RelayAssumption ==
  /\ Reusing \subseteq Readers
  /\ PktCap \in Nat \ {0} /\ RtpCap \in Nat \ {0} /\ BufferSize \in Nat \ {0}
  /\ MaxPackets \in Nat
  /\ IsFiniteSet(Cells)
  /\ Cardinality(Cells) > RtpCap + BufferSize

VARIABLES
  at,           \* by reader: "read", "parse", "fanout"
  count,        \* by reader: number of its present packet
  mem,          \* by reader: what its memory holds
  todo,         \* by reader: listeners still to be called with the packet
  listeners,    \* packetListeners
  state,        \* by relay: "none", "running", "ended"
  done,         \* relays whose close handler has run
  pktChan, inHand,  \* by relay: its queue, and the packet it is writing
  wrote,        \* by relay and reader: header and payload it wrote last
  packetPool, cell, \* free buffers; what each holds
  rtpChan,
  held,         \* packets in the buffer of the sender
  sending       \* the packet it writes to the server: a sequence of one, or none

readVars == <<at, count, mem, todo>>
relayVars == <<listeners, state, done, inHand, wrote>>
poolVars == <<packetPool, cell>>
sendVars == <<rtpChan, held, sending>>
vars == <<readVars, relayVars, pktChan, poolVars, sendVars>>

Init ==
  /\ at = [r \in Readers |-> "read"] /\ count = [r \in Readers |-> 0]
  /\ mem = [r \in Readers |-> [header |-> 0, payload |-> 0]]
  /\ todo = [r \in Readers |-> {}]
  /\ listeners = {} /\ done = {}
  /\ state = [l \in Relays |-> "none"]
  /\ pktChan = [l \in Relays |-> << >>] /\ inHand = [l \in Relays |-> << >>]
  /\ wrote = [l \in Relays |-> [r \in Readers |-> [header |-> 0, payload |-> 0]]]
  /\ packetPool = Cells /\ cell = [c \in Cells |-> << >>]
  /\ rtpChan = << >> /\ held = {} /\ sending = << >>

-----------------------------------------------------------------------------
(* Readers.                                                                *)

(* The payload arrives where the last one was.                             *)
ReadPacket(r) ==
  /\ at[r] = "read" /\ count[r] < MaxPackets
  /\ at' = [at EXCEPT ![r] = "parse"]
  /\ count' = [count EXCEPT ![r] = @ + 1]
  /\ mem' = [mem EXCEPT ![r].payload = count'[r]]
  /\ UNCHANGED <<todo, relayVars, pktChan, poolVars, sendVars>>

(* Unmarshal; and WriteRTP as far as the snapshot of the listeners.        *)
StartBroadcast(r) ==
  /\ at[r] = "parse"
  /\ at' = [at EXCEPT ![r] = "fanout"]
  /\ mem' = [mem EXCEPT ![r].header = count[r]]
  /\ todo' = [todo EXCEPT ![r] = listeners]
  /\ UNCHANGED <<count, relayVars, pktChan, poolVars, sendVars>>

(* The queue is waited for.                                                *)
Enqueue_Waits(l, r) ==
  /\ Len(pktChan[l]) < PktCap
  /\ pktChan' = [pktChan EXCEPT ![l] = Append(@, [reader |-> r, n |-> count[r]])]

(* A packet may overtake those that wait.                                  *)
Enqueue_Unordered(l, r) ==
  IF Len(pktChan[l]) >= PktCap
  THEN UNCHANGED pktChan
  ELSE \E i \in 1..Len(pktChan[l]) + 1 :
         pktChan' = [pktChan EXCEPT ![l] = InsertAt(@, i, [reader |-> r, n |-> count[r]])]

(* The callback of HandleRelayStream: a full queue drops the packet.       *)
Enqueue(l, r) ==
  pktChan' = IF Len(pktChan[l]) >= PktCap
             THEN pktChan
             ELSE [pktChan EXCEPT ![l] = Append(@, [reader |-> r, n |-> count[r]])]

CallListener(r, l) ==
  /\ at[r] = "fanout" /\ l \in todo[r]
  /\ Enqueue(l, r)
  /\ todo' = [todo EXCEPT ![r] = @ \ {l}]
  /\ UNCHANGED <<at, count, mem, relayVars, poolVars, sendVars>>

(* The copy for the sender goes to rtpChan or, when that is full, its      *)
(* buffer back to the pool.                                                *)
CopyPacket(r) ==
  /\ at[r] = "fanout" /\ todo[r] = {}
  /\ at' = [at EXCEPT ![r] = "read"]
  /\ \E c \in packetPool :
       /\ cell' = [cell EXCEPT ![c] = <<r, mem[r].payload>>]
       /\ IF Len(rtpChan) < RtpCap
          THEN /\ rtpChan' = Append(rtpChan, [reader |-> r, n |-> mem[r].header, cell |-> c])
               /\ packetPool' = packetPool \ {c}
          ELSE UNCHANGED <<rtpChan, packetPool>>
  /\ UNCHANGED <<count, mem, todo, relayVars, pktChan, held, sending>>

-----------------------------------------------------------------------------
(* HandleRelayStream.                                                      *)

StartRelay(l) ==
  /\ state[l] = "none"
  /\ state' = [state EXCEPT ![l] = "running"]
  /\ listeners' = listeners \cup {l}
  /\ UNCHANGED <<done, inHand, wrote, readVars, pktChan, poolVars, sendVars>>

CloseRelay(l) ==
  /\ l \notin done
  /\ done' = done \cup {l}
  /\ UNCHANGED <<listeners, state, inHand, wrote, readVars, pktChan, poolVars, sendVars>>

TakePacket(l) ==
  /\ state[l] = "running" /\ inHand[l] = << >> /\ pktChan[l] # << >>
  /\ inHand' = [inHand EXCEPT ![l] = <<Head(pktChan[l])>>]
  /\ pktChan' = [pktChan EXCEPT ![l] = Tail(@)]
  /\ UNCHANGED <<listeners, state, done, wrote, readVars, poolVars, sendVars>>

(* What the memory of a packet holds when it is looked at.                 *)
Present(p) ==
  IF p.reader \in Reusing THEN mem[p.reader] ELSE [header |-> p.n, payload |-> p.n]

(* WriteRTP copies the header first and the payload later.                 *)
WriteHeader(l) ==
  /\ Len(inHand[l]) = 1
  /\ inHand' = [inHand EXCEPT ![l] = <<@[1], Present(@[1])>>]
  /\ UNCHANGED <<listeners, state, done, wrote, readVars, pktChan, poolVars, sendVars>>

WritePayload(l) ==
  /\ Len(inHand[l]) = 2
  /\ wrote' = [wrote EXCEPT ![l][inHand[l][1].reader] =
                 [header |-> inHand[l][2].header, payload |-> Present(inHand[l][1]).payload]]
  /\ inHand' = [inHand EXCEPT ![l] = << >>]
  /\ UNCHANGED <<listeners, state, done, readVars, pktChan, poolVars, sendVars>>

(* RemoveListener.  A reader that has the listener in its snapshot still   *)
(* calls it, for nobody.                                                   *)
EndRelay(l) ==
  /\ state[l] = "running" /\ inHand[l] = << >> /\ l \in done
  /\ state' = [state EXCEPT ![l] = "ended"]
  /\ listeners' = listeners \ {l}
  /\ UNCHANGED <<done, inHand, wrote, readVars, pktChan, poolVars, sendVars>>

-----------------------------------------------------------------------------
(* The sender of the bridge, and what it does with buffers.                *)

(* Add: the oldest packet makes room.                                      *)
AddToBuffer ==
  /\ sending = << >> /\ rtpChan # << >>
  /\ rtpChan' = Tail(rtpChan)
  /\ \/ /\ Cardinality(held) < BufferSize
        /\ held' = held \cup {Head(rtpChan)}
        /\ UNCHANGED packetPool
     \/ /\ Cardinality(held) >= BufferSize
        /\ \E old \in held :
             /\ held' = (held \ {old}) \cup {Head(rtpChan)}
             /\ packetPool' = packetPool \cup {old.cell}
  /\ UNCHANGED <<cell, sending, readVars, relayVars, pktChan>>

(* The buffer is given back before the packet is written.                  *)
Flush_PutsFirst ==
  /\ sending = << >>
  /\ \E p \in held :
       /\ held' = held \ {p}
       /\ sending' = <<p>>
       /\ packetPool' = packetPool \cup {p.cell}
  /\ UNCHANGED <<cell, rtpChan, readVars, relayVars, pktChan>>

Flush ==
  /\ sending = << >>
  /\ \E p \in held : held' = held \ {p} /\ sending' = <<p>>
  /\ UNCHANGED <<rtpChan, poolVars, readVars, relayVars, pktChan>>

PutAfterWrite ==
  /\ sending # << >>
  /\ packetPool' = packetPool \cup {sending[1].cell}
  /\ sending' = << >>
  /\ UNCHANGED <<cell, rtpChan, held, readVars, relayVars, pktChan>>

-----------------------------------------------------------------------------

Reader(r) ==
  \/ StartBroadcast(r) \/ (\E l \in Relays : CallListener(r, l)) \/ CopyPacket(r)

Relaying(l) ==
  \/ StartRelay(l) \/ CloseRelay(l)
  \/ TakePacket(l) \/ WriteHeader(l) \/ WritePayload(l)
  \/ EndRelay(l)

Next ==
  \/ \E r \in Readers : ReadPacket(r) \/ Reader(r)
  \/ \E l \in Relays : Relaying(l)
  \/ AddToBuffer \/ Flush \/ PutAfterWrite

Spec == Init /\ [][Next]_vars

(***************************************************************************)
(* The readers run on.  Nothing is assumed of the relays or the sender: a  *)
(* slow viewer is no reason for a reader to wait.                          *)
(***************************************************************************)
FairSpec == Spec /\ \A r \in Readers : WF_vars(Reader(r))

-----------------------------------------------------------------------------
(* Properties.                                                             *)

(***************************************************************************)
(* A copy that is on its way to the RTSP server holds the packet that was  *)
(* read, whatever has been read and sent since, until it has been written. *)
(***************************************************************************)
CopiesIntact ==
  \A p \in ToSet(rtpChan) \cup held \cup ToSet(sending) : cell[p.cell] = <<p.reader, p.n>>

(***************************************************************************)
(* What a relay writes of a source may skip packets and, of a source that  *)
(* reuses its memory, repeat one or be torn; but it never goes back, and a *)
(* payload is never older than its header.                                 *)
(***************************************************************************)
NeverGoesBack ==
  \A l \in Relays, r \in Readers :
    /\ wrote[l][r].header <= wrote'[l][r].header
    /\ wrote'[l][r].header <= wrote'[l][r].payload

RelayNeverGoesBack == [][NeverGoesBack]_vars

(***************************************************************************)
(* No reader waits for a relay or for the sender.                          *)
(***************************************************************************)
ReaderGoesOn == \A r \in Readers : at[r] # "read" ~> at[r] = "read"
=============================================================================
