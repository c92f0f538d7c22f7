---------------------------- MODULE PeerSessions ----------------------------
(***************************************************************************)
(* The peer connections of one client: their creation by CreatePeer-       *)
(* Connection (a viewer asks, or a lost connection is made again) and by   *)
(* HandleOfferAsReceiver, the tables of StreamManager, the tracks a peer   *)
(* is given (the tracks of OBS through broadcasters, or else a relay of    *)
(* the bridge's packets), and the clean-up when a connection ends.         *)
(*                                                                         *)
(* Every signaling message, every state callback of a connection and every *)
(* timer is handled by a goroutine of its own.  A goroutine is a worker    *)
(* here; task[w] says what it does, one critical section or call of the    *)
(* WebRTC library per step.  The tables of StreamManager have a mutex each *)
(* and are keyed by peer id, so what one goroutine does to them about a    *)
(* connection may meet another connection of the same peer.                *)
(*                                                                         *)
(* The connection itself (negotiation, ICE) is the library's: its states   *)
(* change as the peer and the network please.                              *)
(***************************************************************************)
EXTENDS Integers, FiniteSets

CONSTANTS
  Peers,
  Initiated,   \* peers with a smaller id: this client makes the offer
  Offering,    \* peers that make offers to it
  Conns,       \* webrtc.PeerConnection objects
  Workers,     \* goroutines that may run at the same time
  OBSTracks,   \* tracks that OBS may send
  MaxViewers,  \* redirect viewers from this number on (3)
  MaxEvents,   \* bound on messages and losses of connection
  None

ASSUME PeerAssumption == Initiated \subseteq Peers /\ Offering \subseteq Peers
ASSUME NoneAssumption ==
  /\ None \notin Peers \cup Conns
  /\ \A S \in SUBSET OBSTracks : None # S
ASSUME BoundAssumption == MaxViewers \in Nat \ {0} /\ MaxEvents \in Nat

VARIABLES
  conn,             \* the connections
  notices,          \* state changes whose callback has not begun
  timers,           \* sleeping goroutines of scheduleReconnect..., by connection
  peerConnections,  \* the table of StreamManager: connection by peer id
  closeHandlers,    \* relays to stop, by peer id
  forwarded,        \* forwardedReceivers: the OBS tracks marked, by peer id
  receivers,        \* of the broadcaster of a track: whose local track, by peer id
  obsTracks,
  running,          \* relays whose done channel is open
  task,             \* the goroutines
  events

libVars == <<conn, notices, timers>>
fwdVars == <<forwarded, receivers, obsTracks>>
relayVars == <<closeHandlers, running>>
vars == <<libVars, peerConnections, fwdVars, relayVars, task, events>>

(* agreed: an offer has been answered, so that there is a local            *)
(* description (see Undescribed); waits: onConnected is set; configured:   *)
(* the callbacks are; sends: it has tracks to send; relays: how many       *)
(* relays were started for it.                                             *)
Unused == [peer |-> None, state |-> "new", sig |-> "stable", agreed |-> FALSE,
           waits |-> FALSE, configured |-> FALSE, sends |-> FALSE, relays |-> 0]

(* at: the next step; adding, marks: the OBS tracks being added, and       *)
(* whether the map their marks go to is still in forwarded; ids: peers     *)
(* AddOBSTrack has yet to serve; held: handlers to call; then: what        *)
(* follows a clean-up.                                                     *)
Idle == [at |-> "idle", role |-> "none", peer |-> None, conn |-> None,
         fresh |-> FALSE, adding |-> {}, marks |-> FALSE, ids |-> {},
         held |-> {}, then |-> "idle"]

Init ==
  /\ conn = [c \in Conns |-> Unused]
  /\ notices = {}
  /\ timers = [c \in Conns |-> 0]
  /\ peerConnections = [p \in Peers |-> None]
  /\ closeHandlers = [p \in Peers |-> {}]
  /\ forwarded = [p \in Peers |-> None]
  /\ receivers = [t \in OBSTracks |-> [p \in Peers |-> None]]
  /\ obsTracks = {}
  /\ running = {}
  /\ task = [w \in Workers |-> Idle]
  /\ events = 0

-----------------------------------------------------------------------------
(* Connections and goroutines.                                             *)

Used(c) == conn[c].peer # None
Stable(c) == conn[c].sig = "stable"
Undescribed(c) == ~conn[c].agreed /\ conn[c].sig # "offered"
IsClosed(c) == conn[c].state = "closed"
Ended(c) == conn[c].state \in {"failed", "closed"}

(* The callback is called if it has been set.                              *)
Raised(c, state) ==
  IF conn[c].configured THEN {[conn |-> c, state |-> state]} ELSE {}

Close(c) ==
  /\ conn' = [conn EXCEPT ![c].state = "closed", ![c].sig = "closed"]
  /\ notices' = IF IsClosed(c) THEN notices ELSE notices \cup Raised(c, "closed")

At(w, place) == task[w].at = place
Becomes(w, t) == task' = [task EXCEPT ![w] = t]
Finish(w) == Becomes(w, Idle)
Goto(w, place) ==
  IF place = "idle" THEN Finish(w) ELSE Becomes(w, [task[w] EXCEPT !.at = place])

Begin(w, place, role, p, c, then) ==
  /\ At(w, "idle")
  /\ Becomes(w, [Idle EXCEPT !.at = place, !.role = role, !.peer = p, !.conn = c,
                             !.then = then])

(* Where EnsureOutgoingTracks and ForwardOBSTracksToReceiver return to.    *)
Tracked(w) ==
  CASE task[w].role = "maker" -> "offer"
    [] task[w].role = "receiver" -> "remote"
    [] task[w].role = "whip" -> "serve"
    [] OTHER -> "idle"

CleanUp(w, then) == Becomes(w, [task[w] EXCEPT !.at = "match", !.then = then])

Event == events < MaxEvents /\ events' = events + 1

-----------------------------------------------------------------------------
(* What the peer and the network do to a connection, as its callbacks see  *)
(* it.  onConnected is only set on connections this client offered.        *)

Connect(c) ==
  /\ Used(c)
  /\ conn[c].agreed
  /\ conn[c].state \in {"new", "disconnected"}
  /\ conn' = [conn EXCEPT ![c].state = "connected"]
  /\ notices' = IF conn[c].waits THEN notices \cup Raised(c, "connected") ELSE notices
  /\ UNCHANGED <<timers, peerConnections, fwdVars, relayVars, task, events>>

Lose(c) ==
  /\ Event
  /\ Used(c)
  /\ conn[c].state = "connected"
  /\ conn' = [conn EXCEPT ![c].state = "disconnected"]
  /\ notices' = notices \cup Raised(c, "disconnected")
  /\ UNCHANGED <<timers, peerConnections, fwdVars, relayVars, task>>

Fail(c) ==
  /\ Event
  /\ Used(c)
  /\ \/ conn[c].state = "disconnected"
     \/ conn[c].state = "new" /\ conn[c].agreed
  /\ conn' = [conn EXCEPT ![c].state = "failed"]
  /\ notices' = notices \cup Raised(c, "failed")
  /\ UNCHANGED <<timers, peerConnections, fwdVars, relayVars, task>>

-----------------------------------------------------------------------------
(* Goroutines begin.                                                       *)

ViewerCount == Cardinality({p \in Peers : forwarded[p] # None})

(* NewConnectionCallback; a viewer beyond the limit is redirected.  (That  *)
(* nobody is found to redirect to means the last viewer has gone since the *)
(* count, as if the request came after that.)                              *)
Request(w, p) ==
  /\ Event
  /\ p \in Initiated
  /\ ViewerCount < MaxViewers
  /\ Begin(w, "create", "maker", p, None, "idle")
  /\ UNCHANGED <<libVars, peerConnections, fwdVars, relayVars>>

Offer(w, p) ==
  /\ Event
  /\ p \in Offering
  /\ Begin(w, "received", "receiver", p, None, "idle")
  /\ UNCHANGED <<libVars, peerConnections, fwdVars, relayVars>>

Disconnect(w, p) ==
  /\ Event
  /\ peerConnections[p] # None
  /\ Begin(w, "close", "closer", p, peerConnections[p], "idle")
  /\ UNCHANGED <<libVars, peerConnections, fwdVars, relayVars>>

(* NewAnswerCallback, up to the goroutine that waits for a stable state.   *)
Answer(w, p) ==
  LET c == peerConnections[p]
  IN  /\ c # None /\ conn[c].sig = "offered"
      /\ conn' = [conn EXCEPT ![c].sig = "stable", ![c].agreed = TRUE]
      /\ Begin(w, "find", "waiter", p, None, "idle")
      /\ UNCHANGED <<notices, timers, peerConnections, fwdVars, relayVars, events>>

(* ForwardOBSTracksToReceiver holds obsMu from its start to its end.       *)
HoldsOBSTracks(w) ==
  At(w, "renegotiate") \/ (At(w, "subscribe") /\ task[w].role # "whip")

(* AddOBSTrack: a track with its broadcaster; then ListPeers, ServePeer.   *)
AddOBSTrack(w, t) ==
  /\ Event
  /\ t \notin obsTracks
  /\ \A v \in Workers : ~HoldsOBSTracks(v)
  /\ At(w, "idle")
  /\ obsTracks' = obsTracks \cup {t}
  /\ Becomes(w, [Idle EXCEPT !.at = "list", !.role = "whip", !.adding = {t}])
  /\ UNCHANGED <<libVars, peerConnections, forwarded, receivers, relayVars>>

(* OnConnectionStateChange.                                                *)
HandleNotice(w, n) ==
  LET c == n.conn
  IN  /\ n \in notices
      /\ notices' = notices \ {n}
      /\ CASE n.state = "connected" ->
                Begin(w, "await", "waiter", conn[c].peer, c, "idle") /\ UNCHANGED timers
           [] n.state = "disconnected" ->
                timers' = [timers EXCEPT ![c] = @ + 1] /\ UNCHANGED task
           [] n.state = "failed" ->
                Begin(w, "close", "closer", conn[c].peer, c, "reconnect") /\ UNCHANGED timers
           [] n.state = "closed" ->
                Begin(w, "close", "closer", conn[c].peer, c, "idle") /\ UNCHANGED timers
      /\ UNCHANGED <<conn, peerConnections, fwdVars, relayVars, events>>

Expired_Always(c) == TRUE
Expired(c) == timers[c] > 0

Registered(c) == Used(c) /\ peerConnections[conn[c].peer] = c

StillDisconnected_Inverted(c) == Registered(c) /\ conn[c].state # "disconnected"
StillDisconnected(c) == Registered(c) /\ conn[c].state = "disconnected"

(* scheduleReconnectIfStillDisconnected, three seconds later.              *)
TimerFires(w, c) ==
  /\ Expired(c)
  /\ timers' = [timers EXCEPT ![c] = @ - 1]
  /\ IF StillDisconnected(c)
       THEN Begin(w, "close", "closer", conn[c].peer, c, "reconnect")
       ELSE UNCHANGED task
  /\ UNCHANGED <<conn, notices, peerConnections, fwdVars, relayVars, events>>

-----------------------------------------------------------------------------
(* CreatePeerConnection.                                                   *)

(* A new connection, known to the manager from the start.                  *)
Create(w, c) ==
  /\ At(w, "create")
  /\ ~Used(c)
  /\ conn' = [conn EXCEPT ![c].peer = task[w].peer, ![c].waits = TRUE]
  /\ peerConnections' = [peerConnections EXCEPT ![task[w].peer] = c]
  /\ Becomes(w, [task[w] EXCEPT !.at = "configure", !.conn = c])
  /\ UNCHANGED <<notices, timers, fwdVars, relayVars, events>>

(* The library refuses to make one.                                        *)
CannotCreate(w) ==
  /\ task[w].at \in {"create", "accept"}
  /\ Finish(w)
  /\ UNCHANGED <<libVars, peerConnections, fwdVars, relayVars, events>>

Configure(w) ==
  /\ At(w, "configure")
  /\ conn' = [conn EXCEPT ![task[w].conn].configured = TRUE]
  /\ Goto(w, "outgoing")
  /\ UNCHANGED <<notices, timers, peerConnections, fwdVars, relayVars, events>>

(* CreateAndSendOffer.                                                     *)
SendOffer(w) ==
  LET c == task[w].conn
  IN  /\ At(w, "offer")
      /\ conn[c].sig \in {"stable", "offered"}
      /\ conn' = [conn EXCEPT ![c].sig = "offered"]
      /\ Finish(w)
      /\ UNCHANGED <<notices, timers, peerConnections, fwdVars, relayVars, events>>

OfferFails(w) ==
  /\ At(w, "offer")
  /\ Close(task[w].conn)
  /\ Finish(w)
  /\ UNCHANGED <<timers, peerConnections, fwdVars, relayVars, events>>

(* EnsureOutgoingTracks has failed; the entry is removed whosever it is.   *)
AbortMaker(w) ==
  /\ At(w, "abort") /\ task[w].role = "maker"
  /\ Close(task[w].conn)
  /\ peerConnections' = [peerConnections EXCEPT ![task[w].peer] = None]
  /\ Goto(w, "unforward")
  /\ UNCHANGED <<timers, fwdVars, relayVars, events>>

-----------------------------------------------------------------------------
(* HandleOfferAsReceiver, and NewOfferCallback before it.                  *)

Receive(w) ==
  LET c == peerConnections[task[w].peer]
  IN  /\ At(w, "received")
      /\ IF c # None /\ Ended(c)
           THEN Close(c) /\ Goto(w, "purge")
           ELSE Goto(w, "lookup") /\ UNCHANGED <<conn, notices>>
      /\ UNCHANGED <<timers, peerConnections, fwdVars, relayVars, events>>

(* RemovePeerConnection: no matter which connection is there by now.       *)
Purge(w) ==
  /\ At(w, "purge")
  /\ peerConnections' = [peerConnections EXCEPT ![task[w].peer] = None]
  /\ Becomes(w, [task[w] EXCEPT !.at = "unforward", !.then = "lookup"])
  /\ UNCHANGED <<libVars, fwdVars, relayVars, events>>

(* A usable connection is used again; an offer of our own is withdrawn, if *)
(* the library can.                                                        *)
Lookup(w) ==
  LET c == peerConnections[task[w].peer]
  IN  /\ At(w, "lookup")
      /\ IF c = None \/ (c # None /\ Ended(c))
           THEN Becomes(w, [task[w] EXCEPT !.at = "accept", !.conn = c]) /\ UNCHANGED conn
           ELSE /\ Becomes(w, [task[w] EXCEPT !.at = "outgoing", !.conn = c, !.fresh = FALSE])
                /\ \/ conn[c].sig = "offered" /\ conn' = [conn EXCEPT ![c].sig = "stable"]
                   \/ UNCHANGED conn
      /\ UNCHANGED <<notices, timers, peerConnections, fwdVars, relayVars, events>>

Accept(w, c) ==
  /\ At(w, "accept")
  /\ ~Used(c)
  /\ conn' = [conn EXCEPT ![c].peer = task[w].peer, ![c].configured = TRUE]
  /\ peerConnections' = [peerConnections EXCEPT ![task[w].peer] = c]
  /\ Becomes(w, [task[w] EXCEPT !.at = "outgoing", !.conn = c, !.fresh = TRUE])
  /\ UNCHANGED <<notices, timers, fwdVars, relayVars, events>>

SetRemoteDescription(w) ==
  LET c == task[w].conn
  IN  /\ At(w, "remote")
      /\ conn[c].sig \in {"stable", "haveRemote"}
      /\ conn' = [conn EXCEPT ![c].sig = "haveRemote"]
      /\ Goto(w, "answer")
      /\ UNCHANGED <<notices, timers, peerConnections, fwdVars, relayVars, events>>

SendAnswer(w) ==
  LET c == task[w].conn
  IN  /\ At(w, "answer")
      /\ conn[c].sig = "haveRemote"
      /\ conn' = [conn EXCEPT ![c].sig = "stable", ![c].agreed = TRUE]
      /\ Finish(w)
      /\ UNCHANGED <<notices, timers, peerConnections, fwdVars, relayVars, events>>

(* A step of the handling fails: the connection is closed, a new one is    *)
(* removed, and an old one that refused the offer is replaced (RETRY).     *)
ReceiverFails(w) ==
  /\ task[w].at \in {"remote", "answer"} \/ (At(w, "abort") /\ task[w].role = "receiver")
  /\ Close(task[w].conn)
  /\ CASE task[w].fresh -> CleanUp(w, "idle")
       [] ~task[w].fresh /\ At(w, "remote") -> CleanUp(w, "accept")
       [] OTHER -> Finish(w)
  /\ UNCHANGED <<timers, peerConnections, fwdVars, relayVars, events>>

-----------------------------------------------------------------------------
(* EnsureOutgoingTracks, ForwardOBSTracksToReceiver, AddOBSTrack.          *)

(* A connection gets the tracks of OBS or, if there are none, a relay.     *)
EnsureOutgoingTracks(w) ==
  LET c == task[w].conn
      served == task[w].role = "receiver" /\ conn[c].sends /\ conn[c].state = "connected"
  IN  /\ At(w, "outgoing")
      /\ Goto(w, CASE served -> Tracked(w)
                   [] ~served /\ obsTracks # {} -> "forward"
                   [] ~served /\ obsTracks = {} /\ IsClosed(c) -> Tracked(w)
                   [] OTHER -> "tracks")
      /\ UNCHANGED <<libVars, peerConnections, fwdVars, relayVars, events>>

AddRelayTracks(w) ==
  LET c == task[w].conn
  IN  /\ At(w, "tracks")
      /\ IF IsClosed(c)
           THEN Goto(w, "abort") /\ UNCHANGED conn
           ELSE Goto(w, "relay") /\ conn' = [conn EXCEPT ![c].sends = TRUE]
      /\ UNCHANGED <<notices, timers, peerConnections, fwdVars, relayVars, events>>

(* RegisterCloseHandler, and the relay's goroutine starts.                 *)
StartRelay(w) ==
  LET c == task[w].conn
      r == [conn |-> c, n |-> conn[c].relays + 1]
  IN  /\ At(w, "relay")
      /\ conn' = [conn EXCEPT ![c].relays = @ + 1]
      /\ closeHandlers' = [closeHandlers EXCEPT ![task[w].peer] = @ \cup {r}]
      /\ running' = running \cup {r}
      /\ Goto(w, Tracked(w))
      /\ UNCHANGED <<notices, timers, peerConnections, fwdVars, events>>

(* ForwardOBSTracksToReceiver: the tracks not marked yet are added.        *)
Forward(w) ==
  LET c == task[w].conn
      p == task[w].peer
      marked == IF forwarded[p] = None THEN {} ELSE forwarded[p]
      missing == obsTracks \ marked
  IN  /\ At(w, "forward")
      /\ forwarded' = [forwarded EXCEPT ![p] = IF obsTracks = {} THEN @ ELSE marked]
      /\ IF missing = {} \/ IsClosed(c)
           THEN Goto(w, Tracked(w)) /\ UNCHANGED conn
           ELSE /\ conn' = [conn EXCEPT ![c].sends = TRUE]
                /\ Becomes(w, [task[w] EXCEPT !.at = "subscribe", !.adding = missing, !.marks = TRUE])
      /\ UNCHANGED <<notices, timers, peerConnections, receivers, obsTracks, relayVars, events>>

(* SubscribeToTrack, and the marks.                                        *)
Subscribe(w) ==
  LET c == task[w].conn
      p == task[w].peer
  IN  /\ At(w, "subscribe")
      /\ receivers' = [t \in OBSTracks |->
                         IF t \in task[w].adding THEN [receivers[t] EXCEPT ![p] = c]
                                                 ELSE receivers[t]]
      /\ forwarded' = [forwarded EXCEPT ![p] = IF task[w].marks THEN @ \cup task[w].adding ELSE @]
      /\ Becomes(w, [task[w] EXCEPT !.marks = FALSE,
                                     !.at = IF task[w].role = "waiter" THEN "renegotiate"
                                                                       ELSE Tracked(w)])
      /\ UNCHANGED <<libVars, peerConnections, obsTracks, relayVars, events>>

(* A new offer, if the state is stable and the library makes one.          *)
Renegotiate(w) ==
  LET c == task[w].conn
  IN  /\ At(w, "renegotiate")
      /\ \/ Stable(c) /\ conn' = [conn EXCEPT ![c].sig = "offered"]
         \/ UNCHANGED conn
      /\ Finish(w)
      /\ UNCHANGED <<notices, timers, peerConnections, fwdVars, relayVars, events>>

(* WaitForStableAndForward: for the connection of an answer it looks up    *)
(* the table first; it gives up after a second.                            *)
Find(w) ==
  LET c == peerConnections[task[w].peer]
  IN  /\ At(w, "find")
      /\ IF c = None THEN Finish(w)
                      ELSE Becomes(w, [task[w] EXCEPT !.at = "await", !.conn = c])
      /\ UNCHANGED <<libVars, peerConnections, fwdVars, relayVars, events>>

AwaitStable(w) ==
  /\ At(w, "await")
  /\ \/ Stable(task[w].conn) /\ Goto(w, "forward")
     \/ ~Stable(task[w].conn) /\ Finish(w)
  /\ UNCHANGED <<libVars, peerConnections, fwdVars, relayVars, events>>

ListPeers(w) ==
  /\ At(w, "list")
  /\ Becomes(w, [task[w] EXCEPT !.at = "serve",
                                !.ids = {p \in Peers : peerConnections[p] # None}])
  /\ UNCHANGED <<libVars, peerConnections, fwdVars, relayVars, events>>

(* The next peer of AddOBSTrack's list.  A connection without a local      *)
(* description is just given the track; another one only in the stable     *)
(* state, with an offer, and without the offer it is not subscribed.       *)
ServePeer(w, p) ==
  LET c == peerConnections[p]
      rest == task[w].ids \ {p}
      next == Becomes(w, [task[w] EXCEPT !.ids = rest])
      subscribe == Becomes(w, [task[w] EXCEPT !.ids = rest, !.at = "subscribe",
                                              !.peer = p, !.conn = c])
  IN  /\ At(w, "serve")
      /\ p \in task[w].ids
      /\ \/ /\ c # None /\ ~IsClosed(c) /\ Undescribed(c)
            /\ conn' = [conn EXCEPT ![c].sends = TRUE]
            /\ subscribe
         \/ /\ c # None /\ ~Undescribed(c) /\ Stable(c)
            /\ \/ conn' = [conn EXCEPT ![c].sends = TRUE, ![c].sig = "offered"] /\ subscribe
               \/ conn' = [conn EXCEPT ![c].sends = TRUE] /\ next
         \/ /\ c # None => IsClosed(c) \/ (~Undescribed(c) /\ ~Stable(c))
            /\ next /\ UNCHANGED conn
      /\ UNCHANGED <<notices, timers, peerConnections, fwdVars, relayVars, events>>

AllServed(w) ==
  /\ At(w, "serve") /\ task[w].ids = {}
  /\ Finish(w)
  /\ UNCHANGED <<libVars, peerConnections, fwdVars, relayVars, events>>

-----------------------------------------------------------------------------
(* cleanupPeerConnection, RemovePeerConnectionMatching, cleanupResources.  *)

CloseConnection(w) ==
  /\ At(w, "close")
  /\ Close(task[w].conn)
  /\ Goto(w, "match")
  /\ UNCHANGED <<timers, peerConnections, fwdVars, relayVars, events>>

Matches_Any(w) == peerConnections[task[w].peer] # None
Matches(w) == peerConnections[task[w].peer] = task[w].conn

RemoveMatching(w) ==
  /\ At(w, "match")
  /\ IF Matches(w)
       THEN /\ peerConnections' = [peerConnections EXCEPT ![task[w].peer] = None]
            /\ Goto(w, "unforward")
       ELSE Goto(w, task[w].then) /\ UNCHANGED peerConnections
  /\ UNCHANGED <<libVars, fwdVars, relayVars, events>>

(* Whoever is marking tracks in the deleted map goes on with it in vain.   *)
DeleteMarks(w) ==
  LET p == task[w].peer
  IN  /\ At(w, "unforward")
      /\ forwarded' = [forwarded EXCEPT ![p] = None]
      /\ task' = [v \in Workers |->
                    IF v = w THEN [task[v] EXCEPT !.at = "unlisten"]
                    ELSE IF task[v].peer = p THEN [task[v] EXCEPT !.marks = FALSE]
                    ELSE task[v]]
      /\ UNCHANGED <<libVars, peerConnections, receivers, obsTracks, relayVars, events>>

RemoveReceivers(w) ==
  /\ At(w, "unlisten")
  /\ receivers' = [t \in OBSTracks |-> [receivers[t] EXCEPT ![task[w].peer] = None]]
  /\ Goto(w, "take")
  /\ UNCHANGED <<libVars, peerConnections, forwarded, obsTracks, relayVars, events>>

TakeHandlers_LeavesThem(w) ==
  /\ At(w, "take")
  /\ Becomes(w, [task[w] EXCEPT !.at = "stop", !.held = closeHandlers[task[w].peer]])
  /\ UNCHANGED <<libVars, peerConnections, fwdVars, relayVars, events>>

TakeHandlers(w) ==
  /\ At(w, "take")
  /\ closeHandlers' = [closeHandlers EXCEPT ![task[w].peer] = {}]
  /\ Becomes(w, [task[w] EXCEPT !.at = "stop", !.held = closeHandlers[task[w].peer]])
  /\ UNCHANGED <<libVars, peerConnections, fwdVars, running, events>>

CallHandlers(w) ==
  /\ At(w, "stop")
  /\ running' = running \ task[w].held
  /\ IF task[w].then = "idle"
       THEN Finish(w)
       ELSE Becomes(w, [task[w] EXCEPT !.at = task[w].then, !.held = {}])
  /\ UNCHANGED <<libVars, peerConnections, fwdVars, closeHandlers, events>>

(* handleReconnect: as initiator a new connection, else a request for one. *)
HandleReconnect(w) ==
  /\ At(w, "reconnect")
  /\ IF task[w].peer \in Initiated
       THEN Becomes(w, [Idle EXCEPT !.at = "create", !.role = "maker", !.peer = task[w].peer])
       ELSE Finish(w)
  /\ UNCHANGED <<libVars, peerConnections, fwdVars, relayVars, events>>

-----------------------------------------------------------------------------

Work(w) ==
  \/ \E c \in Conns : Create(w, c) \/ Accept(w, c)
  \/ CannotCreate(w)
  \/ Configure(w)
  \/ SendOffer(w) \/ OfferFails(w) \/ AbortMaker(w)
  \/ Receive(w) \/ Purge(w) \/ Lookup(w)
  \/ SetRemoteDescription(w) \/ SendAnswer(w) \/ ReceiverFails(w)
  \/ EnsureOutgoingTracks(w) \/ AddRelayTracks(w) \/ StartRelay(w)
  \/ Forward(w) \/ Subscribe(w) \/ Renegotiate(w)
  \/ Find(w) \/ AwaitStable(w)
  \/ ListPeers(w)
  \/ \E p \in Peers : ServePeer(w, p)
  \/ AllServed(w)
  \/ CloseConnection(w) \/ RemoveMatching(w)
  \/ DeleteMarks(w) \/ RemoveReceivers(w) \/ TakeHandlers(w) \/ CallHandlers(w)
  \/ HandleReconnect(w)

Awake(w) ==
  \/ \E n \in notices : HandleNotice(w, n)
  \/ \E c \in Conns : TimerFires(w, c)

Environment(w) ==
  \/ \E p \in Peers : Request(w, p) \/ Offer(w, p) \/ Disconnect(w, p) \/ Answer(w, p)
  \/ \E t \in OBSTracks : AddOBSTrack(w, t)

Network == \E c \in Conns : Connect(c) \/ Lose(c) \/ Fail(c)

Next ==
  \/ \E w \in Workers : Work(w) \/ Awake(w) \/ Environment(w)
  \/ Network

Spec == Init /\ [][Next]_vars

(***************************************************************************)
(* Goroutines that have begun, callbacks that are due and timers that have *)
(* expired go on; the peer and the network need not do anything.           *)
(***************************************************************************)
Fairness == WF_vars(\E w \in Workers : Work(w) \/ Awake(w))

FairSpec == Spec /\ Fairness

-----------------------------------------------------------------------------
(* Properties.                                                             *)

ConnRecord == [peer : Peers \cup {None},
               state : {"new", "connected", "disconnected", "failed", "closed"},
               sig : {"offered", "haveRemote", "stable", "closed"},
               agreed : BOOLEAN, waits : BOOLEAN, configured : BOOLEAN,
               sends : BOOLEAN, relays : Nat]

Relay == [conn : Conns, n : Nat]

Places == {"idle", "create", "configure", "outgoing", "tracks", "relay", "abort",
           "forward", "subscribe", "renegotiate", "offer", "received", "purge",
           "lookup", "accept", "remote", "answer", "find", "await", "list", "serve", "close",
           "match", "unforward", "unlisten", "take", "stop", "reconnect"}

Task == [at : Places, role : {"none", "maker", "receiver", "waiter", "whip", "closer"},
         peer : Peers \cup {None}, conn : Conns \cup {None}, fresh : BOOLEAN,
         adding : SUBSET OBSTracks, marks : BOOLEAN, ids : SUBSET Peers,
         held : SUBSET Relay, then : {"idle", "lookup", "accept", "reconnect"}]

TypeOK ==
  /\ conn \in [Conns -> ConnRecord]
  /\ notices \subseteq [conn : Conns, state : {"connected", "disconnected", "failed", "closed"}]
  /\ timers \in [Conns -> Nat]
  /\ peerConnections \in [Peers -> Conns \cup {None}]
  /\ closeHandlers \in [Peers -> SUBSET Relay]
  /\ forwarded \in [Peers -> {None} \cup SUBSET OBSTracks]
  /\ receivers \in [OBSTracks -> [Peers -> Conns \cup {None}]]
  /\ obsTracks \subseteq OBSTracks
  /\ running \subseteq Relay
  /\ task \in [Workers -> Task]
  /\ events \in Nat

(***************************************************************************)
(* Every relay that runs can be stopped, and is stopped once: its handler  *)
(* is in one place, the table or the hands of one clean-up, as long as its *)
(* channel is open, and nowhere afterwards.  A handler called twice closes *)
(* a closed channel, which ends the program; one that is lost leaves a     *)
(* goroutine and a listener of the bridge behind for good.                 *)
(***************************************************************************)
HandlersAccounted ==
  /\ running = (UNION {closeHandlers[p] : p \in Peers}) \cup (UNION {task[w].held : w \in Workers})
  /\ \A p, q \in Peers : p # q => closeHandlers[p] \cap closeHandlers[q] = {}
  /\ \A v, w \in Workers : v # w => task[v].held \cap task[w].held = {}
  /\ \A p \in Peers : \A w \in Workers : closeHandlers[p] \cap task[w].held = {}

(***************************************************************************)
(* The clean-up of a connection that has ended, however late it comes,     *)
(* does not take an open successor out of the table.  Only the removals    *)
(* that do not compare (Purge, AbortMaker) and a successor's own arrival   *)
(* change the entry of a connection that is open.                          *)
(***************************************************************************)
SuccessorIsKept ==
  [][\A p \in Peers :
       peerConnections[p] # None /\ ~IsClosed(peerConnections[p])
       => \/ peerConnections'[p] # None
          \/ \E w \in Workers : task[w].peer = p /\ task[w].at \in {"purge", "abort"}]_vars

(***************************************************************************)
(* A connection that is lost does not stay in the table: it recovers, or   *)
(* the failure callback, the timer or the Closed callback removes it, so   *)
(* that messages of the peer no longer reach a dead connection.            *)
(***************************************************************************)
LostIsForgotten ==
  \A c \in Conns :
    (Registered(c) /\ conn[c].state \in {"disconnected", "failed", "closed"})
      ~> (~Registered(c) \/ conn[c].state = "connected")

(***************************************************************************)
(* A peer that is made an offer is offered the stream ("Once MistLink is   *)
(* running, you can access the stream via: WebRTC", README.md).  Fails:    *)
(* the marks of a former connection of the peer hide the tracks of OBS.    *)
(***************************************************************************)
StreamIsOffered ==
  \A c \in Conns : conn[c].sig = "offered" => conn[c].sends
=============================================================================
