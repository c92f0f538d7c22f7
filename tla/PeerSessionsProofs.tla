------------------------- MODULE PeerSessionsProofs -------------------------
(***************************************************************************)
(* Theorems about PeerSessions, for any peers, connections and number of   *)
(* goroutines: the types, and that a relay's close handler is never lost   *)
(* and never called twice.                                                 *)
(***************************************************************************)
EXTENDS PeerSessions, TLAPS

(* The steps at which a goroutine acts on its connection, and those at     *)
(* which it need not have a peer.                                          *)
Acting == {"configure", "outgoing", "tracks", "relay", "abort", "forward",
           "subscribe", "renegotiate", "offer", "remote", "answer", "await",
           "close"}
Peerless == {"idle", "list", "serve"}

Notice == [conn : Conns, state : {"connected", "disconnected", "failed", "closed"}]

(* A goroutine has handlers in hand only when it is about to call them,    *)
(* writes marks only into a map that is in the table, and looks for the    *)
(* entry to remove only when it has closed the connection.                 *)
Sound(t) ==
  /\ t \in Task
  /\ t.at \in Acting => t.conn \in Conns /\ Used(t.conn)
  /\ t.at \notin Peerless => t.peer \in Peers
  /\ t.at # "stop" => t.held = {}
  /\ t.marks => t.at = "subscribe" /\ forwarded[t.peer] # None
  /\ t.at = "match" => t.conn \in Conns /\ IsClosed(t.conn)

NoticesKnown == notices \subseteq Notice /\ \A n \in notices : Used(n.conn)

TableKnown ==
  /\ peerConnections \in [Peers -> Conns \cup {None}]
  /\ \A p \in Peers : peerConnections[p] # None => Used(peerConnections[p])

ForwardingTyped ==
  /\ forwarded \in [Peers -> {None} \cup SUBSET OBSTracks]
  /\ receivers \in [OBSTracks -> [Peers -> Conns \cup {None}]]
  /\ obsTracks \subseteq OBSTracks

(* The relays of a connection are numbered, so that a new one is new.      *)
Numbered == \A r \in running : r.n <= conn[r.conn].relays

Inv ==
  /\ TypeOK
  /\ NoticesKnown
  /\ TableKnown
  /\ \A w \in Workers : Sound(task[w])
  /\ Numbered
  /\ HandlersAccounted

-----------------------------------------------------------------------------
(* What a step does to the connections, the marks and the tasks.           *)

ConnsGrow ==
  /\ conn' \in [Conns -> ConnRecord]
  /\ \A c \in Conns : Used(c) => Used(c)'
  /\ \A c \in Conns : conn[c].relays <= conn'[c].relays
  /\ \A c \in Conns : IsClosed(c) => IsClosed(c)'

MarksStay == \A p \in Peers : forwarded[p] # None => forwarded'[p] # None

Moves(w) ==
  /\ task' = [task EXCEPT ![w] = task'[w]]
  /\ Sound(task[w])'
  /\ task'[w].held = task[w].held

(* What is left to show of a step when the connections, the tables and the *)
(* tasks are known to be right.                                            *)
LEMMA AnyStepInv ==
  ASSUME Inv,
         UNCHANGED conn \/ ConnsGrow,
         UNCHANGED notices \/ NoticesKnown',
         UNCHANGED timers \/ timers' \in [Conns -> Nat],
         UNCHANGED peerConnections \/ TableKnown',
         UNCHANGED fwdVars \/ ForwardingTyped',
         UNCHANGED events \/ Event,
         task' \in [Workers -> Task], \A v \in Workers : Sound(task[v])',
         closeHandlers' \in [Peers -> SUBSET Relay], running' \subseteq Relay,
         Numbered', HandlersAccounted'
  PROVE  Inv'
<1>1. ConnsGrow
  BY SMT DEF Inv, TypeOK, ConnsGrow, Used, IsClosed, ConnRecord
<1>2. ForwardingTyped'
  BY DEF Inv, TypeOK, ForwardingTyped, fwdVars
<1>3. NoticesKnown'
  BY <1>1 DEF Inv, NoticesKnown, ConnsGrow, Notice, Used
<1>4. TableKnown'
  BY <1>1 DEF Inv, TableKnown, ConnsGrow, Used
<1>5. TypeOK'
  BY <1>1, <1>2, <1>3, <1>4
     DEF Inv, TypeOK, ConnsGrow, ForwardingTyped, NoticesKnown, Notice,
         TableKnown, Event
<1> QED
  BY <1>3, <1>4, <1>5 DEF Inv

(* The numbers of the relays that ran before the step.                     *)
LEMMA StillNumbered ==
  ASSUME Inv, UNCHANGED conn \/ ConnsGrow, NEW r \in running
  PROVE  r \in Relay /\ r.n <= conn'[r.conn].relays
<1>1. ConnsGrow
  BY SMT DEF Inv, TypeOK, ConnsGrow, Used, IsClosed, ConnRecord
<1>2. r \in Relay /\ r.n \in Nat /\ r.conn \in Conns /\ r.n <= conn[r.conn].relays
  BY DEF Inv, TypeOK, Relay, Numbered
<1>3. conn[r.conn].relays \in Nat /\ conn'[r.conn].relays \in Nat
  BY <1>1, <1>2 DEF Inv, TypeOK, ConnsGrow, ConnRecord
<1> QED
  BY <1>1, <1>2, <1>3 DEF ConnsGrow

(* A task that takes no part in a step remains sound.                      *)
LEMMA OtherSound ==
  ASSUME Inv, UNCHANGED conn \/ ConnsGrow, UNCHANGED fwdVars \/ MarksStay,
         NEW v \in Workers, task'[v] = task[v]
  PROVE  Sound(task[v])'
BY DEF Inv, Sound, ConnsGrow, MarksStay, Used, IsClosed, Peerless, fwdVars

(* A step of one goroutine that leaves the relays alone.                   *)
LEMMA StepInv ==
  ASSUME Inv, NEW w,
         UNCHANGED conn \/ ConnsGrow,
         UNCHANGED notices \/ NoticesKnown',
         UNCHANGED timers \/ timers' \in [Conns -> Nat],
         UNCHANGED peerConnections \/ TableKnown',
         UNCHANGED fwdVars \/ (ForwardingTyped' /\ MarksStay),
         UNCHANGED relayVars,
         UNCHANGED events \/ Event,
         UNCHANGED task \/ Moves(w)
  PROVE  Inv'
<1>1. \A v \in Workers : Sound(task[v])'
  <2> TAKE v \in Workers
  <2>1. CASE task'[v] = task[v]
    BY <2>1, OtherSound
  <2>2. CASE task'[v] # task[v]
    BY <2>2 DEF Moves, Inv, TypeOK
  <2> QED
    BY <2>1, <2>2
<1>2. task' \in [Workers -> Task]
  BY <1>1 DEF Inv, TypeOK, Moves, Sound
<1>3. \A v \in Workers : task'[v].held = task[v].held
  BY DEF Inv, TypeOK, Moves
<1>4. closeHandlers' \in [Peers -> SUBSET Relay] /\ running' \subseteq Relay
  BY DEF Inv, TypeOK, relayVars
<1>5. Numbered'
  BY StillNumbered DEF Numbered, relayVars
<1>6. HandlersAccounted'
  BY <1>3 DEF Inv, HandlersAccounted, relayVars
<1> QED
  BY <1>1, <1>2, <1>4, <1>5, <1>6, AnyStepInv

-----------------------------------------------------------------------------
(* What the helpers of the actions do to a task and to a connection.       *)

LEMMA TypesOf ==
  ASSUME Inv
  PROVE  /\ conn \in [Conns -> ConnRecord]
         /\ task \in [Workers -> Task]
         /\ \A c \in Conns : Used(c) => conn[c].peer \in Peers
         /\ \A c \in Conns : conn[c].relays \in Nat
BY DEF Inv, TypeOK, ConnRecord, Used

LEMMA IdleTask == Idle \in Task /\ Idle.held = {} /\ Idle.at = "idle" /\ ~Idle.marks
BY DEF Idle, Task, Places

LEMMA FinishMoves ==
  ASSUME Inv, NEW w \in Workers, task[w].at # "stop", Finish(w)
  PROVE  Moves(w)
<1>1. task'[w] = Idle /\ task' = [task EXCEPT ![w] = task'[w]]
  BY TypesOf DEF Finish, Becomes
<1>2. Sound(task[w])'
  BY <1>1, IdleTask DEF Sound, Acting, Peerless
<1>3. task[w].held = {}
  BY DEF Inv, Sound
<1> QED
  BY <1>1, <1>2, <1>3, IdleTask DEF Moves

LEMMA BeginMoves ==
  ASSUME Inv, NEW w \in Workers, NEW place \in Places \ {"stop"},
         NEW role \in {"none", "maker", "receiver", "waiter", "whip", "closer"},
         NEW p \in Peers, NEW c \in Conns \cup {None},
         NEW then \in {"idle", "lookup", "accept", "reconnect"},
         Begin(w, place, role, p, c, then),
         place \in Acting => c \in Conns /\ Used(c)',
         place # "match"
  PROVE  Moves(w)
<1> DEFINE t == [Idle EXCEPT !.at = place, !.role = role, !.peer = p, !.conn = c,
                             !.then = then]
<1>1. task'[w] = t /\ task' = [task EXCEPT ![w] = task'[w]] /\ task[w].at = "idle"
  BY TypesOf DEF Begin, Becomes, At
<1>2. t \in Task /\ t.at = place /\ t.peer = p /\ t.conn = c /\ t.held = {} /\ ~t.marks
  BY DEF Idle, Task
<1>3. Sound(task[w])'
  BY <1>1, <1>2 DEF Sound, Used
<1>4. task[w].held = {}
  BY <1>1 DEF Inv, Sound
<1> QED
  BY <1>1, <1>2, <1>3, <1>4 DEF Moves

(* A task goes on with its peer and connection, at a step it may take.     *)
LEMMA GoesOn ==
  ASSUME Inv, NEW w \in Workers, NEW t \in Task, Becomes(w, t),
         UNCHANGED conn \/ ConnsGrow,
         task[w].at \notin {"stop"} \cup Peerless,
         t.at \notin {"stop", "subscribe"}, ~t.marks,
         t.peer = task[w].peer, t.held = task[w].held,
         t.at \in Acting => task[w].at \in Acting /\ t.conn = task[w].conn,
         t.at = "match" => t.conn \in Conns /\ conn'[t.conn].state = "closed"
  PROVE  Moves(w)
<1>1. task'[w] = t /\ task' = [task EXCEPT ![w] = task'[w]]
  BY TypesOf DEF Becomes
<1>2. Sound(task[w])
  BY DEF Inv
<1>3. Sound(task[w])'
  <2>1. t.at \in Acting => t.conn \in Conns /\ Used(t.conn)'
    BY <1>2 DEF Sound, ConnsGrow, Used
  <2>2. t.peer \in Peers /\ t.held = {}
    BY <1>2 DEF Sound
  <2> QED
    BY <1>1, <2>1, <2>2 DEF Sound, Used, IsClosed
<1> QED
  BY <1>1, <1>3 DEF Moves

LEMMA GotoMoves ==
  ASSUME Inv, NEW w \in Workers, NEW place \in Places \ {"stop", "subscribe"},
         Goto(w, place),
         UNCHANGED conn \/ ConnsGrow,
         task[w].at \notin {"stop", "subscribe"} \cup Peerless,
         place \in Acting => task[w].at \in Acting,
         place = "match" => /\ task[w].conn \in Conns
                            /\ conn'[task[w].conn].state = "closed"
  PROVE  Moves(w)
<1>1. CASE place = "idle"
  BY <1>1, FinishMoves DEF Goto
<1>2. CASE place # "idle"
  <2> DEFINE t == [task[w] EXCEPT !.at = place]
  <2>1. Sound(task[w]) /\ task[w] \in Task
    BY DEF Inv, Sound
  <2>2. t \in Task /\ t.at = place /\ t.peer = task[w].peer /\ t.held = task[w].held
        /\ t.conn = task[w].conn /\ t.marks = task[w].marks
    BY <2>1 DEF Task
  <2>3. ~task[w].marks
    BY <2>1 DEF Sound
  <2>4. Becomes(w, t)
    BY <1>2 DEF Goto
  <2> QED
    BY <2>2, <2>3, <2>4, GoesOn
<1> QED
  BY <1>1, <1>2

(* One connection changes and keeps its peer and the count of its relays.  *)
LEMMA OneConnGrows ==
  ASSUME Inv, NEW c \in Conns, NEW r \in ConnRecord,
         conn' = [conn EXCEPT ![c] = r],
         Used(c) => r.peer # None,
         IsClosed(c) => r.state = "closed",
         conn[c].relays <= r.relays
  PROVE  ConnsGrow
<1>1. conn' \in [Conns -> ConnRecord] /\ conn'[c] = r
  BY TypesOf
<1>2. \A d \in Conns : d # c => conn'[d] = conn[d]
  BY TypesOf
<1>3. \A d \in Conns : conn[d].relays <= conn[d].relays
  BY TypesOf
<1> QED
  BY <1>1, <1>2, <1>3 DEF ConnsGrow, Used, IsClosed

LEMMA CloseGrows ==
  ASSUME Inv, NEW c \in Conns, Used(c), Close(c)
  PROVE  ConnsGrow /\ NoticesKnown' /\ conn'[c].state = "closed"
<1> DEFINE r == [conn[c] EXCEPT !.state = "closed", !.sig = "closed"]
<1>1. conn' = [conn EXCEPT ![c] = r]
  BY TypesOf DEF Close
<1>2. r \in ConnRecord /\ r.peer = conn[c].peer /\ r.state = "closed"
      /\ r.relays = conn[c].relays
  BY TypesOf DEF ConnRecord
<1>3. ConnsGrow
  <2>1. conn[c].relays <= r.relays
    BY <1>2, TypesOf
  <2> QED
    BY <1>1, <1>2, <2>1, OneConnGrows DEF Used, IsClosed
<1>4. NoticesKnown'
  BY <1>3 DEF Inv, NoticesKnown, Notice, Close, Raised, ConnsGrow, Used
<1>5. conn'[c].state = "closed"
  BY <1>1, <1>2, TypesOf DEF ConnRecord
<1> QED
  BY <1>3, <1>4, <1>5

LEMMA ActingTask ==
  ASSUME Inv, NEW w \in Workers
  PROVE  /\ task[w] \in Task
         /\ task[w].at \in Acting => task[w].conn \in Conns /\ Used(task[w].conn)
         /\ task[w].at \notin Peerless => task[w].peer \in Peers
         /\ task[w].at # "stop" => task[w].held = {}
         /\ task[w].at # "subscribe" => ~task[w].marks
BY DEF Inv, Sound

LEMMA InHandIsRunning ==
  ASSUME Inv
  PROVE  /\ \A p \in Peers : closeHandlers[p] \subseteq running
         /\ \A w \in Workers : task[w].held \subseteq running
<1>1. running = (UNION {closeHandlers[p] : p \in Peers}) \cup (UNION {task[w].held : w \in Workers})
  BY DEF Inv, HandlersAccounted
<1>2. ASSUME NEW p \in Peers PROVE closeHandlers[p] \subseteq running
  BY <1>1
<1>3. ASSUME NEW w \in Workers PROVE task[w].held \subseteq running
  BY <1>1
<1> QED
  BY <1>2, <1>3

(* Unions over a table of which one entry changes.                         *)
LEMMA UnionGrows ==
  ASSUME NEW S, NEW f, NEW g, NEW p \in S, NEW r,
         \A q \in S : g[q] = IF q = p THEN f[p] \cup {r} ELSE f[q]
  PROVE  (UNION {g[q] : q \in S}) = (UNION {f[q] : q \in S}) \cup {r}
<1>1. ASSUME NEW x \in (UNION {g[q] : q \in S}) PROVE x \in (UNION {f[q] : q \in S}) \cup {r}
  <2>1. PICK q \in S : x \in g[q]
    OBVIOUS
  <2>2. x \in f[q] \/ x = r
    BY <2>1
  <2> QED
    BY <2>2
<1>2. ASSUME NEW x \in (UNION {f[q] : q \in S}) PROVE x \in (UNION {g[q] : q \in S})
  <2>1. PICK q \in S : x \in f[q]
    OBVIOUS
  <2>2. x \in g[q]
    BY <2>1
  <2> QED
    BY <2>2
<1>3. r \in (UNION {g[q] : q \in S})
  <2>1. r \in g[p]
    OBVIOUS
  <2> QED
    BY <2>1
<1> QED
  BY <1>1, <1>2, <1>3

LEMMA UnionsCover ==
  ASSUME NEW R, NEW P, NEW f, NEW W, NEW g,
         \A x \in R : (\E p \in P : x \in f[p]) \/ (\E w \in W : x \in g[w].held),
         \A p \in P : f[p] \subseteq R,
         \A w \in W : g[w].held \subseteq R
  PROVE  R = (UNION {f[p] : p \in P}) \cup (UNION {g[w].held : w \in W})
<1>1. ASSUME NEW x \in R
      PROVE  x \in (UNION {f[p] : p \in P}) \cup (UNION {g[w].held : w \in W})
  OBVIOUS
<1>2. ASSUME NEW x \in (UNION {f[p] : p \in P}) PROVE x \in R
  OBVIOUS
<1>3. ASSUME NEW x \in (UNION {g[w].held : w \in W}) PROVE x \in R
  OBVIOUS
<1> QED
  BY <1>1, <1>2, <1>3

LEMMA TrackedPlace ==
  ASSUME NEW w \in Workers
  PROVE  Tracked(w) \in {"offer", "remote", "serve", "idle"}
BY DEF Tracked

-----------------------------------------------------------------------------

LEMMA InitInv == Init => Inv
<1> SUFFICES ASSUME Init PROVE Inv
  OBVIOUS
<1> USE DEF Init
<1>1. \A w \in Workers : Sound(task[w])
  BY IdleTask DEF Sound, Acting, Peerless
<1>2. Unused \in ConnRecord
  BY DEF Unused, ConnRecord
<1>3. TypeOK
  BY <1>2, IdleTask DEF TypeOK
<1>4. NoticesKnown /\ TableKnown /\ Numbered
  BY DEF NoticesKnown, TableKnown, Numbered
<1>5. HandlersAccounted
  BY IdleTask DEF HandlersAccounted
<1> QED
  BY <1>1, <1>3, <1>4, <1>5 DEF Inv

-----------------------------------------------------------------------------
(* The peer and the network.                                               *)

LEMMA ConnectInv == ASSUME Inv, NEW c \in Conns, Connect(c) PROVE Inv'
<1> DEFINE r == [conn[c] EXCEPT !.state = "connected"]
<1>1. r \in ConnRecord /\ r.peer = conn[c].peer /\ conn[c].relays <= r.relays
  BY TypesOf DEF ConnRecord
<1>2. conn' = [conn EXCEPT ![c] = r]
  BY TypesOf DEF Connect
<1>3. ConnsGrow
  BY <1>1, <1>2, OneConnGrows DEF Used, IsClosed, Connect, Lose, Fail
<1>4. NoticesKnown'
  BY <1>3 DEF Inv, NoticesKnown, Notice, Connect, Raised, ConnsGrow, Used
<1> QED
  BY <1>3, <1>4, StepInv DEF Connect

LEMMA LoseInv == ASSUME Inv, NEW c \in Conns, Lose(c) PROVE Inv'
<1> DEFINE r == [conn[c] EXCEPT !.state = "disconnected"]
<1>1. r \in ConnRecord /\ r.peer = conn[c].peer /\ conn[c].relays <= r.relays
  BY TypesOf DEF ConnRecord
<1>2. conn' = [conn EXCEPT ![c] = r]
  BY TypesOf DEF Lose
<1>3. ConnsGrow
  BY <1>1, <1>2, OneConnGrows DEF Used, IsClosed, Connect, Lose, Fail
<1>4. NoticesKnown'
  BY <1>3 DEF Inv, NoticesKnown, Notice, Lose, Raised, ConnsGrow, Used
<1> QED
  BY <1>3, <1>4, StepInv DEF Lose

LEMMA FailInv == ASSUME Inv, NEW c \in Conns, Fail(c) PROVE Inv'
<1> DEFINE r == [conn[c] EXCEPT !.state = "failed"]
<1>1. r \in ConnRecord /\ r.peer = conn[c].peer /\ conn[c].relays <= r.relays
  BY TypesOf DEF ConnRecord
<1>2. conn' = [conn EXCEPT ![c] = r]
  BY TypesOf DEF Fail
<1>3. ConnsGrow
  BY <1>1, <1>2, OneConnGrows DEF Used, IsClosed, Connect, Lose, Fail
<1>4. NoticesKnown'
  BY <1>3 DEF Inv, NoticesKnown, Notice, Fail, Raised, ConnsGrow, Used
<1> QED
  BY <1>3, <1>4, StepInv DEF Fail

-----------------------------------------------------------------------------
(* Goroutines begin.                                                       *)

LEMMA RequestInv == ASSUME Inv, NEW w \in Workers, NEW p \in Peers, Request(w, p) PROVE Inv'
<1>1. Moves(w)
  BY BeginMoves DEF Request, Places, Acting
<1> QED
  BY <1>1, StepInv DEF Request, libVars

LEMMA OfferInv == ASSUME Inv, NEW w \in Workers, NEW p \in Peers, Offer(w, p) PROVE Inv'
<1>1. Moves(w)
  BY BeginMoves DEF Offer, Places, Acting
<1> QED
  BY <1>1, StepInv DEF Offer, libVars

LEMMA DisconnectInv == ASSUME Inv, NEW w \in Workers, NEW p \in Peers, Disconnect(w, p) PROVE Inv'
<1>1. peerConnections[p] \in Conns /\ Used(peerConnections[p])'
  BY DEF Inv, TableKnown, Disconnect, libVars, Used
<1>2. Moves(w)
  BY <1>1, BeginMoves DEF Disconnect, Places
<1> QED
  BY <1>2, StepInv DEF Disconnect, libVars

LEMMA AnswerInv == ASSUME Inv, NEW w \in Workers, NEW p \in Peers, Answer(w, p) PROVE Inv'
<1> DEFINE c == peerConnections[p]
           r == [conn[c] EXCEPT !.sig = "stable", !.agreed = TRUE]
<1>1. c \in Conns /\ conn[c] \in ConnRecord
  BY TypesOf DEF Inv, TableKnown, Answer
<1>2. r \in ConnRecord /\ r.peer = conn[c].peer /\ r.state = conn[c].state
      /\ conn[c].relays <= r.relays
  <2>1. r \in ConnRecord
    BY <1>1 DEF ConnRecord
  <2>2. r.peer = conn[c].peer /\ r.state = conn[c].state
        /\ r.relays = conn[c].relays /\ conn[c].relays \in Nat
    BY <1>1 DEF ConnRecord
  <2> QED
    BY <2>1, <2>2
<1>3. conn' = [conn EXCEPT ![c] = r]
  BY <1>1, TypesOf DEF Answer
<1>4. ConnsGrow
  BY <1>1, <1>2, <1>3, OneConnGrows DEF Used, IsClosed
<1>5. Moves(w)
  BY BeginMoves DEF Answer, Places, Acting
<1> QED
  BY <1>4, <1>5, StepInv DEF Answer

LEMMA AddOBSTrackInv ==
  ASSUME Inv, NEW w \in Workers, NEW t \in OBSTracks, AddOBSTrack(w, t)
  PROVE  Inv'
<1> DEFINE r == [Idle EXCEPT !.at = "list", !.role = "whip", !.adding = {t}]
<1>1. r \in Task /\ r.at = "list" /\ r.held = {} /\ ~r.marks
  BY DEF Idle, Task, Places
<1>2. task'[w] = r /\ task' = [task EXCEPT ![w] = task'[w]] /\ task[w].held = {}
  BY TypesOf, ActingTask DEF AddOBSTrack, Becomes, At
<1>3. Moves(w)
  BY <1>1, <1>2 DEF Moves, Sound, Acting, Peerless
<1>4. ForwardingTyped' /\ MarksStay
  BY DEF Inv, TypeOK, ForwardingTyped, MarksStay, AddOBSTrack
<1> QED
  BY <1>3, <1>4, StepInv DEF AddOBSTrack, libVars

LEMMA HandleNoticeInv ==
  ASSUME Inv, NEW w \in Workers, NEW n \in notices, HandleNotice(w, n)
  PROVE  Inv'
<1> DEFINE c == n.conn
<1>1. c \in Conns /\ Used(c) /\ conn[c].peer \in Peers /\ Used(c)'
  BY TypesOf DEF Inv, NoticesKnown, Notice, HandleNotice, Used
<1>2. NoticesKnown'
  BY DEF Inv, NoticesKnown, HandleNotice, Used
<1>3. n.state \in {"connected", "disconnected", "failed", "closed"}
  BY DEF Inv, NoticesKnown, Notice
<1>4. UNCHANGED task \/ Moves(w)
  BY <1>1, <1>3, BeginMoves DEF HandleNotice, Places
<1>5. UNCHANGED timers \/ timers' \in [Conns -> Nat]
  <2>1. timers \in [Conns -> Nat]
    BY DEF Inv, TypeOK
  <2>2. UNCHANGED timers \/ timers' = [timers EXCEPT ![c] = @ + 1]
    BY <1>3 DEF HandleNotice
  <2> QED
    BY <1>1, <2>1, <2>2
<1> QED
  BY <1>2, <1>4, <1>5, StepInv DEF HandleNotice

LEMMA TimerFiresInv ==
  ASSUME Inv, NEW w \in Workers, NEW c \in Conns, TimerFires(w, c)
  PROVE  Inv'
<1>1. timers' \in [Conns -> Nat]
  BY DEF TimerFires, Expired, Inv, TypeOK
<1>2. UNCHANGED task \/ Moves(w)
  <2>1. CASE StillDisconnected(c)
    <3>1. Used(c)' /\ conn[c].peer \in Peers
      BY <2>1, TypesOf DEF StillDisconnected, Registered, TimerFires, Used
    <3> QED
      BY <2>1, <3>1, BeginMoves DEF TimerFires, Places
  <2> QED
    BY <2>1 DEF TimerFires
<1> QED
  BY <1>1, <1>2, StepInv DEF TimerFires

-----------------------------------------------------------------------------
(* Steps of CreatePeerConnection.                                          *)

LEMMA SigGrows ==
  ASSUME Inv, NEW c \in Conns,
         NEW s \in {"offered", "haveRemote", "stable"}, conn' = [conn EXCEPT ![c].sig = s]
  PROVE  ConnsGrow
<1> DEFINE r == [conn[c] EXCEPT !.sig = s]
<1>1. conn[c] \in ConnRecord
  BY TypesOf
<1>2. r \in ConnRecord
  BY <1>1 DEF ConnRecord
<1>3. r.peer = conn[c].peer /\ r.state = conn[c].state /\ conn[c].relays <= r.relays
  BY <1>1 DEF ConnRecord
<1>4. conn' = [conn EXCEPT ![c] = r]
  BY TypesOf
<1> QED
  BY <1>2, <1>3, <1>4, OneConnGrows DEF Used, IsClosed

LEMMA SendsGrows ==
  ASSUME Inv, NEW c \in Conns, conn' = [conn EXCEPT ![c].sends = TRUE]
  PROVE  ConnsGrow
<1> DEFINE r == [conn[c] EXCEPT !.sends = TRUE]
<1>1. conn[c] \in ConnRecord
  BY TypesOf
<1>2. r \in ConnRecord
  BY <1>1 DEF ConnRecord
<1>3. r.peer = conn[c].peer /\ r.state = conn[c].state /\ conn[c].relays <= r.relays
  BY <1>1 DEF ConnRecord
<1>4. conn' = [conn EXCEPT ![c] = r]
  BY TypesOf
<1> QED
  BY <1>2, <1>3, <1>4, OneConnGrows DEF Used, IsClosed

LEMMA ConfiguredGrows ==
  ASSUME Inv, NEW c \in Conns, conn' = [conn EXCEPT ![c].configured = TRUE]
  PROVE  ConnsGrow
<1> DEFINE r == [conn[c] EXCEPT !.configured = TRUE]
<1>1. conn[c] \in ConnRecord
  BY TypesOf
<1>2. r \in ConnRecord
  BY <1>1 DEF ConnRecord
<1>3. r.peer = conn[c].peer /\ r.state = conn[c].state /\ conn[c].relays <= r.relays
  BY <1>1 DEF ConnRecord
<1>4. conn' = [conn EXCEPT ![c] = r]
  BY TypesOf
<1> QED
  BY <1>2, <1>3, <1>4, OneConnGrows DEF Used, IsClosed

LEMMA AgreedGrows ==
  ASSUME Inv, NEW c \in Conns,
         NEW s \in {"offered", "haveRemote", "stable"}, conn' = [conn EXCEPT ![c].sig = s, ![c].agreed = TRUE]
  PROVE  ConnsGrow
<1> DEFINE r == [conn[c] EXCEPT !.sig = s, !.agreed = TRUE]
<1>1. conn[c] \in ConnRecord
  BY TypesOf
<1>2. r \in ConnRecord
  BY <1>1 DEF ConnRecord
<1>3. r.peer = conn[c].peer /\ r.state = conn[c].state /\ conn[c].relays <= r.relays
  BY <1>1 DEF ConnRecord
<1>4. conn' = [conn EXCEPT ![c] = r]
  BY TypesOf
<1> QED
  BY <1>2, <1>3, <1>4, OneConnGrows DEF Used, IsClosed

LEMMA OfferedGrows ==
  ASSUME Inv, NEW c \in Conns, conn' = [conn EXCEPT ![c].sends = TRUE, ![c].sig = "offered"]
  PROVE  ConnsGrow
<1> DEFINE r == [conn[c] EXCEPT !.sends = TRUE, !.sig = "offered"]
<1>1. conn[c] \in ConnRecord
  BY TypesOf
<1>2. r \in ConnRecord
  BY <1>1 DEF ConnRecord
<1>3. r.peer = conn[c].peer /\ r.state = conn[c].state /\ conn[c].relays <= r.relays
  BY <1>1 DEF ConnRecord
<1>4. conn' = [conn EXCEPT ![c] = r]
  BY TypesOf
<1> QED
  BY <1>2, <1>3, <1>4, OneConnGrows DEF Used, IsClosed

LEMMA CreateInv == ASSUME Inv, NEW w \in Workers, NEW c \in Conns, Create(w, c) PROVE Inv'
<1> DEFINE p == task[w].peer
           r == [conn[c] EXCEPT !.peer = p, !.waits = TRUE]
           t == [task[w] EXCEPT !.at = "configure", !.conn = c]
<1>1. task[w] \in Task /\ p \in Peers /\ task[w].held = {} /\ ~task[w].marks
  BY ActingTask DEF Create, At, Peerless
<1>2. conn[c] \in ConnRecord
  BY TypesOf
<1>3. r \in ConnRecord
  BY <1>1, <1>2 DEF ConnRecord
<1>4. r.peer # None /\ r.state = conn[c].state /\ conn[c].relays <= r.relays
  BY <1>1, <1>2, NoneAssumption DEF ConnRecord
<1>5. conn' = [conn EXCEPT ![c] = r]
  BY TypesOf DEF Create
<1>6. ConnsGrow /\ Used(c)'
  BY <1>3, <1>4, <1>5, OneConnGrows, TypesOf DEF Used, IsClosed
<1>7. TableKnown'
  BY <1>1, <1>6 DEF Inv, TableKnown, Create, ConnsGrow, Used
<1>8. Moves(w)
  <2>1. t \in Task /\ t.at = "configure" /\ t.peer = p /\ t.conn = c /\ t.held = {} /\ ~t.marks
    BY <1>1 DEF Task, Places
  <2>2. task'[w] = t /\ task' = [task EXCEPT ![w] = task'[w]]
    BY TypesOf DEF Create, Becomes
  <2>3. Sound(task[w])'
    BY <1>1, <1>6, <2>1, <2>2 DEF Sound, Used
  <2> QED
    BY <1>1, <2>1, <2>2, <2>3 DEF Moves
<1> QED
  BY <1>6, <1>7, <1>8, StepInv DEF Create

LEMMA CannotCreateInv == ASSUME Inv, NEW w \in Workers, CannotCreate(w) PROVE Inv'
<1>1. Moves(w)
  BY FinishMoves DEF CannotCreate
<1> QED
  BY <1>1, StepInv DEF CannotCreate, libVars

LEMMA ConfigureInv == ASSUME Inv, NEW w \in Workers, Configure(w) PROVE Inv'
<1>1. ConnsGrow
  BY ActingTask, ConfiguredGrows DEF Configure, At, Acting
<1>2. Moves(w)
  BY <1>1, GotoMoves DEF Configure, At, Acting, Peerless, Places
<1> QED
  BY <1>1, <1>2, StepInv DEF Configure

LEMMA SendOfferInv == ASSUME Inv, NEW w \in Workers, SendOffer(w) PROVE Inv'
<1>1. ConnsGrow
  BY ActingTask, SigGrows DEF SendOffer, At, Acting
<1>2. Moves(w)
  BY FinishMoves DEF SendOffer, At
<1> QED
  BY <1>1, <1>2, StepInv DEF SendOffer

LEMMA OfferFailsInv == ASSUME Inv, NEW w \in Workers, OfferFails(w) PROVE Inv'
<1>1. ConnsGrow /\ NoticesKnown'
  BY ActingTask, CloseGrows DEF OfferFails, At, Acting
<1>2. Moves(w)
  BY FinishMoves DEF OfferFails, At
<1> QED
  BY <1>1, <1>2, StepInv DEF OfferFails

(* An entry of the table that is removed.                                  *)
LEMMA RemovalKnown ==
  ASSUME Inv, NEW p \in Peers, UNCHANGED conn \/ ConnsGrow,
         peerConnections' = [peerConnections EXCEPT ![p] = None]
  PROVE  TableKnown'
BY DEF Inv, TableKnown, ConnsGrow, Used

LEMMA AbortMakerInv == ASSUME Inv, NEW w \in Workers, AbortMaker(w) PROVE Inv'
<1>1. ConnsGrow /\ NoticesKnown'
  BY ActingTask, CloseGrows DEF AbortMaker, At, Acting
<1>2. TableKnown'
  BY <1>1, ActingTask, RemovalKnown DEF AbortMaker, At, Peerless
<1>3. Moves(w)
  BY <1>1, GotoMoves DEF AbortMaker, At, Acting, Peerless, Places
<1> QED
  BY <1>1, <1>2, <1>3, StepInv DEF AbortMaker

-----------------------------------------------------------------------------
(* Steps of HandleOfferAsReceiver.                                         *)

LEMMA ReceiveInv == ASSUME Inv, NEW w \in Workers, Receive(w) PROVE Inv'
<1> DEFINE c == peerConnections[task[w].peer]
<1>1. task[w].peer \in Peers
  BY ActingTask DEF Receive, At, Peerless
<1>2. CASE c # None /\ Ended(c)
  <2>1. c \in Conns /\ Used(c)
    BY <1>1, <1>2 DEF Inv, TableKnown
  <2>2. Close(c) /\ Goto(w, "purge")
    BY <1>2 DEF Receive
  <2>3. ConnsGrow /\ NoticesKnown'
    BY <2>1, <2>2, CloseGrows
  <2>4. Moves(w)
    BY <2>2, <2>3, GotoMoves DEF Receive, At, Acting, Peerless, Places
  <2> QED
    BY <2>3, <2>4, StepInv DEF Receive
<1>3. CASE ~(c # None /\ Ended(c))
  <2>1. Goto(w, "lookup") /\ UNCHANGED <<conn, notices>>
    BY <1>3 DEF Receive
  <2>2. Moves(w)
    BY <2>1, GotoMoves DEF Receive, At, Acting, Peerless, Places
  <2> QED
    BY <2>1, <2>2, StepInv DEF Receive
<1> QED
  BY <1>2, <1>3

LEMMA PurgeInv == ASSUME Inv, NEW w \in Workers, Purge(w) PROVE Inv'
<1> DEFINE t == [task[w] EXCEPT !.at = "unforward", !.then = "lookup"]
<1>1. task[w] \in Task /\ task[w].peer \in Peers /\ ~task[w].marks
  BY ActingTask DEF Purge, At, Peerless
<1>2. TableKnown'
  BY <1>1, RemovalKnown DEF Purge, libVars
<1>3. t \in Task /\ t.at = "unforward" /\ t.peer = task[w].peer /\ t.held = task[w].held
      /\ t.marks = task[w].marks
  BY <1>1 DEF Task, Places
<1>4. Moves(w)
  BY <1>1, <1>3, GoesOn DEF Purge, libVars, At, Acting, Peerless
<1> QED
  BY <1>2, <1>4, StepInv DEF Purge, libVars

LEMMA LookupInv == ASSUME Inv, NEW w \in Workers, Lookup(w) PROVE Inv'
<1> DEFINE c == peerConnections[task[w].peer]
           refused == [task[w] EXCEPT !.at = "accept", !.conn = c]
           reused == [task[w] EXCEPT !.at = "outgoing", !.conn = c, !.fresh = FALSE]
<1>1. task[w] \in Task /\ task[w].peer \in Peers /\ ~task[w].marks /\ task[w].held = {}
  BY ActingTask DEF Lookup, At, Peerless
<1>2. c \in Conns \cup {None} /\ (c # None => Used(c))
  BY <1>1 DEF Inv, TableKnown
<1>3. UNCHANGED conn \/ ConnsGrow
  <2>1. CASE c = None
    BY <2>1 DEF Lookup
  <2>2. CASE c # None
    BY <1>2, <2>2, SigGrows DEF Lookup
  <2> QED
    BY <2>1, <2>2
<1>4. Moves(w)
  <2>1. CASE c = None \/ (c # None /\ Ended(c))
    <3>1. refused \in Task /\ refused.at = "accept" /\ refused.peer = task[w].peer
          /\ refused.held = task[w].held /\ refused.marks = task[w].marks
      BY <1>1, <1>2 DEF Task, Places
    <3>2. Becomes(w, refused)
      BY <2>1 DEF Lookup
    <3> QED
      BY <1>1, <1>3, <3>1, <3>2, GoesOn DEF Lookup, At, Acting, Peerless
  <2>2. CASE ~(c = None \/ (c # None /\ Ended(c)))
    <3>1. reused \in Task /\ reused.at = "outgoing" /\ reused.peer = task[w].peer
          /\ reused.held = {} /\ ~reused.marks /\ reused.conn = c
      BY <1>1, <1>2 DEF Task, Places
    <3>2. task'[w] = reused /\ task' = [task EXCEPT ![w] = task'[w]]
      BY <2>2, TypesOf DEF Lookup, Becomes
    <3>3. Sound(task[w])'
      BY <1>1, <1>2, <1>3, <2>2, <3>1, <3>2 DEF Sound, ConnsGrow, Used
    <3> QED
      BY <1>1, <3>1, <3>2, <3>3 DEF Moves
  <2> QED
    BY <2>1, <2>2
<1> QED
  BY <1>3, <1>4, StepInv DEF Lookup

LEMMA AcceptInv == ASSUME Inv, NEW w \in Workers, NEW c \in Conns, Accept(w, c) PROVE Inv'
<1> DEFINE p == task[w].peer
           r == [conn[c] EXCEPT !.peer = p, !.configured = TRUE]
           t == [task[w] EXCEPT !.at = "outgoing", !.conn = c, !.fresh = TRUE]
<1>1. task[w] \in Task /\ p \in Peers /\ task[w].held = {} /\ ~task[w].marks
  BY ActingTask DEF Accept, At, Peerless
<1>2. conn[c] \in ConnRecord
  BY TypesOf
<1>3. r \in ConnRecord
  BY <1>1, <1>2 DEF ConnRecord
<1>4. r.peer # None /\ r.state = conn[c].state /\ conn[c].relays <= r.relays
  BY <1>1, <1>2, NoneAssumption DEF ConnRecord
<1>5. conn' = [conn EXCEPT ![c] = r]
  BY TypesOf DEF Accept
<1>6. ConnsGrow /\ Used(c)'
  BY <1>3, <1>4, <1>5, OneConnGrows, TypesOf DEF Used, IsClosed
<1>7. TableKnown'
  BY <1>1, <1>6 DEF Inv, TableKnown, Accept, ConnsGrow, Used
<1>8. Moves(w)
  <2>1. t \in Task /\ t.at = "outgoing" /\ t.peer = p /\ t.conn = c /\ t.held = {} /\ ~t.marks
    BY <1>1 DEF Task, Places
  <2>2. task'[w] = t /\ task' = [task EXCEPT ![w] = task'[w]]
    BY TypesOf DEF Accept, Becomes
  <2>3. Sound(task[w])'
    BY <1>1, <1>6, <2>1, <2>2 DEF Sound, Used
  <2> QED
    BY <1>1, <2>1, <2>2, <2>3 DEF Moves
<1> QED
  BY <1>6, <1>7, <1>8, StepInv DEF Accept

LEMMA SetRemoteDescriptionInv ==
  ASSUME Inv, NEW w \in Workers, SetRemoteDescription(w)
  PROVE  Inv'
<1>1. ConnsGrow
  BY ActingTask, SigGrows DEF SetRemoteDescription, At, Acting
<1>2. Moves(w)
  BY <1>1, GotoMoves DEF SetRemoteDescription, At, Acting, Peerless, Places
<1> QED
  BY <1>1, <1>2, StepInv DEF SetRemoteDescription

LEMMA SendAnswerInv == ASSUME Inv, NEW w \in Workers, SendAnswer(w) PROVE Inv'
<1>1. ConnsGrow
  BY ActingTask, AgreedGrows DEF SendAnswer, At, Acting
<1>2. Moves(w)
  BY FinishMoves DEF SendAnswer, At
<1> QED
  BY <1>1, <1>2, StepInv DEF SendAnswer

LEMMA CleanUpMoves ==
  ASSUME Inv, NEW w \in Workers, NEW then \in {"idle", "lookup", "accept", "reconnect"},
         CleanUp(w, then), UNCHANGED conn \/ ConnsGrow,
         task[w].conn \in Conns, conn'[task[w].conn].state = "closed",
         task[w].at \notin {"stop", "subscribe"} \cup Peerless
  PROVE  Moves(w)
<1> DEFINE t == [task[w] EXCEPT !.at = "match", !.then = then]
<1>1. task[w] \in Task /\ ~task[w].marks
  BY ActingTask
<1>2. t \in Task /\ t.at = "match" /\ t.conn = task[w].conn /\ t.peer = task[w].peer /\ t.held = task[w].held
      /\ t.marks = task[w].marks
  BY <1>1 DEF Task, Places
<1> QED
  BY <1>1, <1>2, GoesOn DEF CleanUp, Acting, Peerless

LEMMA ReceiverFailsInv == ASSUME Inv, NEW w \in Workers, ReceiverFails(w) PROVE Inv'
<1>1. task[w].at \in {"remote", "answer", "abort"}
  BY DEF ReceiverFails, At
<1>2. /\ ConnsGrow /\ NoticesKnown'
      /\ task[w].conn \in Conns /\ conn'[task[w].conn].state = "closed"
  BY <1>1, ActingTask, CloseGrows DEF ReceiverFails, Acting
<1>3. CleanUp(w, "idle") \/ CleanUp(w, "accept") \/ Finish(w)
  BY ActingTask DEF ReceiverFails, Task
<1>4. Moves(w)
  BY <1>1, <1>2, <1>3, FinishMoves, CleanUpMoves DEF Peerless
<1> QED
  BY <1>2, <1>4, StepInv DEF ReceiverFails

-----------------------------------------------------------------------------
(* Tracks: EnsureOutgoingTracks, ForwardOBSTracksToReceiver, AddOBSTrack.  *)

LEMMA EnsureOutgoingTracksInv ==
  ASSUME Inv, NEW w \in Workers, EnsureOutgoingTracks(w)
  PROVE  Inv'
<1>1. PICK place \in {"forward", "tracks", "offer", "remote", "serve", "idle"} :
        Goto(w, place)
  BY TrackedPlace DEF EnsureOutgoingTracks
<1>2. Moves(w)
  BY <1>1, GotoMoves DEF EnsureOutgoingTracks, At, Acting, Peerless, Places, libVars
<1> QED
  BY <1>2, StepInv DEF EnsureOutgoingTracks, libVars

LEMMA AddRelayTracksInv == ASSUME Inv, NEW w \in Workers, AddRelayTracks(w) PROVE Inv'
<1>1. UNCHANGED conn \/ ConnsGrow
  BY ActingTask, SendsGrows DEF AddRelayTracks, At, Acting
<1>2. Moves(w)
  BY <1>1, GotoMoves DEF AddRelayTracks, At, Acting, Peerless, Places
<1> QED
  BY <1>1, <1>2, StepInv DEF AddRelayTracks

(* The new relay has a number of its own, so no one has its handler yet.   *)
LEMMA StartRelayInv == ASSUME Inv, NEW w \in Workers, StartRelay(w) PROVE Inv'
<1> DEFINE c == task[w].conn
           p == task[w].peer
           r == [conn |-> c, n |-> conn[c].relays + 1]
           d == [conn[c] EXCEPT !.relays = @ + 1]
<1>1. c \in Conns /\ Used(c) /\ p \in Peers /\ task[w].held = {}
  BY ActingTask DEF StartRelay, At, Acting, Peerless
<1>2. conn[c] \in ConnRecord /\ conn[c].relays \in Nat
  BY <1>1, TypesOf
<1>3. ConnsGrow /\ conn'[c].relays = conn[c].relays + 1
  <2>1. d \in ConnRecord /\ d.peer = conn[c].peer /\ d.state = conn[c].state /\ d.relays = conn[c].relays + 1
    BY <1>2 DEF ConnRecord
  <2>2. conn' = [conn EXCEPT ![c] = d]
    BY <1>1, TypesOf DEF StartRelay
  <2>3. conn[c].relays <= d.relays
    BY <1>2, <2>1
  <2> QED
    BY <1>1, <2>1, <2>2, <2>3, OneConnGrows, TypesOf DEF Used, IsClosed
<1>4. r \in Relay /\ r \notin running
  <2>1. r \in Relay
    BY <1>1, <1>2 DEF Relay
  <2>2. ~(r.n <= conn[c].relays)
    BY <1>2
  <2> QED
    BY <2>1, <2>2 DEF Inv, Numbered
<1>5. PICK place \in {"offer", "remote", "serve", "idle"} : Goto(w, place)
  BY TrackedPlace DEF StartRelay
<1>6. Moves(w)
  BY <1>3, <1>5, GotoMoves DEF StartRelay, At, Acting, Peerless, Places
<1>7. \A v \in Workers : Sound(task[v])' /\ task'[v].held = task[v].held
  <2> TAKE v \in Workers
  <2>1. CASE v = w
    BY <2>1, <1>6 DEF Moves
  <2>2. CASE v # w
    <3>1. task'[v] = task[v]
      BY <2>2, <1>6, TypesOf DEF Moves
    <3>2. Sound(task[v])'
      BY <3>1, <1>3, OtherSound DEF StartRelay
    <3> QED
      BY <3>1, <3>2
  <2> QED
    BY <2>1, <2>2
<1>8. task' \in [Workers -> Task]
  BY <1>6, <1>7, TypesOf DEF Moves, Sound
<1>9. closeHandlers' \in [Peers -> SUBSET Relay] /\ running' \subseteq Relay
  BY <1>1, <1>4 DEF Inv, TypeOK, StartRelay
<1>10. Numbered'
  <2> SUFFICES ASSUME NEW s \in running' PROVE s.n <= conn'[s.conn].relays
    BY DEF Numbered
  <2>1. CASE s \in running
    BY <2>1, <1>3, StillNumbered
  <2>2. CASE s = r
    BY <2>2, <1>2, <1>3
  <2> QED
    BY <2>1, <2>2 DEF StartRelay
<1>11. HandlersAccounted'
  <2>1. /\ closeHandlers' = [closeHandlers EXCEPT ![p] = @ \cup {r}]
        /\ running' = running \cup {r}
        /\ closeHandlers \in [Peers -> SUBSET Relay]
    BY DEF Inv, TypeOK, StartRelay
  <2>2. \A q \in Peers : closeHandlers'[q] = IF q = p THEN closeHandlers[p] \cup {r}
                                                       ELSE closeHandlers[q]
    BY <2>1
  <2>3. (\A q \in Peers : r \notin closeHandlers[q]) /\ (\A v \in Workers : r \notin task[v].held)
    BY <1>4, InHandIsRunning
  <2>4. HandlersAccounted
    BY DEF Inv
  <2>5. (UNION {closeHandlers'[q] : q \in Peers}) = (UNION {closeHandlers[q] : q \in Peers}) \cup {r}
    <3> HIDE DEF r, p
    <3> QED
      BY <1>1, <2>2, UnionGrows
  <2>6. (UNION {task'[v].held : v \in Workers}) = (UNION {task[v].held : v \in Workers})
    BY <1>7
  <2>7. running' = (UNION {closeHandlers'[q] : q \in Peers}) \cup (UNION {task'[v].held : v \in Workers})
    <3> HIDE DEF r, p
    <3>1. running = (UNION {closeHandlers[q] : q \in Peers}) \cup (UNION {task[v].held : v \in Workers})
      BY <2>4 DEF HandlersAccounted
    <3> QED
      BY <2>1, <2>5, <2>6, <3>1
  <2>8. \A q, o \in Peers : q # o => closeHandlers'[q] \cap closeHandlers'[o] = {}
    BY <2>2, <2>3, <2>4 DEF HandlersAccounted
  <2>9. \A q \in Peers : \A v \in Workers : closeHandlers'[q] \cap task'[v].held = {}
    BY <1>7, <2>2, <2>3, <2>4 DEF HandlersAccounted
  <2>10. \A v, u \in Workers : v # u => task'[v].held \cap task'[u].held = {}
    BY <1>7, <2>4 DEF HandlersAccounted
  <2> QED
    BY <2>7, <2>8, <2>9, <2>10 DEF HandlersAccounted
<1> QED
  BY <1>3, <1>7, <1>8, <1>9, <1>10, <1>11, AnyStepInv DEF StartRelay

LEMMA ForwardInv == ASSUME Inv, NEW w \in Workers, Forward(w) PROVE Inv'
<1> DEFINE c == task[w].conn
           p == task[w].peer
           marked == IF forwarded[p] = None THEN {} ELSE forwarded[p]
           missing == obsTracks \ marked
           t == [task[w] EXCEPT !.at = "subscribe", !.adding = missing, !.marks = TRUE]
<1>1. c \in Conns /\ Used(c) /\ p \in Peers /\ task[w].held = {} /\ task[w] \in Task
  BY ActingTask DEF Forward, At, Acting, Peerless
<1>2. marked \in SUBSET OBSTracks /\ missing \in SUBSET OBSTracks
  BY <1>1 DEF Inv, TypeOK
<1>3. forwarded' = [forwarded EXCEPT ![p] = IF obsTracks = {} THEN @ ELSE marked]
  BY DEF Forward
<1>4. ForwardingTyped' /\ MarksStay
  BY <1>1, <1>2, <1>3, NoneAssumption DEF Inv, TypeOK, ForwardingTyped, MarksStay, Forward
<1>5. UNCHANGED conn \/ ConnsGrow
  BY <1>1, SendsGrows DEF Forward
<1>6. Moves(w)
  <2>1. CASE missing = {} \/ IsClosed(c)
    <3>1. PICK place \in {"offer", "remote", "serve", "idle"} : Goto(w, place)
      BY <2>1, TrackedPlace DEF Forward
    <3> QED
      BY <1>5, <3>1, GotoMoves DEF Forward, At, Acting, Peerless, Places
  <2>2. CASE ~(missing = {} \/ IsClosed(c))
    <3>1. t \in Task /\ t.at = "subscribe" /\ t.peer = p /\ t.conn = c /\ t.held = {}
      BY <1>1, <1>2 DEF Task, Places
    <3>2. task'[w] = t /\ task' = [task EXCEPT ![w] = task'[w]]
      BY <2>2, TypesOf DEF Forward, Becomes
    <3>3. forwarded'[p] = marked /\ forwarded'[p] # None
      <4>1. obsTracks # {}
        BY <2>2
      <4>2. forwarded' = [forwarded EXCEPT ![p] = marked]
        BY <4>1, <1>3
      <4>3. marked # None
        BY <1>2, NoneAssumption
      <4>4. forwarded \in [Peers -> {None} \cup SUBSET OBSTracks]
        BY DEF Inv, TypeOK
      <4> QED
        BY <1>1, <4>2, <4>3, <4>4
    <3>4. conn'[c].peer # None
      BY <1>1, <1>5 DEF ConnsGrow, Used
    <3>5. Sound(task[w])'
      BY <1>1, <3>1, <3>2, <3>3, <3>4 DEF Sound, Used
    <3> QED
      BY <1>1, <3>1, <3>2, <3>5 DEF Moves
  <2> QED
    BY <2>1, <2>2
<1> QED
  BY <1>4, <1>5, <1>6, StepInv DEF Forward

(* Marks are only written while their map is in the table.                 *)
LEMMA SubscribeInv == ASSUME Inv, NEW w \in Workers, Subscribe(w) PROVE Inv'
<1> DEFINE c == task[w].conn
           p == task[w].peer
           place == IF task[w].role = "waiter" THEN "renegotiate" ELSE Tracked(w)
           t == [task[w] EXCEPT !.marks = FALSE, !.at = place]
<1>1. /\ c \in Conns /\ Used(c) /\ p \in Peers /\ task[w].held = {} /\ task[w] \in Task
      /\ task[w].adding \in SUBSET OBSTracks
  BY ActingTask DEF Subscribe, At, Acting, Peerless, Task
<1>2. task[w].marks => forwarded[p] \in SUBSET OBSTracks
  BY <1>1 DEF Inv, TypeOK, Sound
<1>3. forwarded' = [forwarded EXCEPT ![p] = IF task[w].marks THEN @ \cup task[w].adding ELSE @]
  BY DEF Subscribe
<1>4. forwarded' \in [Peers -> {None} \cup SUBSET OBSTracks] /\ MarksStay
  BY <1>1, <1>2, <1>3, NoneAssumption DEF Inv, TypeOK, MarksStay
<1>5. ForwardingTyped'
  BY <1>1, <1>4 DEF Inv, TypeOK, ForwardingTyped, Subscribe
<1>6. place \in {"renegotiate", "offer", "remote", "serve", "idle"}
  BY TrackedPlace
<1>7. Moves(w)
  <2>1. t \in Task /\ t.at = place /\ t.peer = p /\ t.conn = c /\ t.held = {} /\ ~t.marks
    BY <1>1, <1>6 DEF Task, Places
  <2>2. task'[w] = t /\ task' = [task EXCEPT ![w] = task'[w]]
    BY TypesOf DEF Subscribe, Becomes
  <2>3. Sound(task[w])'
    BY <1>1, <1>6, <2>1, <2>2 DEF Sound, Used, Subscribe, libVars
  <2> QED
    BY <1>1, <2>1, <2>2, <2>3 DEF Moves
<1> QED
  BY <1>4, <1>5, <1>7, StepInv DEF Subscribe, libVars

LEMMA RenegotiateInv == ASSUME Inv, NEW w \in Workers, Renegotiate(w) PROVE Inv'
<1>1. UNCHANGED conn \/ ConnsGrow
  BY ActingTask, SigGrows DEF Renegotiate, At, Acting
<1>2. Moves(w)
  BY FinishMoves DEF Renegotiate, At
<1> QED
  BY <1>1, <1>2, StepInv DEF Renegotiate

LEMMA FindInv == ASSUME Inv, NEW w \in Workers, Find(w) PROVE Inv'
<1> DEFINE c == peerConnections[task[w].peer]
           t == [task[w] EXCEPT !.at = "await", !.conn = c]
<1>1. task[w] \in Task /\ task[w].peer \in Peers /\ ~task[w].marks /\ task[w].held = {}
  BY ActingTask DEF Find, At, Peerless
<1>2. Moves(w)
  <2>1. CASE c = None
    BY <2>1, FinishMoves DEF Find, At
  <2>2. CASE c # None
    <3>1. c \in Conns /\ Used(c)
      BY <1>1, <2>2 DEF Inv, TableKnown
    <3>2. t \in Task /\ t.at = "await" /\ t.peer = task[w].peer /\ t.conn = c /\ t.held = {}
          /\ ~t.marks
      BY <1>1, <3>1 DEF Task, Places
    <3>3. task'[w] = t /\ task' = [task EXCEPT ![w] = task'[w]]
      BY <2>2, TypesOf DEF Find, Becomes
    <3>4. Sound(task[w])'
      BY <1>1, <3>1, <3>2, <3>3 DEF Sound, Used, Find, libVars
    <3> QED
      BY <1>1, <3>2, <3>3, <3>4 DEF Moves
  <2> QED
    BY <2>1, <2>2
<1> QED
  BY <1>2, StepInv DEF Find, libVars

LEMMA AwaitStableInv == ASSUME Inv, NEW w \in Workers, AwaitStable(w) PROVE Inv'
<1>1. Moves(w)
  BY FinishMoves, GotoMoves DEF AwaitStable, At, Acting, Peerless, Places, libVars
<1> QED
  BY <1>1, StepInv DEF AwaitStable, libVars

LEMMA ListPeersInv == ASSUME Inv, NEW w \in Workers, ListPeers(w) PROVE Inv'
<1> DEFINE ids == {p \in Peers : peerConnections[p] # None}
           t == [task[w] EXCEPT !.at = "serve", !.ids = ids]
<1>1. task[w] \in Task /\ ~task[w].marks /\ task[w].held = {}
  BY ActingTask DEF ListPeers, At
<1>2. t \in Task /\ t.at = "serve" /\ t.held = {} /\ ~t.marks
  BY <1>1 DEF Task, Places
<1>3. task'[w] = t /\ task' = [task EXCEPT ![w] = task'[w]]
  BY TypesOf DEF ListPeers, Becomes
<1>4. Moves(w)
  BY <1>1, <1>2, <1>3 DEF Moves, Sound, Acting, Peerless
<1> QED
  BY <1>4, StepInv DEF ListPeers, libVars

LEMMA ServePeerInv == ASSUME Inv, NEW w \in Workers, NEW p \in Peers, ServePeer(w, p) PROVE Inv'
<1> DEFINE c == peerConnections[p]
           rest == task[w].ids \ {p}
           skipped == [task[w] EXCEPT !.ids = rest]
           served == [task[w] EXCEPT !.ids = rest, !.at = "subscribe", !.peer = p, !.conn = c]
<1>1. task[w] \in Task /\ task[w].at = "serve" /\ ~task[w].marks /\ task[w].held = {}
      /\ rest \in SUBSET Peers
  BY ActingTask DEF ServePeer, At, Task
<1>2. c \in Conns \cup {None} /\ (c # None => Used(c))
  BY DEF Inv, TableKnown
<1>3. UNCHANGED conn \/ ConnsGrow
  BY <1>2, SendsGrows, OfferedGrows DEF ServePeer
<1>4. Becomes(w, skipped) \/ (c # None /\ Becomes(w, served))
  BY DEF ServePeer
<1>5. Moves(w)
  <2>1. CASE Becomes(w, skipped)
    <3>1. skipped \in Task /\ skipped.at = "serve" /\ skipped.held = {} /\ ~skipped.marks
      BY <1>1 DEF Task
    <3>2. task'[w] = skipped /\ task' = [task EXCEPT ![w] = task'[w]]
      BY <2>1, TypesOf DEF Becomes
    <3> QED
      BY <1>1, <3>1, <3>2 DEF Moves, Sound, Acting, Peerless
  <2>2. CASE c # None /\ Becomes(w, served)
    <3>1. served \in Task /\ served.at = "subscribe" /\ served.peer = p /\ served.conn = c
          /\ served.held = {} /\ ~served.marks
      BY <1>1, <1>2 DEF Task, Places
    <3>2. task'[w] = served /\ task' = [task EXCEPT ![w] = task'[w]]
      BY <2>2, TypesOf DEF Becomes
    <3>3. c \in Conns /\ Used(c)'
      BY <1>2, <1>3, <2>2 DEF ConnsGrow, Used, ServePeer
    <3>4. Sound(task[w])'
      BY <3>1, <3>2, <3>3 DEF Sound, Used, ServePeer
    <3> QED
      BY <1>1, <3>1, <3>2, <3>4 DEF Moves
  <2> QED
    BY <1>4, <2>1, <2>2
<1> QED
  BY <1>3, <1>5, StepInv DEF ServePeer

LEMMA AllServedInv == ASSUME Inv, NEW w \in Workers, AllServed(w) PROVE Inv'
<1>1. Moves(w)
  BY FinishMoves DEF AllServed, At
<1> QED
  BY <1>1, StepInv DEF AllServed, libVars

-----------------------------------------------------------------------------
(* Clean-up.                                                               *)

LEMMA CloseConnectionInv == ASSUME Inv, NEW w \in Workers, CloseConnection(w) PROVE Inv'
<1>1. /\ ConnsGrow /\ NoticesKnown'
      /\ task[w].conn \in Conns /\ conn'[task[w].conn].state = "closed"
  BY ActingTask, CloseGrows DEF CloseConnection, At, Acting
<1>2. Moves(w)
  BY <1>1, GotoMoves DEF CloseConnection, At, Acting, Peerless, Places
<1> QED
  BY <1>1, <1>2, StepInv DEF CloseConnection

LEMMA RemoveMatchingInv == ASSUME Inv, NEW w \in Workers, RemoveMatching(w) PROVE Inv'
<1>1. task[w].peer \in Peers /\ task[w].then \in {"idle", "lookup", "accept", "reconnect"}
  BY ActingTask DEF RemoveMatching, At, Peerless, Task
<1>2. UNCHANGED peerConnections \/ TableKnown'
  BY <1>1, RemovalKnown DEF RemoveMatching, libVars
<1>3. PICK place \in {"unforward", "idle", "lookup", "accept", "reconnect"} : Goto(w, place)
  BY <1>1 DEF RemoveMatching
<1>4. Moves(w)
  BY <1>3, GotoMoves DEF RemoveMatching, At, Acting, Peerless, Places, libVars
<1> QED
  BY <1>2, <1>4, StepInv DEF RemoveMatching, libVars

(* The tasks that were marking in the deleted map mark no more.            *)
LEMMA DeleteMarksInv == ASSUME Inv, NEW w \in Workers, DeleteMarks(w) PROVE Inv'
<1> DEFINE p == task[w].peer
<1>1. p \in Peers /\ ~task[w].marks /\ task[w].held = {}
  BY ActingTask DEF DeleteMarks, At, Peerless
<1>2. forwarded' = [forwarded EXCEPT ![p] = None] /\ forwarded \in [Peers -> {None} \cup SUBSET OBSTracks]
  BY DEF DeleteMarks, Inv, TypeOK
<1>3. ForwardingTyped'
  BY <1>1, <1>2 DEF Inv, TypeOK, ForwardingTyped, DeleteMarks
<1>4. ASSUME NEW v \in Workers PROVE Sound(task[v])' /\ task'[v].held = task[v].held
  <2>1. task[v] \in Task /\ Sound(task[v])
    BY ActingTask DEF Inv
  <2>2. CASE v = w
    <3> DEFINE t == [task[w] EXCEPT !.at = "unlisten"]
    <3>1. t \in Task /\ t.at = "unlisten" /\ t.peer = p /\ t.held = {} /\ ~t.marks
      BY <1>1, <2>1, <2>2 DEF Task, Places
    <3>2. task'[v] = t
      BY <2>2 DEF DeleteMarks
    <3> QED
      BY <1>1, <2>2, <3>1, <3>2 DEF Sound, Acting
  <2>3. CASE v # w /\ task[v].peer = p
    <3> DEFINE t == [task[v] EXCEPT !.marks = FALSE]
    <3>1. t \in Task /\ t.at = task[v].at /\ t.peer = p /\ t.held = task[v].held /\ ~t.marks
          /\ t.conn = task[v].conn
      BY <2>1, <2>3 DEF Task
    <3>2. task'[v] = t
      BY <2>3 DEF DeleteMarks
    <3> QED
      BY <2>1, <2>3, <3>1, <3>2 DEF Sound, Used, IsClosed, DeleteMarks, libVars
  <2>4. CASE v # w /\ task[v].peer # p
    <3>1. task'[v] = task[v]
      BY <2>4 DEF DeleteMarks
    <3>2. task[v].marks => forwarded'[task[v].peer] # None
      BY <1>2, <2>1, <2>4 DEF Sound, Peerless
    <3> QED
      BY <2>1, <3>1, <3>2 DEF Sound, Used, IsClosed, DeleteMarks, libVars
  <2> QED
    BY <2>2, <2>3, <2>4
<1>5. task' \in [Workers -> Task]
  <2>1. DOMAIN task' = Workers /\ task' = [v \in Workers |-> task'[v]]
    BY DEF DeleteMarks
  <2> QED
    BY <1>4, <2>1 DEF Sound
<1>6. HandlersAccounted'
  BY <1>4 DEF Inv, HandlersAccounted, DeleteMarks, relayVars
<1>7. Numbered' /\ closeHandlers' \in [Peers -> SUBSET Relay] /\ running' \subseteq Relay
  BY DEF Inv, TypeOK, Numbered, DeleteMarks, relayVars, libVars
<1> QED
  BY <1>3, <1>4, <1>5, <1>6, <1>7, AnyStepInv DEF DeleteMarks, libVars

LEMMA RemoveReceiversInv == ASSUME Inv, NEW w \in Workers, RemoveReceivers(w) PROVE Inv'
<1>1. ForwardingTyped' /\ MarksStay
  BY ActingTask DEF RemoveReceivers, At, Peerless, Inv, TypeOK, ForwardingTyped, MarksStay
<1>2. Moves(w)
  BY GotoMoves DEF RemoveReceivers, At, Acting, Peerless, Places, libVars
<1> QED
  BY <1>1, <1>2, StepInv DEF RemoveReceivers, libVars

(* What a step that only handles handlers leaves to show.                  *)
LEMMA HandlerStepInv ==
  ASSUME Inv, NEW w \in Workers,
         UNCHANGED <<libVars, peerConnections, fwdVars, events>>,
         task' = [task EXCEPT ![w] = task'[w]], Sound(task[w])',
         closeHandlers' \in [Peers -> SUBSET Relay], running' \subseteq running,
         HandlersAccounted'
  PROVE  Inv'
<1>1. \A v \in Workers : Sound(task[v])'
  <2> TAKE v \in Workers
  <2>1. CASE v = w
    BY <2>1
  <2>2. CASE v # w
    BY <2>2, TypesOf, OtherSound DEF libVars
  <2> QED
    BY <2>1, <2>2
<1>2. task' \in [Workers -> Task]
  BY <1>1, TypesOf DEF Sound
<1>3. running' \subseteq Relay /\ Numbered'
  BY DEF Inv, TypeOK, Numbered, libVars
<1> QED
  BY <1>1, <1>2, <1>3, AnyStepInv DEF libVars

(* The handlers of the peer change hands.                                  *)
LEMMA TakeHandlersInv == ASSUME Inv, NEW w \in Workers, TakeHandlers(w) PROVE Inv'
<1> DEFINE p == task[w].peer
           t == [task[w] EXCEPT !.at = "stop", !.held = closeHandlers[p]]
<1>1. task[w] \in Task /\ p \in Peers /\ ~task[w].marks /\ task[w].held = {}
  BY ActingTask DEF TakeHandlers, At, Peerless
<1>2. closeHandlers \in [Peers -> SUBSET Relay] /\ HandlersAccounted
  BY DEF Inv, TypeOK
<1>3. t \in Task /\ t.at = "stop" /\ t.peer = p /\ ~t.marks /\ t.held = closeHandlers[p]
  BY <1>1, <1>2 DEF Task, Places
<1>4. task'[w] = t /\ task' = [task EXCEPT ![w] = task'[w]]
  BY TypesOf DEF TakeHandlers, Becomes
<1>5. Sound(task[w])'
  BY <1>1, <1>3, <1>4 DEF Sound, Acting
<1>6. closeHandlers' = [closeHandlers EXCEPT ![p] = {}] /\ running' = running
  BY DEF TakeHandlers
<1>7. HandlersAccounted'
  <2>1. \A v \in Workers : task'[v].held = IF v = w THEN closeHandlers[p] ELSE task[v].held
    BY <1>3, <1>4, TypesOf
  <2>2. \A q \in Peers : closeHandlers'[q] = IF q = p THEN {} ELSE closeHandlers[q]
    BY <1>2, <1>6
  <2> HIDE DEF p, t
  <2>3. ASSUME NEW x \in running
        PROVE  (\E q \in Peers : x \in closeHandlers[q]) \/ (\E v \in Workers : x \in task[v].held)
    BY <1>2 DEF HandlersAccounted
  <2>4. ASSUME NEW x \in running'
        PROVE  (\E q \in Peers : x \in closeHandlers'[q]) \/ (\E v \in Workers : x \in task'[v].held)
    <3>1. CASE \E q \in Peers : x \in closeHandlers[q]
      BY <3>1, <2>1, <2>2
    <3>2. CASE \E v \in Workers : x \in task[v].held
      BY <3>2, <2>1, <1>1 DEF p
    <3> QED
      BY <1>6, <2>3, <2>4, <3>1, <3>2
  <2>5. /\ \A q \in Peers : closeHandlers'[q] \subseteq running'
        /\ \A v \in Workers : task'[v].held \subseteq running'
    BY <1>1, <1>6, <2>1, <2>2, InHandIsRunning DEF p
  <2>6. running' = (UNION {closeHandlers'[q] : q \in Peers})
                   \cup (UNION {task'[v].held : v \in Workers})
    BY <2>4, <2>5, UnionsCover
  <2>7. \A q, o \in Peers : q # o => closeHandlers'[q] \cap closeHandlers'[o] = {}
    BY <1>2, <2>2 DEF HandlersAccounted
  <2>8. \A v, u \in Workers : v # u => task'[v].held \cap task'[u].held = {}
    BY <1>1, <1>2, <2>1 DEF HandlersAccounted, p
  <2>9. \A q \in Peers : \A v \in Workers : closeHandlers'[q] \cap task'[v].held = {}
    BY <1>1, <1>2, <2>1, <2>2 DEF HandlersAccounted, p
  <2> QED
    BY <2>6, <2>7, <2>8, <2>9 DEF HandlersAccounted
<1>8. closeHandlers' \in [Peers -> SUBSET Relay]
  BY <1>2, <1>6
<1> QED
  BY <1>4, <1>5, <1>6, <1>7, <1>8, HandlerStepInv DEF TakeHandlers, libVars

(* The relays of the handlers called, and no others, end.                  *)
LEMMA CallHandlersInv == ASSUME Inv, NEW w \in Workers, CallHandlers(w) PROVE Inv'
<1> DEFINE goesOn == [task[w] EXCEPT !.at = task[w].then, !.held = {}]
<1>1. task[w] \in Task /\ task[w].peer \in Peers /\ ~task[w].marks
      /\ task[w].then \in {"idle", "lookup", "accept", "reconnect"}
  BY ActingTask DEF CallHandlers, At, Peerless, Task
<1>2. Sound(task[w])' /\ task'[w].held = {} /\ task' = [task EXCEPT ![w] = task'[w]]
  <2>1. CASE task[w].then = "idle"
    <3>1. task'[w] = Idle /\ task' = [task EXCEPT ![w] = task'[w]]
      BY <2>1, TypesOf DEF CallHandlers, Finish, Becomes
    <3> QED
      BY <3>1, IdleTask DEF Sound, Acting, Peerless
  <2>2. CASE task[w].then # "idle"
    <3>1. goesOn \in Task /\ goesOn.at = task[w].then /\ goesOn.peer = task[w].peer
          /\ goesOn.held = {} /\ ~goesOn.marks
      BY <1>1 DEF Task, Places
    <3>2. task'[w] = goesOn /\ task' = [task EXCEPT ![w] = task'[w]]
      BY <2>2, TypesOf DEF CallHandlers, Becomes
    <3> QED
      BY <1>1, <3>1, <3>2 DEF Sound, Acting
  <2> QED
    BY <2>1, <2>2
<1>3. running' = running \ task[w].held /\ closeHandlers' = closeHandlers
  BY DEF CallHandlers
<1>4. HandlersAccounted
  BY DEF Inv
<1>5. HandlersAccounted'
  <2>1. \A v \in Workers : task'[v].held = IF v = w THEN {} ELSE task[v].held
    BY <1>2, TypesOf
  <2>2. ASSUME NEW x \in running
        PROVE  (\E q \in Peers : x \in closeHandlers[q]) \/ (\E v \in Workers : x \in task[v].held)
    BY <1>4 DEF HandlersAccounted
  <2>3. ASSUME NEW x \in running'
        PROVE  (\E q \in Peers : x \in closeHandlers'[q]) \/ (\E v \in Workers : x \in task'[v].held)
    BY <1>3, <2>1, <2>2, <2>3
  <2>4. \A q \in Peers : closeHandlers'[q] \subseteq running'
    BY <1>3, <1>4, InHandIsRunning DEF HandlersAccounted
  <2>5. \A v \in Workers : task'[v].held \subseteq running'
    BY <1>3, <1>4, <2>1, InHandIsRunning DEF HandlersAccounted
  <2>6. running' = (UNION {closeHandlers'[q] : q \in Peers})
                   \cup (UNION {task'[v].held : v \in Workers})
    BY <2>3, <2>4, <2>5, UnionsCover
  <2>7. \A v, u \in Workers : v # u => task'[v].held \cap task'[u].held = {}
    BY <1>4, <2>1 DEF HandlersAccounted
  <2>8. \A q \in Peers : \A v \in Workers : closeHandlers'[q] \cap task'[v].held = {}
    BY <1>3, <1>4, <2>1 DEF HandlersAccounted
  <2> QED
    BY <1>3, <1>4, <2>6, <2>7, <2>8 DEF HandlersAccounted
<1>6. closeHandlers' \in [Peers -> SUBSET Relay]
  BY <1>3 DEF Inv, TypeOK
<1> QED
  BY <1>2, <1>3, <1>5, <1>6, HandlerStepInv DEF CallHandlers, libVars

LEMMA HandleReconnectInv == ASSUME Inv, NEW w \in Workers, HandleReconnect(w) PROVE Inv'
<1> DEFINE t == [Idle EXCEPT !.at = "create", !.role = "maker", !.peer = task[w].peer]
<1>1. task[w].peer \in Peers /\ task[w].held = {}
  BY ActingTask DEF HandleReconnect, At, Peerless
<1>2. Moves(w)
  <2>1. CASE task[w].peer \in Initiated
    <3>1. t \in Task /\ t.at = "create" /\ t.peer = task[w].peer /\ t.held = {} /\ ~t.marks
      BY <1>1 DEF Idle, Task, Places
    <3>2. task'[w] = t /\ task' = [task EXCEPT ![w] = task'[w]]
      BY <2>1, TypesOf DEF HandleReconnect, Becomes
    <3> QED
      BY <1>1, <3>1, <3>2 DEF Moves, Sound, Acting
  <2>2. CASE task[w].peer \notin Initiated
    BY <2>2, FinishMoves DEF HandleReconnect, At
  <2> QED
    BY <2>1, <2>2
<1> QED
  BY <1>2, StepInv DEF HandleReconnect, libVars

-----------------------------------------------------------------------------

LEMMA WorkInv == ASSUME Inv, NEW w \in Workers, Work(w) PROVE Inv'
BY CreateInv, AcceptInv, CannotCreateInv, ConfigureInv, SendOfferInv, OfferFailsInv,
   AbortMakerInv, ReceiveInv, PurgeInv, LookupInv, SetRemoteDescriptionInv, SendAnswerInv,
   ReceiverFailsInv, EnsureOutgoingTracksInv, AddRelayTracksInv, StartRelayInv, ForwardInv,
   SubscribeInv, RenegotiateInv, FindInv, AwaitStableInv, ListPeersInv, ServePeerInv,
   AllServedInv, CloseConnectionInv, RemoveMatchingInv, DeleteMarksInv, RemoveReceiversInv,
   TakeHandlersInv, CallHandlersInv, HandleReconnectInv
   DEF Work

LEMMA NextInv == Inv /\ [Next]_vars => Inv'
<1> SUFFICES ASSUME Inv, [Next]_vars PROVE Inv'
  OBVIOUS
<1>1. CASE \E w \in Workers : Work(w)
  BY <1>1, WorkInv
<1>2. CASE \E w \in Workers : Awake(w)
  BY <1>2, HandleNoticeInv, TimerFiresInv DEF Awake
<1>3. CASE \E w \in Workers : Environment(w)
  BY <1>3, RequestInv, OfferInv, DisconnectInv, AnswerInv, AddOBSTrackInv DEF Environment
<1>4. CASE Network
  BY <1>4, ConnectInv, LoseInv, FailInv DEF Network
<1>5. CASE UNCHANGED vars
  BY <1>5, StepInv DEF vars, libVars
<1> QED
  BY <1>1, <1>2, <1>3, <1>4, <1>5 DEF Next

(***************************************************************************)
(* The inductive invariant holds.  Beside the types it says that tables,   *)
(* callbacks and goroutines refer to connections that exist, that marks    *)
(* are written only into a map of the table, and that relays are numbered. *)
(***************************************************************************)
THEOREM InvHolds == Spec => []Inv
BY InitInv, NextInv, PTL DEF Spec

(***************************************************************************)
(* Every variable keeps its type: no step looks up a connection, a peer or *)
(* a map of marks that is not there.                                       *)
(***************************************************************************)
THEOREM TypeCorrect == Spec => []TypeOK
<1>1. Inv => TypeOK
  BY DEF Inv
<1> QED
  BY <1>1, InvHolds, PTL

(***************************************************************************)
(* The close handler of a running relay is in one place, the table or the  *)
(* hands of one clean-up; so none is lost, and none is called twice, which *)
(* would close a closed channel (cleanupResources, RegisterCloseHandler).  *)
(***************************************************************************)
THEOREM HandlersCalledOnce == Spec => []HandlersAccounted
<1>1. Inv => HandlersAccounted
  BY DEF Inv
<1> QED
  BY <1>1, InvHolds, PTL

-----------------------------------------------------------------------------
(* Who changes the table of connections.                                   *)

LEMMA WorkOnTable ==
  ASSUME NEW w \in Workers, Work(w)
  PROVE  \/ UNCHANGED peerConnections
         \/ \E c \in Conns : Create(w, c) \/ Accept(w, c)
         \/ AbortMaker(w) \/ Purge(w) \/ RemoveMatching(w)
BY DEF Work, CannotCreate, Configure, SendOffer, OfferFails, Receive, Lookup,
       SetRemoteDescription, SendAnswer, ReceiverFails, EnsureOutgoingTracks, AddRelayTracks,
       StartRelay, Forward, Subscribe, Renegotiate, Find, AwaitStable, ListPeers, ServePeer,
       AllServed, CloseConnection, DeleteMarks, RemoveReceivers, TakeHandlers, CallHandlers,
       HandleReconnect

LEMMA NextOnTable ==
  ASSUME [Next]_vars
  PROVE  UNCHANGED peerConnections \/ \E w \in Workers : Work(w)
BY DEF Next, Awake, HandleNotice, TimerFires, Environment, Request, Offer, Disconnect, Answer,
       AddOBSTrack, Network, Connect, Lose, Fail, vars

(* Who compares before removing has closed the connection that is there.   *)
LEMMA OpenStays ==
  ASSUME Inv, [Next]_vars, NEW p \in Peers,
         peerConnections[p] # None, ~IsClosed(peerConnections[p])
  PROVE  \/ peerConnections'[p] # None
         \/ \E w \in Workers : task[w].peer = p /\ task[w].at \in {"purge", "abort"}
<1>1. CASE UNCHANGED peerConnections
  BY <1>1
<1>2. CASE \E w \in Workers : Work(w)
  <2>1. PICK w \in Workers : Work(w)
    BY <1>2
  <2>2. peerConnections \in [Peers -> Conns \cup {None}]
    BY DEF Inv, TypeOK
  <2>3. CASE \E c \in Conns : Create(w, c) \/ Accept(w, c)
    BY <2>2, <2>3, NoneAssumption DEF Create, Accept
  <2>4. CASE AbortMaker(w) \/ Purge(w)
    <3>1. task[w].at \in {"purge", "abort"}
      BY <2>4 DEF AbortMaker, Purge, At
    <3>2. CASE task[w].peer = p
      BY <3>1, <3>2
    <3>3. CASE task[w].peer # p
      BY <2>2, <2>4, <3>3 DEF AbortMaker, Purge
    <3> QED
      BY <3>2, <3>3
  <2>5. CASE RemoveMatching(w)
    <3>1. CASE Matches(w) /\ task[w].peer = p
      BY <2>5, <3>1 DEF Inv, Sound, RemoveMatching, Matches, At
    <3>2. CASE ~(Matches(w) /\ task[w].peer = p)
      BY <2>2, <2>5, <3>2 DEF RemoveMatching
    <3> QED
      BY <3>1, <3>2
  <2> QED
    BY <1>1, <2>1, <2>3, <2>4, <2>5, WorkOnTable
<1> QED
  BY <1>1, <1>2, NextOnTable

(***************************************************************************)
(* A clean-up that compares before it removes (RemovePeerConnection-       *)
(* Matching) never takes an open connection out of the table, however late *)
(* it comes: it has closed the connection it looks for.                    *)
(***************************************************************************)
THEOREM SuccessorsAreKept == Spec => SuccessorIsKept
<1>1. Inv /\ [Next]_vars =>
        [\A p \in Peers :
           peerConnections[p] # None /\ ~IsClosed(peerConnections[p])
           => \/ peerConnections'[p] # None
              \/ \E w \in Workers : task[w].peer = p /\ task[w].at \in {"purge", "abort"}]_vars
  BY OpenStays
<1> QED
  BY <1>1, InvHolds, PTL DEF Spec, SuccessorIsKept

=============================================================================
