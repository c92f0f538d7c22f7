----------------------------- MODULE Negotiation -----------------------------
(***************************************************************************)
(* The two ends of a peer connection agree on it by messages: requests,    *)
(* offers, answers and candidates, which reach the callbacks of sender     *)
(* through the signaling layer (Mailbox) in any order, each in a goroutine *)
(* of its own.  The end with the greater id (Initiator) makes connections; *)
(* either may offer again on the one that it has.                          *)
(*                                                                         *)
(* A task is such a goroutine, or one that offers of itself, between two   *)
(* of its steps.  webrtc.PeerConnection is external.  What the manager and *)
(* the relays do with connections is in PeerSessions.                      *)
(***************************************************************************)
EXTENDS Mailbox, FiniteSets

CONSTANTS
  Initiator, Other,   \* the clients; clientID > senderID in the first
  MaxConns,           \* bound on the connections that an end makes
  MaxCandidates,      \* bound on the candidates that an end sends
  MaxFailures,        \* bound on the connections that fail
  MaxOffers,          \* bound on the offers made on a connection there is
  MaxRefusals,        \* bound on the messages that sending refuses
  None

ASSUME EndsAssumption ==
  /\ Clients = {Initiator, Other} /\ Initiator # Other
  /\ MaxConns \in Nat /\ MaxCandidates \in Nat
  /\ MaxFailures \in Nat /\ MaxOffers \in Nat /\ MaxRefusals \in Nat
  /\ None \notin 1..MaxConns

Conns == 1..MaxConns

VARIABLES
  conn,           \* by end: the connections it has made
  peerConnection, \* by end: the one the manager has for the other end
  pending,        \* by end: pendingCandidates of the other end
  tasks,
  added,          \* by end: candidates given to a connection, with it
  dropped,        \* by end: candidates a connection refused, with it
  asked, gathered, \* by end: its requests and candidates
  failures, offers, \* connections that have failed, offers on one there is
  refusals        \* messages that the queue has refused

endVars == <<conn, peerConnection, pending, added, dropped>>
countVars == <<asked, gathered, failures, offers, refusals>>
vars == <<mailVars, endVars, tasks, countVars>>

(* sig: SignalingState; remote: RemoteDescription is not nil; local: a     *)
(* local description has been set, so that it gathers candidates; ice: both *)
(* have been agreed on once, so that ICE has been started.                 *)
Unmade == [sig |-> "none", remote |-> FALSE, local |-> FALSE, ice |-> FALSE]
Fresh == [Unmade EXCEPT !.sig = "stable"]

Init ==
  /\ MailInit
  /\ conn = [e \in Clients |-> [c \in Conns |-> Unmade]]
  /\ peerConnection = [e \in Clients |-> None]
  /\ pending = [e \in Clients |-> {}]
  /\ tasks = {}
  /\ added = [e \in Clients |-> {}] /\ dropped = [e \in Clients |-> {}]
  /\ asked = [e \in Clients |-> 0] /\ gathered = [e \in Clients |-> 0]
  /\ failures = 0 /\ offers = 0 /\ refusals = 0

Peer(e) == IF e = Initiator THEN Other ELSE Initiator

-----------------------------------------------------------------------------
(* Messages, tasks and connections.                                        *)

(* c and n tell messages apart: the connection they are about, and which   *)
(* of its offers, answers or candidates they are.                          *)
Message(e, to, kind, c, n) == [from |-> e, to |-> to, kind |-> kind, conn |-> c, n |-> n]

Task(e, m, at, c) == [end |-> e, msg |-> m, at |-> at, conn |-> c, fresh |-> FALSE]
(* On a connection that it has made.                                       *)
TaskOnNew(e, m, at, c) == [end |-> e, msg |-> m, at |-> at, conn |-> c, fresh |-> TRUE]

At(t, place) == t \in tasks /\ t.at = place
Becomes(t, u) == tasks' = (tasks \ {t}) \cup {u}
Goto(t, place) == Becomes(t, [t EXCEPT !.at = place])
Ends(t) == tasks' = tasks \ {t}

Mine(t) == conn[t.end][t.conn]
Sig(t) == Mine(t).sig
IsClosed(e, c) == conn[e][c].sig = "closed"

SetConn(e, c, new) == conn' = [conn EXCEPT ![e][c] = new]
Closed(e, c) == [conn[e][c] EXCEPT !.sig = "closed"]

(* RemovePeerConnectionMatching.                                           *)
RemoveMatching(e, c) ==
  peerConnection' = [peerConnection EXCEPT ![e] = IF @ = c THEN None ELSE @]

(* The queue of the signaling client is full, and Send tells its caller.   *)
(* Only an offer's caller acts on it: for the others, which log it or      *)
(* nothing, the message is as one that is posted and never handled.        *)
Refused ==
  /\ refusals < MaxRefusals
  /\ refusals' = refusals + 1
  /\ UNCHANGED mailVars

Receive(e, kind, m) == m.kind = kind /\ Handle(e, m)

NextConn(e) == Cardinality({c \in Conns : conn[e][c].sig # "none"}) + 1

(* A new connection, registered at once.                                   *)
Make(e, c) ==
  /\ c \in Conns /\ c = NextConn(e)
  /\ SetConn(e, c, Fresh)
  /\ peerConnection' = [peerConnection EXCEPT ![e] = c]

-----------------------------------------------------------------------------
(* Requests.                                                               *)

(* The Request to the room when the client starts.                         *)
SendRequest(e) ==
  /\ asked[e] = 0
  /\ asked' = [asked EXCEPT ![e] = 1]
  /\ Post({Message(e, Room, "request", 0, 1)})
  /\ UNCHANGED <<endVars, tasks, offers, gathered, failures, refusals>>

(* NewConnectionCallback: the end with the greater id makes a connection   *)
(* (CreatePeerConnection), the other does nothing.                         *)
HandleRequest(e, m) ==
  /\ e = Initiator
  /\ Receive(e, "request", m)
  /\ Make(e, NextConn(e))
  /\ tasks' = tasks \cup {TaskOnNew(e, m, "offer", NextConn(e))}
  /\ UNCHANGED <<pending, added, dropped, countVars>>

SkipRequest(e, m) ==
  /\ e = Other
  /\ Receive(e, "request", m)
  /\ UNCHANGED <<endVars, tasks, countVars>>

-----------------------------------------------------------------------------
(* A connection that ICE has been started for fails, whichever the manager *)
(* has by then.  It is closed and forgotten (cleanupPeerConnection), and   *)
(* handleReconnect makes or requests another.                              *)

Fail(e, c) ==
  /\ failures < MaxFailures
  /\ conn[e][c].ice /\ ~IsClosed(e, c)
  /\ failures' = failures + 1
  /\ SetConn(e, c, Closed(e, c))
  /\ tasks' = tasks \cup {Task(e, Message(e, e, "failed", c, failures'), "forget", c)}
  /\ UNCHANGED <<mailVars, peerConnection, pending, added, dropped, asked, offers, gathered, refusals>>

Forget(t) ==
  /\ At(t, "forget")
  /\ RemoveMatching(t.end, t.conn)
  /\ Goto(t, "reconnect")
  /\ UNCHANGED <<mailVars, conn, pending, added, dropped, countVars>>

ReconnectAsInitiator(t) ==
  /\ At(t, "reconnect") /\ t.end = Initiator
  /\ Make(t.end, NextConn(t.end))
  /\ Becomes(t, TaskOnNew(t.end, t.msg, "offer", NextConn(t.end)))
  /\ UNCHANGED <<mailVars, pending, added, dropped, countVars>>

ReconnectAsReceiver(t) ==
  /\ At(t, "reconnect") /\ t.end = Other
  /\ asked' = [asked EXCEPT ![t.end] = @ + 1]
  /\ Post({Message(t.end, Peer(t.end), "request", 0, asked'[t.end])})
  /\ Ends(t)
  /\ UNCHANGED <<endVars, offers, gathered, failures, refusals>>

-----------------------------------------------------------------------------
(* Offers: CreateAndSendOffer.                                             *)

(* ForwardOBSTracksToReceiver has found the state stable.                  *)
Renegotiate(e) ==
  LET c == peerConnection[e]
  IN  /\ offers < MaxOffers
      /\ c # None /\ conn[e][c].sig = "stable"
      /\ offers' = offers + 1
      /\ tasks' = tasks \cup {Task(e, Message(e, e, "forward", c, offers'), "offer", c)}
      /\ UNCHANGED <<mailVars, endVars, asked, gathered, failures, refusals>>

(* The local description is set, which starts the gathering of candidates, *)
(* and the offer sent (messages have no order: it need not be a step of    *)
(* its own).                                                               *)
SendOffer(t) ==
  /\ At(t, "offer") /\ Sig(t) = "stable"
  /\ SetConn(t.end, t.conn, [Mine(t) EXCEPT !.sig = "have-local-offer", !.local = TRUE])
  /\ \/ /\ Post({Message(t.end, Peer(t.end), "offer", t.conn, t.msg)})
        /\ Ends(t) /\ UNCHANGED refusals
     \/ Refused /\ Goto(t, "refused")
  /\ UNCHANGED <<peerConnection, pending, added, dropped, asked, gathered, failures, offers>>

(* A state that is not stable any more, or an offer that was not sent.     *)
(* CreatePeerConnection closes its connection; an offer on one there was   *)
(* is left as it is.                                                       *)
OfferFails(t) ==
  /\ \/ At(t, "offer") /\ Sig(t) # "stable"
     \/ At(t, "refused")
  /\ IF t.fresh THEN SetConn(t.end, t.conn, Closed(t.end, t.conn)) ELSE UNCHANGED conn
  /\ Ends(t)
  /\ UNCHANGED <<mailVars, peerConnection, pending, added, dropped, countVars>>

(* OnICECandidate.                                                         *)
SendCandidate(e, c) ==
  /\ conn[e][c].local /\ ~IsClosed(e, c)
  /\ gathered[e] < MaxCandidates
  /\ gathered' = [gathered EXCEPT ![e] = @ + 1]
  /\ Post({Message(e, Peer(e), "candidate", c, gathered'[e])})
  /\ UNCHANGED <<endVars, tasks, asked, offers, failures, refusals>>

-----------------------------------------------------------------------------
(* NewOfferCallback and HandleOfferAsReceiver.                             *)

(* The connection there is, unless it is closed, is used again; an offer   *)
(* of this end is withdrawn, if the library can.                           *)
HandleOffer(e, m) ==
  LET c == peerConnection[e]
      usable == c # None /\ ~IsClosed(e, c)
  IN  /\ Receive(e, "offer", m)
      /\ peerConnection' = [peerConnection EXCEPT ![e] = IF usable THEN c ELSE None]
      /\ \/ usable /\ conn[e][c].sig = "have-local-offer"
                   /\ SetConn(e, c, [conn[e][c] EXCEPT !.sig = "stable"])
         \/ UNCHANGED conn
      /\ tasks' = tasks \cup {IF usable THEN Task(e, m, "remote", c) ELSE Task(e, m, "accept", None)}
      /\ UNCHANGED <<pending, added, dropped, countVars>>

Accept(t, c) ==
  /\ At(t, "accept")
  /\ Make(t.end, c)
  /\ Becomes(t, TaskOnNew(t.end, t.msg, "remote", c))
  /\ UNCHANGED <<mailVars, pending, added, dropped, countVars>>

SetRemoteOffer(t) ==
  /\ At(t, "remote") /\ Sig(t) = "stable"
  /\ SetConn(t.end, t.conn, [Mine(t) EXCEPT !.sig = "have-remote-offer", !.remote = TRUE])
  /\ Goto(t, "answer")
  /\ UNCHANGED <<mailVars, peerConnection, pending, added, dropped, countVars>>

(* RETRY_NEW_PC: a connection that was there already is closed, and a new  *)
(* one is made.                                                            *)
RemoteFails(t) ==
  /\ At(t, "remote") /\ Sig(t) # "stable"
  /\ SetConn(t.end, t.conn, Closed(t.end, t.conn))
  /\ RemoveMatching(t.end, t.conn)
  /\ IF t.fresh THEN Ends(t) ELSE Goto(t, "accept")
  /\ UNCHANGED <<mailVars, pending, added, dropped, countVars>>

(* CreateAnswer, SetLocalDescription and SendAnswer.                       *)
SendAnswer(t) ==
  /\ At(t, "answer") /\ Sig(t) = "have-remote-offer"
  /\ SetConn(t.end, t.conn, [Mine(t) EXCEPT !.sig = "stable", !.local = TRUE, !.ice = TRUE])
  /\ Post({Message(t.end, Peer(t.end), "answer", t.conn, t.msg)})
  /\ Ends(t)
  /\ UNCHANGED <<peerConnection, pending, added, dropped, countVars>>

AnswerFails(t) ==
  /\ At(t, "answer") /\ Sig(t) # "have-remote-offer"
  /\ SetConn(t.end, t.conn, Closed(t.end, t.conn))
  /\ IF t.fresh THEN RemoveMatching(t.end, t.conn) ELSE UNCHANGED peerConnection
  /\ Ends(t)
  /\ UNCHANGED <<mailVars, pending, added, dropped, countVars>>

-----------------------------------------------------------------------------
(* NewAnswerCallback.                                                      *)

Offering(e) ==
  peerConnection[e] # None /\ conn[e][peerConnection[e]].sig = "have-local-offer"

HandleAnswer(e, m) ==
  /\ Receive(e, "answer", m)
  /\ tasks' = IF Offering(e) THEN tasks \cup {Task(e, m, "apply", peerConnection[e])}
                             ELSE tasks
  /\ UNCHANGED <<endVars, countVars>>

ApplyAnswer(t) ==
  /\ At(t, "apply") /\ Sig(t) = "have-local-offer"
  /\ SetConn(t.end, t.conn, [Mine(t) EXCEPT !.sig = "stable", !.remote = TRUE, !.ice = TRUE])
  /\ Goto(t, "flush")
  /\ UNCHANGED <<mailVars, peerConnection, pending, added, dropped, countVars>>

(* Another goroutine has changed the state since it was looked at.         *)
ApplyFails(t) ==
  /\ At(t, "apply") /\ Sig(t) # "have-local-offer"
  /\ Ends(t)
  /\ UNCHANGED <<mailVars, endVars, countVars>>

(* AddICECandidate refuses when there is no remote description, and when   *)
(* the connection is closed.                                               *)
AddICECandidates(e, c, list) ==
  LET pairs == {[cand |-> m, conn |-> c] : m \in list}
  IN  IF conn[e][c].remote /\ ~IsClosed(e, c)
      THEN added' = [added EXCEPT ![e] = @ \cup pairs] /\ UNCHANGED dropped
      ELSE dropped' = [dropped EXCEPT ![e] = @ \cup pairs] /\ UNCHANGED added

(* The list is not emptied.                                                *)
Flush_Keeps(t) ==
  /\ At(t, "flush")
  /\ UNCHANGED pending
  /\ AddICECandidates(t.end, t.conn, pending[t.end])
  /\ Ends(t)
  /\ UNCHANGED <<mailVars, conn, peerConnection, countVars>>

(* The candidates put aside are taken and added.                           *)
Flush(t) ==
  /\ At(t, "flush")
  /\ pending' = [pending EXCEPT ![t.end] = {}]
  /\ AddICECandidates(t.end, t.conn, pending[t.end])
  /\ Ends(t)
  /\ UNCHANGED <<mailVars, conn, peerConnection, countVars>>

-----------------------------------------------------------------------------
(* NewCandidateCallback.                                                   *)

Describable(e) == peerConnection[e] # None /\ conn[e][peerConnection[e]].remote

AddCandidate(e, m) ==
  /\ Describable(e)
  /\ Receive(e, "candidate", m)
  /\ AddICECandidates(e, peerConnection[e], {m})
  /\ UNCHANGED <<conn, peerConnection, pending, tasks, countVars>>

(* It is looked first, and the candidate put aside later.                  *)
KeepCandidate(e, m) ==
  /\ ~Describable(e)
  /\ Receive(e, "candidate", m)
  /\ tasks' = tasks \cup {Task(e, m, "aside", None)}
  /\ UNCHANGED <<endVars, countVars>>

PutAside(t) ==
  /\ At(t, "aside")
  /\ pending' = [pending EXCEPT ![t.end] = @ \cup {t.msg}]
  /\ Ends(t)
  /\ UNCHANGED <<mailVars, conn, peerConnection, added, dropped, countVars>>

-----------------------------------------------------------------------------
(* OnConnectionStateChange.                                                *)

(* A connection that has been closed leaves the manager's table.           *)
CleanUp(e) ==
  /\ peerConnection[e] # None /\ IsClosed(e, peerConnection[e])
  /\ peerConnection' = [peerConnection EXCEPT ![e] = None]
  /\ UNCHANGED <<mailVars, conn, pending, added, dropped, tasks, countVars>>

-----------------------------------------------------------------------------

Steps(t) ==
  \/ SendOffer(t) \/ OfferFails(t)
  \/ Forget(t) \/ ReconnectAsInitiator(t) \/ ReconnectAsReceiver(t)
  \/ \E c \in Conns : Accept(t, c)
  \/ SetRemoteOffer(t) \/ RemoteFails(t) \/ SendAnswer(t) \/ AnswerFails(t)
  \/ ApplyAnswer(t) \/ ApplyFails(t) \/ Flush(t)
  \/ PutAside(t)

Handles(e, m) ==
  \/ HandleRequest(e, m) \/ SkipRequest(e, m)
  \/ HandleOffer(e, m) \/ HandleAnswer(e, m)
  \/ AddCandidate(e, m) \/ KeepCandidate(e, m)

Progress ==
  \/ \E t \in tasks : Steps(t)
  \/ \E e \in Clients : CleanUp(e) \/ \E m \in posted : Handles(e, m)

Next ==
  \/ Progress
  \/ \E e \in Clients :
       \/ SendRequest(e) \/ Renegotiate(e)
       \/ \E c \in Conns : Fail(e, c) \/ SendCandidate(e, c)

Spec == Init /\ [][Next]_vars

-----------------------------------------------------------------------------
(* Properties.                                                             *)

(* No goroutine runs, and every message has been handled.                  *)
Quiet == tasks = {} /\ \A e \in Clients : \A m \in posted : IsFor(m, e) => m \in handled[e]

(***************************************************************************)
(* Once everything has arrived, each end's connection has the other's      *)
(* description: none waits for an answer that will never come.             *)
(***************************************************************************)
NothingHalfOpen ==
  Quiet => \A e \in Clients : \/ peerConnection[e] = None
                               \/ IsClosed(e, peerConnection[e])
                               \/ conn[e][peerConnection[e]].remote

Waiting(e) == pending[e] \cup {t.msg : t \in {u \in tasks : u.end = e /\ u.at = "aside"}}
Given(e) == added[e] \cup dropped[e]

(***************************************************************************)
(* A candidate that has come is in one place, however the goroutines of    *)
(* candidates, answers and failures overtake each other: it is put aside,  *)
(* or it has been given to one connection, once.                           *)
(***************************************************************************)
CandidatesOnce ==
  \A e \in Clients :
    /\ \A x \in Given(e), y \in Given(e) : x.cand = y.cand => x = y
    /\ \A x \in Given(e) : x.cand \notin Waiting(e)
    /\ \A m \in handled[e] :
         m.kind = "candidate" => m \in Waiting(e) \/ \E x \in Given(e) : x.cand = m
=============================================================================
