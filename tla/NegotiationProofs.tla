--------------------------- MODULE NegotiationProofs ---------------------------
(***************************************************************************)
(* Theorems about Negotiation, for any numbers of connections, candidates, *)
(* failures and offers: what becomes of candidates.                        *)
(***************************************************************************)
EXTENDS Negotiation, TLAPS, FiniteSetTheorems

ConnRec ==
  [sig : {"none", "stable", "have-local-offer", "have-remote-offer", "closed"},
   remote : BOOLEAN, local : BOOLEAN, ice : BOOLEAN]

Made(e) == {c \in Conns : conn[e][c].sig # "none"}

(* Connections are made in order, so that the next one is a new one; ICE   *)
(* is started only for one that has been made.                             *)
ConnsOK ==
  /\ conn \in [Clients -> [Conns -> ConnRec]]
  /\ \A e \in Clients, c \in Conns : conn[e][c].ice => conn[e][c].sig # "none"
  /\ \A e \in Clients : \E k \in Nat : Made(e) = 1..k

PeersOK ==
  /\ peerConnection \in [Clients -> Conns \cup {None}]
  /\ \A e \in Clients : peerConnection[e] # None => peerConnection[e] \in Made(e)

IsTask(t) ==
  t = [end |-> t.end, msg |-> t.msg, at |-> t.at, conn |-> t.conn, fresh |-> t.fresh]

OnConn == {"offer", "refused", "forget", "remote", "answer", "apply", "flush"}

(* A task works on a connection that has been made; one that puts a        *)
(* candidate aside is the only one with it.                                *)
TasksOK ==
  \A t \in tasks :
    /\ t.end \in Clients /\ IsTask(t)
    /\ t.at \in OnConn => t.conn \in Made(t.end)
    /\ t.at = "aside" => /\ t = Task(t.end, t.msg, "aside", None)
                         /\ t.msg \in handled[t.end] \ pending[t.end]

CandidatesTyped ==
  /\ handled \in [Clients -> SUBSET posted]
  /\ pending \in [Clients -> SUBSET posted]
  /\ added \in [Clients -> SUBSET [cand : posted, conn : Conns]]
  /\ dropped \in [Clients -> SUBSET [cand : posted, conn : Conns]]

(* What waits or has been given has been handled.                          *)
CandidatesHandled ==
  \A e \in Clients :
    /\ pending[e] \subseteq handled[e]
    /\ \A x \in Given(e) : x.cand \in handled[e]

NegotiationInv ==
  /\ ConnsOK /\ PeersOK /\ TasksOK
  /\ CandidatesTyped /\ CandidatesHandled
  /\ CandidatesOnce

LEMMA NegotiationInit == Init => NegotiationInv
<1> SUFFICES ASSUME Init PROVE NegotiationInv
  OBVIOUS
<1>1. \A e \in Clients, c \in Conns : conn[e][c] = Unmade /\ Unmade \in ConnRec
  BY DEF Init, Unmade, ConnRec
<1>2. ConnsOK
  <2>1. \A e \in Clients : Made(e) = 1..0
    <3>1. Unmade.sig = "none"
      BY DEF Unmade
    <3>2. \A e \in Clients, c \in Conns : conn[e][c].sig = "none"
      BY <1>1, <3>1
    <3>3. \A e \in Clients : Made(e) = {}
      BY <3>2 DEF Made
    <3>4. 1..0 = {}
      OBVIOUS
    <3> QED BY <3>3, <3>4
  <2>2. conn \in [Clients -> [Conns -> ConnRec]]
    BY <1>1 DEF Init
  <2>3. \A e \in Clients, c \in Conns : ~conn[e][c].ice
    BY <1>1 DEF Unmade
  <2> QED BY <2>1, <2>2, <2>3 DEF ConnsOK
<1>3. PeersOK /\ TasksOK /\ CandidatesTyped
  BY DEF Init, MailInit, PeersOK, TasksOK, CandidatesTyped
<1>4. CandidatesHandled /\ CandidatesOnce
  BY DEF Init, MailInit, CandidatesHandled, CandidatesOnce, Given
<1> QED BY <1>2, <1>3, <1>4 DEF NegotiationInv

(* A connection that has been made stays one.                              *)
Grown ==
  \A e \in Clients, c \in Conns : conn[e][c].sig # "none" => conn'[e][c].sig # "none"

LEMMA Untouched == ConnsOK /\ UNCHANGED conn => ConnsOK' /\ Grown
  BY DEF ConnsOK, Grown, Made

LEMMA SettingGrows ==
  ASSUME ConnsOK, NEW e \in Clients, NEW c \in Made(e), NEW new \in ConnRec, SetConn(e, c, new),
         new.sig # "none"
  PROVE  ConnsOK' /\ Grown
<1>1. /\ c \in Conns /\ conn[e][c].sig # "none"
      /\ conn' \in [Clients -> [Conns -> ConnRec]]
      /\ conn'[e][c] = new
      /\ \A d \in Clients, x \in Conns : ~(d = e /\ x = c) => conn'[d][x] = conn[d][x]
  BY DEF SetConn, ConnsOK, Made
<1>2. \A d \in Clients, x \in Conns : conn'[d][x].sig # "none" <=> conn[d][x].sig # "none"
  BY <1>1
<1>3. \A d \in Clients : Made(d)' = Made(d)
  BY <1>2 DEF Made
<1>4. ConnsOK'
  BY <1>1, <1>3 DEF ConnsOK
<1>5. Grown
  BY <1>1 DEF Grown
<1> QED BY <1>1, <1>4, <1>5

(* A connection that is made was not there, and is the next.               *)
LEMMA MakingGrows ==
  ASSUME ConnsOK, PeersOK, NEW e \in Clients, NEW c, Make(e, c)
  PROVE  ConnsOK' /\ Grown /\ PeersOK' /\ c \in Made(e)'
<1>1. PICK k \in Nat : Made(e) = 1..k
  BY DEF ConnsOK
<1>2. Cardinality(1..k) = k
  BY FS_Interval
<1>3. c = k + 1 /\ c \in Conns /\ c \notin Made(e)
  <2>1. NextConn(e) = Cardinality(Made(e)) + 1
    BY DEF NextConn, Made
  <2>2. c = k + 1 /\ c \in Conns
    BY <1>1, <1>2, <2>1 DEF Make
  <2> QED BY <1>1, <2>2
<1>4. /\ conn' \in [Clients -> [Conns -> ConnRec]]
      /\ conn'[e][c] = Fresh /\ Fresh.sig = "stable"
      /\ \A d \in Clients, x \in Conns : ~(d = e /\ x = c) => conn'[d][x] = conn[d][x]
  <2>1. Fresh \in ConnRec /\ Fresh.sig = "stable"
    BY DEF Fresh, Unmade, ConnRec
  <2> QED BY <1>3, <2>1 DEF Make, SetConn, ConnsOK
<1>5. Made(e)' = Made(e) \cup {c} /\ \A d \in Clients \ {e} : Made(d)' = Made(d)
  BY <1>3, <1>4 DEF Made
<1>6. Made(e)' = 1..(k + 1)
  BY <1>1, <1>3, <1>5
<1>7. ConnsOK'
  BY <1>4, <1>5, <1>6 DEF ConnsOK
<1>8. Grown
  BY <1>3, <1>4 DEF Grown, Made
<1>9. PeersOK'
  BY <1>3, <1>5 DEF PeersOK, Make
<1> QED BY <1>5, <1>7, <1>8, <1>9

LEMMA MadeStays ==
  ASSUME Grown, NEW e \in Clients
  PROVE  Made(e) \subseteq Made(e)'
  BY DEF Grown, Made

(* A task that is about a connection and not about a candidate.            *)
Sound(t) ==
  /\ t.end \in Clients /\ IsTask(t)
  /\ t.at # "aside"
  /\ t.at \in OnConn => t.conn \in Made(t.end)

(* What a step handles is not a candidate.                                 *)
NoCandidateHandled ==
  \A e \in Clients : \A m \in handled'[e] \ handled[e] : m.kind # "candidate"

(* A step that leaves candidates alone keeps the invariant.                *)
LEMMA CandidatesLeftAlone ==
  ASSUME NegotiationInv, ConnsOK', Grown, PeersOK',
         posted \subseteq posted', handled' \in [Clients -> SUBSET posted'],
         \A e \in Clients : handled[e] \subseteq handled'[e],
         NoCandidateHandled,
         UNCHANGED <<pending, added, dropped>>,
         \A t \in tasks' : t \in tasks \/ Sound(t)',
         \A t \in tasks \ tasks' : t.at # "aside"
  PROVE  NegotiationInv'
<1> USE DEF NegotiationInv
<1>1. TasksOK'
  <2> SUFFICES ASSUME NEW t \in tasks'
               PROVE  /\ t.end \in Clients /\ IsTask(t)
                      /\ t.at \in OnConn => t.conn \in Made(t.end)'
                      /\ t.at = "aside" => /\ t = Task(t.end, t.msg, "aside", None)
                                           /\ t.msg \in handled'[t.end] \ pending[t.end]
    BY DEF TasksOK
  <2>1. CASE t \in tasks
    <3>1. t.end \in Clients /\ IsTask(t) /\ (t.at \in OnConn => t.conn \in Made(t.end))
      BY <2>1 DEF TasksOK
    <3>2. t.at \in OnConn => t.conn \in Made(t.end)'
      BY <3>1, MadeStays
    <3> QED BY <2>1, <3>1, <3>2 DEF TasksOK
  <2>2. CASE Sound(t)'
    BY <2>2 DEF Sound
  <2> QED BY <2>1, <2>2
<1>2. CandidatesTyped'
  BY DEF CandidatesTyped
<1>3. \A e \in Clients : Given(e)' = Given(e) /\ Waiting(e)' = Waiting(e)
  <2>1. \A t : t.at = "aside" => (t \in tasks' <=> t \in tasks)
    BY DEF Sound
  <2> QED BY <2>1 DEF Given, Waiting
<1>4. CandidatesHandled'
  BY <1>3 DEF CandidatesHandled
<1>5. CandidatesOnce'
  BY <1>3 DEF CandidatesOnce, NoCandidateHandled
<1> QED BY <1>1, <1>2, <1>4, <1>5

LEMMA PostingMail ==
  ASSUME CandidatesTyped, NEW ms, Post(ms)
  PROVE  /\ posted \subseteq posted' /\ handled' \in [Clients -> SUBSET posted']
         /\ \A e \in Clients : handled[e] \subseteq handled'[e]
         /\ NoCandidateHandled
  BY DEF Post, CandidatesTyped, NoCandidateHandled

LEMMA HandlingMail ==
  ASSUME CandidatesTyped, NEW e \in Clients, NEW m, Handle(e, m)
  PROVE  /\ posted' = posted /\ handled' \in [Clients -> SUBSET posted']
         /\ \A d \in Clients : handled[d] \subseteq handled'[d]
         /\ m \in posted /\ m \notin handled[e] /\ m \in handled'[e]
         /\ \A d \in Clients : handled'[d] \ handled[d] \subseteq (IF d = e THEN {m} ELSE {})
         /\ m.kind # "candidate" => NoCandidateHandled
<1>1. m \in posted \ handled[e] /\ posted' = posted /\ handled' = [handled EXCEPT ![e] = @ \cup {m}]
  BY DEF Handle
<1>2. \A d \in Clients : handled'[d] = handled[d] \cup (IF d = e THEN {m} ELSE {})
  BY <1>1 DEF CandidatesTyped
<1> QED BY <1>1, <1>2 DEF CandidatesTyped, NoCandidateHandled

LEMMA MailRests ==
  ASSUME CandidatesTyped, UNCHANGED mailVars
  PROVE  /\ posted \subseteq posted' /\ handled' \in [Clients -> SUBSET posted']
         /\ \A e \in Clients : handled[e] \subseteq handled'[e]
         /\ NoCandidateHandled
  BY DEF mailVars, CandidatesTyped, NoCandidateHandled

LEMMA TaskFields ==
  ASSUME NEW e, NEW m, NEW at, NEW c
  PROVE  /\ IsTask(Task(e, m, at, c))
         /\ Task(e, m, at, c).end = e /\ Task(e, m, at, c).msg = m
         /\ Task(e, m, at, c).at = at /\ Task(e, m, at, c).conn = c
         /\ IsTask(TaskOnNew(e, m, at, c))
         /\ TaskOnNew(e, m, at, c).end = e
         /\ TaskOnNew(e, m, at, c).at = at /\ TaskOnNew(e, m, at, c).conn = c
  BY DEF Task, TaskOnNew, IsTask

LEMMA GotoFields ==
  ASSUME NEW t, IsTask(t), NEW place
  PROVE  LET u == [t EXCEPT !.at = place]
         IN  IsTask(u) /\ u.end = t.end /\ u.msg = t.msg /\ u.at = place /\ u.conn = t.conn
  BY DEF IsTask

(* Steps that change no connection.                                        *)
LEMMA RestingKeeps ==
  ASSUME NegotiationInv, NEW e \in Clients,
         \/ SendRequest(e) \/ Renegotiate(e) \/ CleanUp(e)
         \/ \E m \in posted : SkipRequest(e, m) \/ HandleAnswer(e, m)
         \/ \E c \in Conns : SendCandidate(e, c)
         \/ \E t \in tasks : ReconnectAsReceiver(t) \/ ApplyFails(t)
  PROVE  NegotiationInv'
<1> USE DEF NegotiationInv
<1>1. UNCHANGED <<conn, pending, added, dropped>>
  BY DEF SendRequest, Renegotiate, CleanUp, SkipRequest, HandleAnswer, SendCandidate,
     ReconnectAsReceiver, ApplyFails, endVars
<1>2. ConnsOK' /\ Grown
  BY <1>1, Untouched
<1>3. PeersOK'
  BY <1>1 DEF PeersOK, Made, SendRequest, Renegotiate, CleanUp, SkipRequest, HandleAnswer, SendCandidate,
     ReconnectAsReceiver, ApplyFails, endVars
<1>4. /\ posted \subseteq posted' /\ handled' \in [Clients -> SUBSET posted']
      /\ \A d \in Clients : handled[d] \subseteq handled'[d]
      /\ NoCandidateHandled
  BY PostingMail, HandlingMail, MailRests
  DEF SendRequest, Renegotiate, CleanUp, SkipRequest, HandleAnswer, SendCandidate, ReconnectAsReceiver,
      ApplyFails, Receive
<1>5. \A t \in tasks' : t \in tasks \/ Sound(t)'
  <2>1. CASE Renegotiate(e)
    <3>1. PICK m : /\ tasks' = tasks \cup {Task(e, m, "offer", peerConnection[e])}
                   /\ peerConnection[e] # None
      BY <2>1 DEF Renegotiate
    <3>2. peerConnection[e] \in Made(e)'
      BY <1>1, <3>1 DEF PeersOK, Made
    <3> QED BY <3>1, <3>2, TaskFields DEF Sound
  <2>2. ASSUME NEW m \in posted, HandleAnswer(e, m) PROVE \A t \in tasks' : t \in tasks \/ Sound(t)'
    <3>1. \/ tasks' = tasks
          \/ peerConnection[e] # None /\ tasks' = tasks \cup {Task(e, m, "apply", peerConnection[e])}
      BY <2>2 DEF HandleAnswer, Offering
    <3>2. peerConnection[e] # None => peerConnection[e] \in Made(e)'
      BY <1>1 DEF PeersOK, Made
    <3> QED BY <3>1, <3>2, TaskFields DEF Sound
  <2>3. ASSUME ~Renegotiate(e), ~\E m \in posted : HandleAnswer(e, m) PROVE tasks' \subseteq tasks
    BY <2>3 DEF SendRequest, CleanUp, SkipRequest, SendCandidate, ReconnectAsReceiver, ApplyFails, Ends
  <2> QED BY <2>1, <2>2, <2>3
<1>6. \A u \in tasks \ tasks' : u.at # "aside"
  BY DEF SendRequest, Renegotiate, CleanUp, SkipRequest, HandleAnswer, SendCandidate, ReconnectAsReceiver,
     ApplyFails, Ends, At, endVars
<1> QED BY <1>1, <1>2, <1>3, <1>4, <1>5, <1>6, CandidatesLeftAlone

(* Steps that make a connection.                                           *)
LEMMA MakingKeeps ==
  ASSUME NegotiationInv,
         \/ \E e \in Clients, m \in posted : HandleRequest(e, m)
         \/ \E t \in tasks : ReconnectAsInitiator(t) \/ \E c \in Conns : Accept(t, c)
  PROVE  NegotiationInv'
<1> USE DEF NegotiationInv
<1>1. UNCHANGED <<pending, added, dropped>>
  BY DEF HandleRequest, ReconnectAsInitiator, Accept
<1>2. /\ posted \subseteq posted' /\ handled' \in [Clients -> SUBSET posted']
      /\ \A d \in Clients : handled[d] \subseteq handled'[d]
      /\ NoCandidateHandled
  BY HandlingMail, MailRests DEF HandleRequest, ReconnectAsInitiator, Accept, Receive
<1>3. PICK e, c, u :
        /\ e \in Clients
        /\ Make(e, c)
        /\ IsTask(u) /\ u.end = e /\ u.at \in {"offer", "remote"} /\ u.conn = c
        /\ tasks' \subseteq tasks \cup {u}
        /\ \A t \in tasks \ tasks' : t.at # "aside"
  <2>1. ASSUME NEW e \in Clients, NEW m \in posted, HandleRequest(e, m)
        PROVE  \E d, c, u :
                 /\ d \in Clients
                 /\ Make(d, c)
                 /\ IsTask(u) /\ u.end = d /\ u.at \in {"offer", "remote"} /\ u.conn = c
                 /\ tasks' \subseteq tasks \cup {u}
                 /\ \A t \in tasks \ tasks' : t.at # "aside"
    <3> DEFINE u == TaskOnNew(e, m, "offer", NextConn(e))
    <3>1. IsTask(u) /\ u.end = e /\ u.at = "offer" /\ u.conn = NextConn(e)
      BY TaskFields
    <3>2. Make(e, NextConn(e)) /\ tasks' = tasks \cup {u}
      BY <2>1 DEF HandleRequest
    <3> HIDE DEF u
    <3> QED BY <3>1, <3>2
  <2>2. ASSUME NEW t \in tasks, NEW place \in {"offer", "remote"}, NEW c, Make(t.end, c),
               Becomes(t, TaskOnNew(t.end, t.msg, place, c)), t.at # "aside"
        PROVE  \E d, x, u :
                 /\ d \in Clients
                 /\ Make(d, x)
                 /\ IsTask(u) /\ u.end = d /\ u.at \in {"offer", "remote"} /\ u.conn = x
                 /\ tasks' \subseteq tasks \cup {u}
                 /\ \A w \in tasks \ tasks' : w.at # "aside"
    <3> DEFINE u == TaskOnNew(t.end, t.msg, place, c)
    <3>1. t.end \in Clients /\ IsTask(u) /\ u.end = t.end /\ u.at = place /\ u.conn = c
      BY TaskFields DEF TasksOK
    <3>2. tasks' \subseteq tasks \cup {u} /\ \A x \in tasks \ tasks' : x.at # "aside"
      BY <2>2 DEF Becomes
    <3> HIDE DEF u
    <3> QED BY <2>2, <3>1, <3>2
  <2> QED BY <2>1, <2>2 DEF ReconnectAsInitiator, Accept, At
<1>4. ConnsOK' /\ Grown /\ PeersOK' /\ c \in Made(e)'
  BY <1>3, MakingGrows
<1>5. Sound(u)'
  BY <1>3, <1>4 DEF Sound
<1> QED BY <1>1, <1>2, <1>3, <1>4, <1>5, CandidatesLeftAlone

(* The entry of a peer stays or goes.                                      *)
LEMMA PeersKept ==
  ASSUME PeersOK, Grown, peerConnection' \in [Clients -> Conns \cup {None}],
         \A e \in Clients : peerConnection'[e] \in {peerConnection[e], None}
  PROVE  PeersOK'
  BY MadeStays DEF PeersOK

(* Steps of a task that change what its connection is.                     *)
LEMMA WorkingKeeps ==
  ASSUME NegotiationInv, NEW t \in tasks,
         \/ SendOffer(t) \/ OfferFails(t) \/ Forget(t) \/ SetRemoteOffer(t) \/ RemoteFails(t)
         \/ SendAnswer(t) \/ AnswerFails(t) \/ ApplyAnswer(t)
  PROVE  NegotiationInv'
<1> USE DEF NegotiationInv
<1>1. UNCHANGED <<pending, added, dropped>> /\ t.at # "aside"
  BY DEF SendOffer, OfferFails, Forget, SetRemoteOffer, RemoteFails, SendAnswer, AnswerFails, ApplyAnswer, At
<1>2. /\ posted \subseteq posted' /\ handled' \in [Clients -> SUBSET posted']
      /\ \A d \in Clients : handled[d] \subseteq handled'[d]
      /\ NoCandidateHandled
  BY PostingMail, MailRests
  DEF SendOffer, Refused, OfferFails, Forget, SetRemoteOffer, RemoteFails, SendAnswer, AnswerFails, ApplyAnswer
<1>3. t.end \in Clients /\ IsTask(t) /\ t.conn \in Made(t.end) /\ t.conn \in Conns
  BY DEF SendOffer, OfferFails, Forget, SetRemoteOffer, RemoteFails, SendAnswer, AnswerFails, ApplyAnswer,
     TasksOK, OnConn, At, Made
<1>4. PICK r \in ConnRec : r = Mine(t)
  BY <1>3 DEF ConnsOK, Mine
<1>5. \/ UNCHANGED conn
      \/ \E new \in ConnRec : SetConn(t.end, t.conn, new) /\ new.sig # "none"
  <2>1. CASE SendOffer(t)
    <3> DEFINE new == [r EXCEPT !.sig = "have-local-offer", !.local = TRUE]
    <3>1. new \in ConnRec /\ new.sig = "have-local-offer"
      BY DEF ConnRec
    <3>2. SetConn(t.end, t.conn, new)
      BY <1>4, <2>1 DEF SendOffer
    <3> HIDE DEF new
    <3> QED BY <3>1, <3>2
  <2>2. CASE OfferFails(t) \/ RemoteFails(t) \/ AnswerFails(t)
    <3> DEFINE new == [r EXCEPT !.sig = "closed"]
    <3>1. new \in ConnRec /\ new.sig = "closed"
      BY DEF ConnRec
    <3>2. SetConn(t.end, t.conn, new) \/ UNCHANGED conn
      BY <1>4, <2>2 DEF OfferFails, RemoteFails, AnswerFails, Closed, Mine
    <3> HIDE DEF new
    <3> QED BY <3>1, <3>2
  <2>3. CASE SetRemoteOffer(t)
    <3> DEFINE new == [r EXCEPT !.sig = "have-remote-offer", !.remote = TRUE]
    <3>1. new \in ConnRec /\ new.sig = "have-remote-offer"
      BY DEF ConnRec
    <3>2. SetConn(t.end, t.conn, new)
      BY <1>4, <2>3 DEF SetRemoteOffer
    <3> HIDE DEF new
    <3> QED BY <3>1, <3>2
  <2>4. CASE SendAnswer(t)
    <3> DEFINE new == [r EXCEPT !.sig = "stable", !.local = TRUE, !.ice = TRUE]
    <3>1. new \in ConnRec /\ new.sig = "stable"
      BY DEF ConnRec
    <3>2. SetConn(t.end, t.conn, new)
      BY <1>4, <2>4 DEF SendAnswer
    <3> HIDE DEF new
    <3> QED BY <3>1, <3>2
  <2>5. CASE ApplyAnswer(t)
    <3> DEFINE new == [r EXCEPT !.sig = "stable", !.remote = TRUE, !.ice = TRUE]
    <3>1. new \in ConnRec /\ new.sig = "stable"
      BY DEF ConnRec
    <3>2. SetConn(t.end, t.conn, new)
      BY <1>4, <2>5 DEF ApplyAnswer
    <3> HIDE DEF new
    <3> QED BY <3>1, <3>2
  <2>6. CASE Forget(t)
    BY <2>6 DEF Forget
  <2> QED BY <2>1, <2>2, <2>3, <2>4, <2>5, <2>6
<1>6. ConnsOK' /\ Grown
  BY <1>3, <1>5, Untouched, SettingGrows
<1>7. PeersOK'
  <2>1. \/ UNCHANGED peerConnection
        \/ peerConnection' = [peerConnection EXCEPT ![t.end] = IF @ = t.conn THEN None ELSE @]
    BY DEF SendOffer, OfferFails, Forget, SetRemoteOffer, RemoteFails, SendAnswer, AnswerFails, ApplyAnswer,
       RemoveMatching
  <2> QED BY <1>6, <2>1, PeersKept DEF PeersOK
<1>8. /\ \A u \in tasks' : u \in tasks \/ Sound(u)'
      /\ \A u \in tasks \ tasks' : u.at # "aside"
  <2>1. t.conn \in Made(t.end)'
    BY <1>3, <1>6, MadeStays
  <2>2. ASSUME NEW place \in {"refused", "reconnect", "answer", "accept", "flush"}, Goto(t, place)
        PROVE  /\ \A u \in tasks' : u \in tasks \/ Sound(u)'
               /\ \A u \in tasks \ tasks' : u.at # "aside"
    <3> DEFINE v == [t EXCEPT !.at = place]
    <3>1. IsTask(v) /\ v.end = t.end /\ v.at = place /\ v.conn = t.conn
      BY <1>3, GotoFields
    <3>2. tasks' \subseteq tasks \cup {v} /\ tasks \ tasks' \subseteq {t}
      BY <2>2 DEF Goto, Becomes
    <3> HIDE DEF v
    <3> QED BY <1>1, <1>3, <2>1, <2>2, <3>1, <3>2 DEF Sound
  <2>3. \/ tasks' = tasks \ {t}
        \/ \E place \in {"refused", "reconnect", "answer", "accept", "flush"} : Goto(t, place)
    BY DEF SendOffer, OfferFails, Forget, SetRemoteOffer, RemoteFails, SendAnswer, AnswerFails, ApplyAnswer, Ends
  <2> QED BY <1>1, <2>2, <2>3
<1> QED BY <1>1, <1>2, <1>6, <1>7, <1>8, CandidatesLeftAlone

LEMMA FailingKeeps ==
  ASSUME NegotiationInv, NEW e \in Clients, NEW c \in Conns, Fail(e, c)
  PROVE  NegotiationInv'
<1> USE DEF NegotiationInv
<1>1. UNCHANGED <<mailVars, peerConnection, pending, added, dropped>> /\ SetConn(e, c, Closed(e, c))
  BY DEF Fail
<1>2. c \in Made(e)
  BY DEF Fail, Made, ConnsOK
<1>3. Closed(e, c) \in ConnRec /\ Closed(e, c).sig = "closed"
  <2>1. PICK r \in ConnRec : r = conn[e][c]
    BY <1>1 DEF ConnsOK
  <2>2. LET new == [r EXCEPT !.sig = "closed"] IN new \in ConnRec /\ new.sig = "closed"
    BY DEF ConnRec
  <2> QED BY <2>1, <2>2 DEF Closed
<1>4. PICK m : tasks' = tasks \cup {Task(e, m, "forget", c)}
  BY DEF Fail
<1>5. ConnsOK' /\ Grown
  BY <1>1, <1>2, <1>3, SettingGrows
<1>6. PeersOK'
  BY <1>1, <1>5, PeersKept DEF PeersOK
<1>7. Sound(Task(e, m, "forget", c))'
  BY <1>2, <1>5, MadeStays, TaskFields DEF Sound, OnConn
<1> QED BY <1>1, <1>4, <1>5, <1>6, <1>7, MailRests, CandidatesLeftAlone

LEMMA OfferedKeeps ==
  ASSUME NegotiationInv, NEW e \in Clients, NEW m \in posted, HandleOffer(e, m)
  PROVE  NegotiationInv'
<1> USE DEF NegotiationInv
<1> DEFINE c == peerConnection[e]
           usable == c # None /\ ~IsClosed(e, c)
           u == IF usable THEN Task(e, m, "remote", c) ELSE Task(e, m, "accept", None)
<1>1. /\ UNCHANGED <<pending, added, dropped>>
      /\ peerConnection' = [peerConnection EXCEPT ![e] = IF usable THEN c ELSE None]
      /\ Handle(e, m) /\ m.kind # "candidate"
      /\ tasks' = tasks \cup {u}
      /\ \/ usable /\ conn[e][c].sig = "have-local-offer"
                   /\ SetConn(e, c, [conn[e][c] EXCEPT !.sig = "stable"])
         \/ UNCHANGED conn
  BY DEF HandleOffer, Receive
<1>2. usable => c \in Made(e) /\ c \in Conns
  BY DEF PeersOK, Made
<1>3. usable => LET new == [conn[e][c] EXCEPT !.sig = "stable"]
                IN  new \in ConnRec /\ new.sig = "stable"
  <2> SUFFICES ASSUME usable
               PROVE  LET new == [conn[e][c] EXCEPT !.sig = "stable"]
                      IN  new \in ConnRec /\ new.sig = "stable"
    OBVIOUS
  <2>1. PICK r \in ConnRec : r = conn[e][c]
    BY <1>2 DEF ConnsOK
  <2>2. LET new == [r EXCEPT !.sig = "stable"]
        IN  new \in ConnRec /\ new.sig = "stable"
    BY DEF ConnRec
  <2> QED BY <2>1, <2>2
<1>4. ConnsOK' /\ Grown
  BY <1>1, <1>2, <1>3, SettingGrows, Untouched
<1>5. PeersOK'
  BY <1>1, <1>4, PeersKept DEF PeersOK
<1>6. PICK v : v = u
  OBVIOUS
<1>7. Sound(v)'
  <2>1. /\ v.end = e /\ IsTask(v)
        /\ v.at \in {"remote", "accept"} /\ (v.at = "remote" => usable /\ v.conn = c)
    BY <1>6, TaskFields
  <2>2. v.at = "remote" => v.conn \in Made(e)'
    BY <1>2, <1>4, <2>1, MadeStays
  <2> QED BY <2>1, <2>2 DEF Sound, OnConn
<1>8. tasks' = tasks \cup {v}
  BY <1>1, <1>6
<1> HIDE DEF u
<1> QED BY <1>1, <1>4, <1>5, <1>7, <1>8, HandlingMail, CandidatesLeftAlone

-----------------------------------------------------------------------------
(* The steps that move candidates.                                         *)

(* A candidate that is handled is a new one.                               *)
LEMMA KeepingKeeps ==
  ASSUME NegotiationInv, NEW e \in Clients, NEW m \in posted, KeepCandidate(e, m)
  PROVE  NegotiationInv'
<1> USE DEF NegotiationInv
<1> DEFINE u == Task(e, m, "aside", None)
<1>1. /\ UNCHANGED <<conn, peerConnection, pending, added, dropped>>
      /\ Handle(e, m) /\ tasks' = tasks \cup {u}
  BY DEF KeepCandidate, Receive, endVars
<1>2. /\ posted' = posted /\ handled' \in [Clients -> SUBSET posted']
      /\ \A d \in Clients : handled[d] \subseteq handled'[d]
      /\ m \notin handled[e] /\ m \in handled'[e]
      /\ \A d \in Clients : handled'[d] \ handled[d] \subseteq (IF d = e THEN {m} ELSE {})
  BY <1>1, HandlingMail
<1>3. ConnsOK' /\ PeersOK'
  BY <1>1 DEF ConnsOK, PeersOK, Made
<1>4. u.end = e /\ u.msg = m /\ u.at = "aside" /\ IsTask(u)
  BY TaskFields
<1>5. m \notin pending[e]
  BY <1>2 DEF CandidatesHandled
<1>6. TasksOK'
  <2> SUFFICES ASSUME NEW t \in tasks'
               PROVE  /\ t.end \in Clients /\ IsTask(t)
                      /\ t.at \in OnConn => t.conn \in Made(t.end)
                      /\ t.at = "aside" => /\ t = Task(t.end, t.msg, "aside", None)
                                           /\ t.msg \in handled'[t.end] \ pending[t.end]
    BY <1>1 DEF TasksOK, Made
  <2>1. CASE t \in tasks
    BY <1>2, <2>1 DEF TasksOK
  <2>2. CASE t = u
    BY <1>2, <1>4, <1>5, <2>2 DEF OnConn
  <2> QED BY <1>1, <2>1, <2>2
<1>7. CandidatesTyped'
  BY <1>1, <1>2 DEF CandidatesTyped
<1>8. \A d \in Clients : Given(d)' = Given(d) /\ Waiting(d)' = Waiting(d) \cup (IF d = e THEN {m} ELSE {})
  BY <1>1, <1>4 DEF Given, Waiting
<1>9. CandidatesHandled'
  BY <1>1, <1>2, <1>8 DEF CandidatesHandled
<1>10. CandidatesOnce'
  <2> SUFFICES ASSUME NEW d \in Clients
               PROVE  /\ \A x \in Given(d), y \in Given(d) : x.cand = y.cand => x = y
                      /\ \A x \in Given(d) : x.cand \notin Waiting(d)'
                      /\ \A k \in handled'[d] : k.kind = "candidate" =>
                           k \in Waiting(d)' \/ \E x \in Given(d) : x.cand = k
    BY <1>8 DEF CandidatesOnce
  <2>1. \A x \in Given(d) : x.cand \notin Waiting(d) /\ x.cand \in handled[d]
    BY DEF CandidatesOnce, CandidatesHandled
  <2>2. \A k \in handled'[d] : k \in handled[d] \/ k \in Waiting(d)'
    BY <1>2, <1>8
  <2>3. \A k \in handled[d] : k.kind = "candidate" => k \in Waiting(d)' \/ \E x \in Given(d) : x.cand = k
    BY <1>8 DEF CandidatesOnce
  <2> QED BY <1>2, <1>8, <2>1, <2>2, <2>3 DEF CandidatesOnce
<1> QED BY <1>3, <1>6, <1>7, <1>9, <1>10

LEMMA AsideKeeps ==
  ASSUME NegotiationInv, NEW t \in tasks, PutAside(t)
  PROVE  NegotiationInv'
<1> USE DEF NegotiationInv
<1>1. /\ UNCHANGED <<mailVars, conn, peerConnection, added, dropped>>
      /\ pending' = [pending EXCEPT ![t.end] = @ \cup {t.msg}]
      /\ tasks' = tasks \ {t} /\ t.at = "aside"
  BY DEF PutAside, At, Ends
<1>2. UNCHANGED <<posted, handled>>
  BY <1>1 DEF mailVars
<1>3. /\ t.end \in Clients /\ t = Task(t.end, t.msg, "aside", None)
      /\ t.msg \in handled[t.end] /\ t.msg \in posted
  BY <1>1 DEF TasksOK, CandidatesTyped
<1>4. ConnsOK' /\ PeersOK'
  BY <1>1 DEF ConnsOK, PeersOK, Made
<1>5. /\ pending'[t.end] = pending[t.end] \cup {t.msg}
      /\ \A d \in Clients \ {t.end} : pending'[d] = pending[d]
      /\ pending' \in [Clients -> SUBSET posted]
  BY <1>1, <1>3 DEF CandidatesTyped
<1>6. TasksOK'
  <2> SUFFICES ASSUME NEW u \in tasks, u # t
               PROVE  /\ u.end \in Clients /\ IsTask(u)
                      /\ u.at \in OnConn => u.conn \in Made(u.end)
                      /\ u.at = "aside" => /\ u = Task(u.end, u.msg, "aside", None)
                                           /\ u.msg \in handled[u.end] \ pending'[u.end]
    BY <1>1, <1>2 DEF TasksOK, Made
  <2>1. u.at = "aside" => u = Task(u.end, u.msg, "aside", None) /\ u.msg \in handled[u.end] \ pending[u.end]
    BY DEF TasksOK
  <2>2. u.at = "aside" /\ u.end = t.end => u.msg # t.msg
    BY <1>3, <2>1
  <2>3. u.at = "aside" => u.msg \notin pending'[u.end]
    BY <1>5, <2>1, <2>2 DEF TasksOK
  <2> QED BY <2>1, <2>3 DEF TasksOK
<1>7. CandidatesTyped'
  BY <1>1, <1>2, <1>5 DEF CandidatesTyped
<1>8. \A d \in Clients : Given(d)' = Given(d) /\ Waiting(d)' = Waiting(d)
  <2>1. t.msg \in Waiting(t.end)
    BY <1>1 DEF Waiting
  <2> QED BY <1>1, <1>5, <2>1 DEF Given, Waiting
<1>9. CandidatesHandled'
  BY <1>2, <1>3, <1>5, <1>8 DEF CandidatesHandled
<1>10. CandidatesOnce'
  BY <1>2, <1>8 DEF CandidatesOnce
<1> QED BY <1>4, <1>6, <1>7, <1>9, <1>10

(* What candidates are given to, and what becomes of them there.           *)
LEMMA AddingCandidates ==
  ASSUME CandidatesTyped, NEW e \in Clients, NEW c \in Conns, NEW list \in SUBSET posted,
         AddICECandidates(e, c, list)
  PROVE  /\ added' \in [Clients -> SUBSET [cand : posted, conn : Conns]]
         /\ dropped' \in [Clients -> SUBSET [cand : posted, conn : Conns]]
         /\ Given(e)' = Given(e) \cup {[cand |-> m, conn |-> c] : m \in list}
         /\ \A d \in Clients \ {e} : Given(d)' = Given(d)
<1> DEFINE pairs == {[cand |-> m, conn |-> c] : m \in list}
<1>1. pairs \subseteq [cand : posted, conn : Conns]
  OBVIOUS
<1>2. \/ added' = [added EXCEPT ![e] = @ \cup pairs] /\ UNCHANGED dropped
      \/ dropped' = [dropped EXCEPT ![e] = @ \cup pairs] /\ UNCHANGED added
  BY DEF AddICECandidates
<1> HIDE DEF pairs
<1>3. CASE added' = [added EXCEPT ![e] = @ \cup pairs] /\ UNCHANGED dropped
  <2>1. added'[e] = added[e] \cup pairs /\ \A d \in Clients \ {e} : added'[d] = added[d]
    BY <1>3 DEF CandidatesTyped
  <2> QED BY <1>1, <1>3, <2>1 DEF CandidatesTyped, Given, pairs
<1>4. CASE dropped' = [dropped EXCEPT ![e] = @ \cup pairs] /\ UNCHANGED added
  <2>1. dropped'[e] = dropped[e] \cup pairs /\ \A d \in Clients \ {e} : dropped'[d] = dropped[d]
    BY <1>4 DEF CandidatesTyped
  <2> QED BY <1>1, <1>4, <2>1 DEF CandidatesTyped, Given, pairs
<1> QED BY <1>2, <1>3, <1>4

LEMMA FlushingKeeps ==
  ASSUME NegotiationInv, NEW t \in tasks, Flush(t)
  PROVE  NegotiationInv'
<1> USE DEF NegotiationInv
<1> DEFINE e == t.end  c == t.conn  list == pending[e]
<1>1. /\ UNCHANGED <<mailVars, conn, peerConnection>>
      /\ pending' = [pending EXCEPT ![e] = {}]
      /\ AddICECandidates(e, c, list)
      /\ tasks' = tasks \ {t} /\ t.at = "flush"
  BY DEF Flush, At, Ends
<1>2. UNCHANGED <<posted, handled>>
  BY <1>1 DEF mailVars
<1>3. e \in Clients /\ c \in Conns /\ list \in SUBSET posted
  BY <1>1 DEF TasksOK, OnConn, Made, CandidatesTyped
<1>4. /\ pending'[e] = {} /\ \A d \in Clients \ {e} : pending'[d] = pending[d]
      /\ pending' \in [Clients -> SUBSET posted]
  BY <1>1, <1>3 DEF CandidatesTyped
<1>5. /\ added' \in [Clients -> SUBSET [cand : posted, conn : Conns]]
      /\ dropped' \in [Clients -> SUBSET [cand : posted, conn : Conns]]
      /\ Given(e)' = Given(e) \cup {[cand |-> m, conn |-> c] : m \in list}
      /\ \A d \in Clients \ {e} : Given(d)' = Given(d)
  BY <1>1, <1>3, AddingCandidates
<1>6. \A x \in Given(e)' \ Given(e) : x.cand \in list /\ x.conn = c
  BY <1>5
<1>7. ConnsOK' /\ PeersOK'
  BY <1>1 DEF ConnsOK, PeersOK, Made
<1>8. CandidatesTyped'
  BY <1>2, <1>4, <1>5 DEF CandidatesTyped
<1>9. TasksOK'
  BY <1>1, <1>2, <1>3, <1>4 DEF TasksOK, Made
<1>10. CandidatesHandled'
  BY <1>2, <1>4, <1>5, <1>6 DEF CandidatesHandled
<1>11. /\ \A d \in Clients \ {e} : Waiting(d)' = Waiting(d)
       /\ Waiting(e)' = Waiting(e) \ list
  <2>1. \A u \in tasks : u.at = "aside" => u.msg \notin pending[u.end]
    BY DEF TasksOK
  <2> QED BY <1>1, <1>4, <2>1 DEF Waiting
<1>12. CandidatesOnce'
  <2> SUFFICES ASSUME NEW d \in Clients
               PROVE  /\ \A x \in Given(d)', y \in Given(d)' : x.cand = y.cand => x = y
                      /\ \A x \in Given(d)' : x.cand \notin Waiting(d)'
                      /\ \A m \in handled[d] : m.kind = "candidate" =>
                           m \in Waiting(d)' \/ \E x \in Given(d)' : x.cand = m
    BY <1>2 DEF CandidatesOnce
  <2>1. CASE d # e
    BY <1>5, <1>11, <2>1 DEF CandidatesOnce
  <2>2. CASE d = e
    <3>1. \A x \in Given(e) : x.cand \notin list /\ x.cand \notin Waiting(e)
      BY <1>3 DEF CandidatesOnce, Waiting
    <3>2. \A x \in Given(e)' \ Given(e), y \in Given(e)' \ Given(e) : x.cand = y.cand => x = y
      BY <1>5
    <3>3. \A x \in Given(e), y \in Given(e) : x.cand = y.cand => x = y
      BY <1>3 DEF CandidatesOnce
    <3>4. \A m \in list : \E x \in Given(e)' : x.cand = m
      <4>1. ASSUME NEW m \in list PROVE \E x \in Given(e)' : x.cand = m
        <5>1. [cand |-> m, conn |-> c] \in Given(e)'
          BY <1>5
        <5> QED BY <5>1
      <4> QED BY <4>1
    <3>5. \A m \in handled[e] : m.kind = "candidate" => m \in Waiting(e)' \/ \E x \in Given(e)' : x.cand = m
      <4>1. \A m \in handled[e] : m.kind = "candidate" => m \in Waiting(e) \/ \E x \in Given(e) : x.cand = m
        BY <1>3 DEF CandidatesOnce
      <4>2. Given(e) \subseteq Given(e)'
        BY <1>5
      <4> QED BY <1>11, <3>4, <4>1, <4>2
    <3> QED BY <1>6, <1>11, <2>2, <3>1, <3>2, <3>3, <3>5
  <2> QED BY <2>1, <2>2
<1> QED BY <1>7, <1>8, <1>9, <1>10, <1>12

LEMMA GivingKeeps ==
  ASSUME NegotiationInv, NEW e \in Clients, NEW m \in posted, AddCandidate(e, m)
  PROVE  NegotiationInv'
<1> USE DEF NegotiationInv
<1>1. PICK c \in Conns : c = peerConnection[e]
  BY DEF AddCandidate, Describable, PeersOK
<1>2. /\ UNCHANGED <<conn, peerConnection, pending, tasks>>
      /\ Handle(e, m) /\ AddICECandidates(e, c, {m})
  BY <1>1 DEF AddCandidate, Receive
<1>3. /\ posted' = posted /\ handled' \in [Clients -> SUBSET posted']
      /\ \A d \in Clients : handled[d] \subseteq handled'[d]
      /\ m \notin handled[e] /\ m \in handled'[e]
      /\ \A d \in Clients : handled'[d] \ handled[d] \subseteq (IF d = e THEN {m} ELSE {})
  BY <1>2, HandlingMail
<1>4. /\ added' \in [Clients -> SUBSET [cand : posted, conn : Conns]]
      /\ dropped' \in [Clients -> SUBSET [cand : posted, conn : Conns]]
      /\ Given(e)' = Given(e) \cup {[cand |-> x, conn |-> c] : x \in {m}}
      /\ \A d \in Clients \ {e} : Given(d)' = Given(d)
  BY <1>1, <1>2, AddingCandidates
<1>5. PICK new : Given(e)' = Given(e) \cup {new} /\ new.cand = m
  <2>1. {[cand |-> x, conn |-> c] : x \in {m}} = {[cand |-> m, conn |-> c]}
    OBVIOUS
  <2>2. [cand |-> m, conn |-> c].cand = m
    OBVIOUS
  <2> QED BY <1>4, <2>1, <2>2
<1>6. ConnsOK' /\ PeersOK'
  BY <1>2 DEF ConnsOK, PeersOK, Made
<1>7. CandidatesTyped'
  BY <1>2, <1>3, <1>4 DEF CandidatesTyped
<1>8. TasksOK'
  BY <1>2, <1>3 DEF TasksOK, Made
<1>9. CandidatesHandled'
  <2> SUFFICES ASSUME NEW d \in Clients
               PROVE  pending[d] \subseteq handled'[d] /\ \A x \in Given(d)' : x.cand \in handled'[d]
    BY <1>2 DEF CandidatesHandled
  <2>1. CASE d = e
    BY <1>3, <1>5, <2>1 DEF CandidatesHandled
  <2>2. CASE d # e
    BY <1>3, <1>4, <2>2 DEF CandidatesHandled
  <2> QED BY <2>1, <2>2
<1>10. \A d \in Clients : Waiting(d)' = Waiting(d) /\ Waiting(d) \subseteq handled[d]
  BY <1>2 DEF Waiting, CandidatesHandled, TasksOK
<1>11. CandidatesOnce'
  <2> SUFFICES ASSUME NEW d \in Clients
               PROVE  /\ \A x \in Given(d)', y \in Given(d)' : x.cand = y.cand => x = y
                      /\ \A x \in Given(d)' : x.cand \notin Waiting(d)
                      /\ \A k \in handled'[d] : k.kind = "candidate" =>
                           k \in Waiting(d) \/ \E x \in Given(d)' : x.cand = k
    BY <1>10 DEF CandidatesOnce
  <2>1. CASE d = e
    <3>1. \A x \in Given(e) : x.cand # m /\ x.cand \notin Waiting(e)
      BY <1>3 DEF CandidatesHandled, CandidatesOnce
    <3>2. m \notin Waiting(e)
      BY <1>3, <1>10
    <3>3. \A k \in handled'[e] : k \in handled[e] \/ k = m
      BY <1>3
    <3>4. \A k \in handled'[e] : k.kind = "candidate" => k \in Waiting(e) \/ \E x \in Given(e)' : x.cand = k
      BY <1>5, <3>3 DEF CandidatesOnce
    <3> QED BY <1>5, <2>1, <3>1, <3>2, <3>4 DEF CandidatesOnce
  <2>2. CASE d # e
    <3>1. handled'[d] = handled[d] /\ Given(d)' = Given(d)
      BY <1>3, <1>4, <2>2
    <3> QED BY <3>1 DEF CandidatesOnce
  <2> QED BY <2>1, <2>2
<1> QED BY <1>6, <1>7, <1>8, <1>9, <1>11

LEMMA NegotiationStep == NegotiationInv /\ [Next]_vars => NegotiationInv'
<1> SUFFICES ASSUME NegotiationInv, [Next]_vars PROVE NegotiationInv'
  OBVIOUS
<1>1. ASSUME NEW t \in tasks, Steps(t) PROVE NegotiationInv'
  <2>1. t.end \in Clients
    BY DEF NegotiationInv, TasksOK
  <2> QED BY <1>1, <2>1, RestingKeeps, MakingKeeps, WorkingKeeps, FlushingKeeps, AsideKeeps DEF Steps
<1>2. ASSUME NEW e \in Clients, NEW m \in posted, Handles(e, m) PROVE NegotiationInv'
  BY <1>2, RestingKeeps, MakingKeeps, OfferedKeeps, GivingKeeps, KeepingKeeps DEF Handles
<1>3. ASSUME NEW e \in Clients,
             \/ CleanUp(e) \/ SendRequest(e) \/ Renegotiate(e)
             \/ \E c \in Conns : Fail(e, c) \/ SendCandidate(e, c)
      PROVE  NegotiationInv'
  BY <1>3, RestingKeeps, FailingKeeps
<1>4. CASE UNCHANGED vars
  <2>1. UNCHANGED <<mailVars, conn, peerConnection, pending, added, dropped, tasks>>
    BY <1>4 DEF vars, endVars
  <2>2. ConnsOK' /\ Grown /\ PeersOK'
    BY <2>1, Untouched DEF NegotiationInv, PeersOK, Made
  <2> QED BY <2>1, <2>2, MailRests, CandidatesLeftAlone DEF NegotiationInv
<1> QED BY <1>1, <1>2, <1>3, <1>4 DEF Next, Progress

LEMMA NegotiationInvariant == Spec => []NegotiationInv
  BY NegotiationInit, NegotiationStep, PTL DEF Spec

(***************************************************************************)
(* However messages and goroutines overtake each other, a candidate that   *)
(* has come is put aside or has been given to one connection, once, and    *)
(* never both.                                                             *)
(***************************************************************************)
THEOREM CandidatesGivenOnce == Spec => []CandidatesOnce
  BY NegotiationInvariant, PTL DEF NegotiationInv
=============================================================================
