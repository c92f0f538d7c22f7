---------------------------- MODULE SignalingClient ----------------------------
(***************************************************************************)
(* Clients of the signaling server: a bounded queue and a goroutine that   *)
(* writes it to the websocket, a goroutine that reads it and starts one    *)
(* more for every message.  The websocket server is external: it relays    *)
(* what the members of the room send, in order, to whom it is for.  What   *)
(* handlers do is not part of this module: each may send, like any other   *)
(* goroutine above the client, whenever it likes.                          *)
(*                                                                         *)
(* A message is known by its sender and a number: 1 and 2 are the Join and *)
(* the Request of NewClient, the others come from the Send functions.      *)
(***************************************************************************)
EXTENDS Naturals, Sequences, SequencesExt

CONSTANTS
  Clients,
  Talkers,        \* clients that send more than Join and Request
  Room, Server,   \* who Join and Request are for
  ChanCap,        \* capacity of sendChan
  MaxMessages     \* bound on the numbers of messages

ASSUME SignalingAssumption ==
  /\ Talkers \subseteq Clients
  /\ Room \notin Clients /\ Server \notin Clients /\ Room # Server
  /\ ChanCap \in Nat \ {0}
  /\ MaxMessages \in Nat \ {0, 1}

Message == [from : Clients, n : 1..MaxMessages, to : Clients \cup {Room, Server}]

Join(c) == [from |-> c, n |-> 1, to |-> Server]
Request(c) == [from |-> c, n |-> 2, to |-> Room]

VARIABLES
  step,        \* of NewClient: "join", "request", "read"; then "made" or "failed"
  sendChan,
  pump,        \* writePump: "running" or "gone"
  inHand,      \* the message it is writing: a sequence of one, or none
  conn,        \* the websocket: "up" or "down"
  callbacks,   \* whether SetCallbacks has been called
  reader,      \* readLoop: "none", "reading", "ended"
  sent,        \* number of messages made so far
  (* The server: its room, and what is on the way from it.                 *)
  members, inbound,
  (* For the properties: messages accepted; whether a write has failed,    *)
  (* and how many messages were queued then or since; messages that        *)
  (* handlers were started for, and how many were started.                 *)
  accepted, failed, unread, handled, calls

MB == INSTANCE Mailbox WITH posted <- accepted

clientVars == <<step, conn, callbacks>>
readVars == <<reader, handled, calls>>
sendVars == <<sendChan, sent, accepted, failed, unread>>
serverVars == <<members, inbound>>
pumpVars == <<pump, inHand>>
vars == <<clientVars, readVars, sendVars, pumpVars, serverVars>>

Init ==
  /\ step = [c \in Clients |-> "join"]
  /\ sendChan = [c \in Clients |-> << >>]
  /\ pump = [c \in Clients |-> "running"] /\ inHand = [c \in Clients |-> << >>]
  /\ conn = [c \in Clients |-> "up"]
  /\ callbacks = [c \in Clients |-> FALSE]
  /\ reader = [c \in Clients |-> "none"]
  /\ sent = [c \in Clients |-> 0]
  /\ members = {} /\ inbound = [c \in Clients |-> << >>]
  /\ accepted = {}
  /\ failed = [c \in Clients |-> FALSE] /\ unread = [c \in Clients |-> 0]
  /\ handled = [c \in Clients |-> {}] /\ calls = [c \in Clients |-> 0]

-----------------------------------------------------------------------------
(* Sending.                                                                *)

HasRoom(c) == Len(sendChan[c]) < ChanCap

Enqueue(c, m) ==
  /\ sendChan' = [sendChan EXCEPT ![c] = Append(@, m)]
  /\ accepted' = accepted \cup {m}
  /\ unread' = [unread EXCEPT ![c] = IF failed[c] THEN @ + 1 ELSE @]

Refuse == UNCHANGED <<sendChan, accepted, unread>>

(* Refused when the queue is full, and never waits.                        *)
sendMessage(c, m) ==
  /\ \/ HasRoom(c) /\ Enqueue(c, m)
     \/ ~HasRoom(c) /\ Refuse
  /\ UNCHANGED failed
  /\ sent' = [sent EXCEPT ![c] = @ + 1]

NewMessage(c, to) == [from |-> c, n |-> sent[c] + 1, to |-> to]

(* NewClient after it has connected and started the pump: Join, Request,   *)
(* readLoop.  A refusal ends it.                                           *)
FirstMessage(c) == IF step[c] = "join" THEN Join(c) ELSE Request(c)

Introduce(c) ==
  /\ step[c] \in {"join", "request"}
  /\ sendMessage(c, FirstMessage(c))
  /\ \/ /\ HasRoom(c)
        /\ step' = [step EXCEPT ![c] = IF @ = "join" THEN "request" ELSE "read"]
        /\ UNCHANGED conn
     \/ /\ ~HasRoom(c)
        /\ step' = [step EXCEPT ![c] = "failed"]
        /\ conn' = [conn EXCEPT ![c] = "down"]
  /\ UNCHANGED <<callbacks, readVars, pumpVars, serverVars>>

StartReading(c) ==
  /\ step[c] = "read"
  /\ step' = [step EXCEPT ![c] = "made"]
  /\ reader' = [reader EXCEPT ![c] = "reading"]
  /\ UNCHANGED <<conn, callbacks, handled, calls, sendVars, pumpVars, serverVars>>

SetCallbacks(c) ==
  /\ step[c] = "made" /\ ~callbacks[c]
  /\ callbacks' = [callbacks EXCEPT ![c] = TRUE]
  /\ UNCHANGED <<step, conn, readVars, sendVars, pumpVars, serverVars>>

(* SendOffer, SendAnswer, SendCandidate, SendRequest and SendRedirect, by  *)
(* whatever goroutine calls them, a handler's or another.                  *)
Send(c, to) ==
  /\ c \in Talkers /\ callbacks[c]
  /\ sent[c] < MaxMessages
  /\ sendMessage(c, NewMessage(c, to))
  /\ UNCHANGED <<clientVars, readVars, pumpVars, serverVars>>

-----------------------------------------------------------------------------
(* writePump.                                                              *)

TakeMessage(c) ==
  /\ pump[c] = "running" /\ inHand[c] = << >> /\ sendChan[c] # << >>
  /\ inHand' = [inHand EXCEPT ![c] = <<Head(sendChan[c])>>]
  /\ sendChan' = [sendChan EXCEPT ![c] = Tail(@)]
  /\ UNCHANGED <<clientVars, readVars, sent, accepted, failed, unread, pump, serverVars>>

(* The server: a Join makes its sender a member; what a member sends goes  *)
(* to the members it is for.                                               *)
Relay(m) ==
  IF m.to = Server
  THEN /\ members' = members \cup {m.from}
       /\ UNCHANGED inbound
  ELSE /\ inbound' = [c \in Clients |->
                        IF c \in members /\ MB!IsFor(m, c) THEN Append(inbound[c], m)
                                                        ELSE inbound[c]]
       /\ UNCHANGED members

(* A message that was written may stay for another try.                    *)
Write_Retries(c) ==
  /\ inHand[c] # << >>
  /\ inHand' \in {inHand, [inHand EXCEPT ![c] = << >>]}
  /\ \/ conn[c] = "up" /\ Relay(inHand[c][1])
     \/ conn[c] = "down" /\ UNCHANGED serverVars
  /\ UNCHANGED <<clientVars, readVars, sendVars, pump>>

(* A write succeeds; when the connection is lost already it may still do,  *)
(* and the message goes nowhere.                                           *)
Write(c) ==
  /\ inHand[c] # << >>
  /\ inHand' = [inHand EXCEPT ![c] = << >>]
  /\ \/ conn[c] = "up" /\ Relay(inHand[c][1])
     \/ conn[c] = "down" /\ UNCHANGED serverVars
  /\ UNCHANGED <<clientVars, readVars, sendVars, pump>>

AfterError_GoesOn == "running"
AfterError == "gone"

WriteFails(c) ==
  /\ inHand[c] # << >> /\ conn[c] = "down"
  /\ inHand' = [inHand EXCEPT ![c] = << >>]
  /\ pump' = [pump EXCEPT ![c] = AfterError]
  /\ failed' = [failed EXCEPT ![c] = TRUE]
  /\ unread' = [unread EXCEPT ![c] = IF failed[c] THEN @ ELSE Len(sendChan[c])]
  /\ UNCHANGED <<clientVars, readVars, sendChan, sent, accepted, serverVars>>

-----------------------------------------------------------------------------
(* readLoop.                                                               *)

Start(c, m) ==
  /\ callbacks[c]
  /\ handled' = [handled EXCEPT ![c] = @ \cup {m}]
  /\ calls' = [calls EXCEPT ![c] = @ + 1]
  /\ UNCHANGED reader

(* readLoop ends at a message that nobody wants.                           *)
Dispatch_Ends(c, m) ==
  \/ Start(c, m)
  \/ /\ ~callbacks[c]
     /\ reader' = [reader EXCEPT ![c] = "ended"]
     /\ UNCHANGED <<handled, calls>>

(* A message that comes before the callbacks are set is dropped.           *)
Dispatch(c, m) ==
  \/ Start(c, m)
  \/ ~callbacks[c] /\ UNCHANGED readVars

Read(c) ==
  /\ reader[c] = "reading" /\ conn[c] = "up"
  /\ inbound[c] # << >>
  /\ Dispatch(c, Head(inbound[c]))
  /\ inbound' = [inbound EXCEPT ![c] = Tail(@)]
  /\ UNCHANGED <<clientVars, sendVars, pumpVars, members>>

ReadFails(c) ==
  /\ reader[c] = "reading" /\ conn[c] = "down"
  /\ reader' = [reader EXCEPT ![c] = "ended"]
  /\ UNCHANGED <<clientVars, handled, calls, sendVars, pumpVars, serverVars>>

(* The connection is lost, or Run has failed and closes it.  The room is   *)
(* told, or not.                                                           *)
LoseConnection(c) ==
  /\ conn[c] = "up"
  /\ conn' = [conn EXCEPT ![c] = "down"]
  /\ inbound' = [inbound EXCEPT ![c] = << >>]
  /\ members' \in {members, members \ {c}}
  /\ UNCHANGED <<step, callbacks, readVars, sendVars, pumpVars>>

-----------------------------------------------------------------------------

Client(c) ==
  \/ Introduce(c) \/ StartReading(c) \/ SetCallbacks(c)
  \/ \E to \in Clients \ {c} : Send(c, to)
  \/ TakeMessage(c) \/ Write(c) \/ WriteFails(c)
  \/ Read(c) \/ ReadFails(c)
  \/ LoseConnection(c)

Next == \E c \in Clients : Client(c)

Spec == Init /\ [][Next]_vars

(***************************************************************************)
(* The pump and the reader run on while they can.  Nothing is assumed of   *)
(* who sends, of when a lost connection is noticed, or of the start.       *)
(***************************************************************************)
Fairness ==
  \A c \in Clients :
    WF_vars(TakeMessage(c)) /\ WF_vars(Write(c)) /\ WF_vars(Read(c))

FairSpec == Spec /\ Fairness

-----------------------------------------------------------------------------
(* Properties.                                                             *)

TypeOK ==
  /\ step \in [Clients -> {"join", "request", "read", "made", "failed"}]
  /\ sendChan \in [Clients -> Seq(Message)]
  /\ pump \in [Clients -> {"running", "gone"}]
  /\ inHand \in [Clients -> {<<m>> : m \in Message} \cup {<< >>}]
  /\ conn \in [Clients -> {"up", "down"}]
  /\ callbacks \in [Clients -> BOOLEAN]
  /\ reader \in [Clients -> {"none", "reading", "ended"}]
  /\ handled \in [Clients -> SUBSET Message]
  /\ sent \in [Clients -> 0..MaxMessages]
  /\ members \in SUBSET Clients
  /\ inbound \in [Clients -> Seq(Message)]
  /\ accepted \in SUBSET Message
  /\ failed \in [Clients -> BOOLEAN] /\ unread \in [Clients -> Nat]
  /\ \A c \in Clients : Len(sendChan[c]) <= ChanCap
  /\ calls \in [Clients -> Nat]

(***************************************************************************)
(* What the layers above rely on: a handler is started only for a message  *)
(* that was accepted and is for this client, once for each; a refused one  *)
(* is handled by nobody.                                                   *)
(***************************************************************************)
ImplementsMailbox == MB!MailSpec

(***************************************************************************)
(* After a write error nobody writes any more, and senders are not told    *)
(* so; but ChanCap messages at most are accepted for nobody.               *)
(***************************************************************************)
SilentLossBounded == \A c \in Clients : unread[c] <= ChanCap

(***************************************************************************)
(* What was accepted is handled in the end, while both connections hold    *)
(* and the receiver is in the room with its callbacks set.                 *)
(***************************************************************************)
AcceptedIsHandled ==
  \A c \in Talkers : \A d \in Clients \ {c}, n \in 3..MaxMessages :
    LET m == [from |-> c, n |-> n, to |-> d]
    IN  (m \in ToSet(sendChan[c]) /\ callbacks[d] /\ d \in members)
          ~> (m \in handled[d] \/ conn[c] = "down" \/ conn[d] = "down")
=============================================================================
