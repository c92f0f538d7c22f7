------------------------ MODULE SignalingClientProofs ------------------------
(***************************************************************************)
(* Theorems about SignalingClient, for any clients, capacities and         *)
(* messages: its type invariant, the bound on what is lost in silence, and *)
(* that it implements Mailbox.                                             *)
(***************************************************************************)
EXTENDS SignalingClient, TLAPS

(* What a client may still do at its step.                                 *)
Control ==
  \A c \in Clients :
    /\ step[c] = "join" => sent[c] = 0
    /\ step[c] = "request" => sent[c] = 1
    /\ callbacks[c] => step[c] = "made"

(* Without the pump the queue only grows.                                  *)
Loss ==
  \A c \in Clients :
    /\ failed[c] => pump[c] = "gone" /\ inHand[c] = << >> /\ unread[c] <= Len(sendChan[c])
    /\ ~failed[c] => unread[c] = 0

ClientInv == TypeOK /\ Control /\ Loss

LEMMA ClientInit == Init => ClientInv
  BY SignalingAssumption DEF Init, ClientInv, TypeOK, Control, Loss

(* A message of a client that may send one is accepted or refused.         *)
LEMMA SendingKeepsClients ==
  ASSUME ClientInv, NEW c \in Clients, NEW m \in Message, sendMessage(c, m),
         sent[c] < MaxMessages,
         UNCHANGED <<pumpVars, serverVars, reader, handled, calls>>,
         step' \in [Clients -> {"join", "request", "read", "made", "failed"}],
         conn' \in [Clients -> {"up", "down"}],
         callbacks' = callbacks,
         Control'
  PROVE  ClientInv'
<1> USE DEF ClientInv
<1>1. UNCHANGED <<pump, inHand, members, inbound, reader, handled, calls, callbacks, failed>>
  BY DEF pumpVars, serverVars, sendMessage
<1>2. sent' \in [Clients -> 0..MaxMessages]
  BY SignalingAssumption DEF sendMessage, TypeOK
<1>3. CASE HasRoom(c) /\ Enqueue(c, m)
  <2>1. /\ sendChan' = [sendChan EXCEPT ![c] = Append(@, m)]
        /\ accepted' = accepted \cup {m}
        /\ unread' = [unread EXCEPT ![c] = IF failed[c] THEN @ + 1 ELSE @]
        /\ Len(sendChan[c]) < ChanCap /\ sendChan[c] \in Seq(Message)
    BY <1>3 DEF HasRoom, Enqueue, TypeOK
  <2>2. /\ sendChan' \in [Clients -> Seq(Message)]
        /\ Len(sendChan'[c]) = Len(sendChan[c]) + 1
        /\ \A d \in Clients \ {c} : sendChan'[d] = sendChan[d]
    BY <2>1 DEF TypeOK
  <2>3. \A d \in Clients : Len(sendChan'[d]) <= ChanCap
    BY <2>1, <2>2, SignalingAssumption DEF TypeOK
  <2>4. TypeOK'
    BY <1>1, <1>2, <2>1, <2>2, <2>3 DEF TypeOK
  <2>5. Loss'
    BY <1>1, <2>1, <2>2 DEF Loss, TypeOK
  <2> QED BY <2>4, <2>5
<1>4. CASE Refuse
  BY <1>1, <1>2, <1>4 DEF Refuse, TypeOK, Loss
<1> QED BY <1>3, <1>4 DEF sendMessage

LEMMA IntroducingKeepsClients ==
  ASSUME ClientInv, NEW c \in Clients, Introduce(c)
  PROVE  ClientInv' /\ FirstMessage(c) = NewMessage(c, FirstMessage(c).to) /\ FirstMessage(c) \in Message
<1> USE DEF ClientInv
<1>1. sent[c] \in {0, 1} /\ sent[c] < MaxMessages
      /\ FirstMessage(c) = [from |-> c, n |-> sent[c] + 1, to |-> FirstMessage(c).to]
      /\ FirstMessage(c).to \in {Room, Server}
  BY SignalingAssumption DEF Introduce, Control, FirstMessage, Join, Request
<1>2. FirstMessage(c) \in Message
  BY <1>1, SignalingAssumption DEF Message
<1>3. /\ step' \in [Clients -> {"join", "request", "read", "made", "failed"}]
      /\ conn' \in [Clients -> {"up", "down"}]
      /\ UNCHANGED callbacks
  BY DEF Introduce, TypeOK, readVars
<1>4. Control'
  <2>1. sent' = [sent EXCEPT ![c] = @ + 1]
    BY DEF Introduce, sendMessage
  <2>2. CASE step[c] = "join"
    <3>1. step' = [step EXCEPT ![c] = "request"] \/ step' = [step EXCEPT ![c] = "failed"]
      BY <2>2 DEF Introduce
    <3> QED BY <1>3, <2>1, <2>2, <3>1 DEF Control, TypeOK
  <2>3. CASE step[c] = "request"
    <3>1. step' = [step EXCEPT ![c] = "read"] \/ step' = [step EXCEPT ![c] = "failed"]
      BY <2>3 DEF Introduce
    <3> QED BY <1>3, <2>1, <2>3, <3>1 DEF Control, TypeOK
  <2> QED BY <2>2, <2>3 DEF Introduce
<1>5. ClientInv'
  <2>1. /\ sendMessage(c, FirstMessage(c))
        /\ UNCHANGED <<pumpVars, serverVars, reader, handled, calls>>
    BY DEF Introduce, readVars
  <2> QED BY <1>1, <1>2, <1>3, <1>4, <2>1, SendingKeepsClients
<1> QED BY <1>1, <1>2, <1>5 DEF NewMessage

LEMMA NewIsMessage ==
  ASSUME ClientInv, NEW c \in Clients, NEW d \in Clients, sent[c] < MaxMessages
  PROVE  NewMessage(c, d) \in Message
  BY SignalingAssumption DEF NewMessage, Message, ClientInv, TypeOK

LEMMA OthersSendingKeepsClients ==
  ASSUME ClientInv, NEW c \in Clients, NEW to \in Clients \ {c}, Send(c, to)
  PROVE  ClientInv'
<1> USE DEF ClientInv
<1>1. Control'
  BY DEF Send, sendMessage, Control, TypeOK, clientVars, readVars
<1>2. UNCHANGED <<step, conn, callbacks, reader, handled, calls>> /\ NewMessage(c, to) \in Message
  BY NewIsMessage DEF Send, clientVars, readVars
<1> QED BY <1>1, <1>2, SendingKeepsClients DEF Send, TypeOK

LEMMA PumpKeepsClients ==
  ASSUME ClientInv, NEW c \in Clients, TakeMessage(c) \/ Write(c) \/ WriteFails(c)
  PROVE  ClientInv'
<1> USE DEF ClientInv
<1>1. CASE TakeMessage(c)
  <2>1. sendChan[c] \in Seq(Message) /\ sendChan[c] # << >> /\ ~failed[c]
    BY <1>1 DEF TakeMessage, TypeOK, Loss
  <2>2. /\ Head(sendChan[c]) \in Message /\ Tail(sendChan[c]) \in Seq(Message)
        /\ Len(Tail(sendChan[c])) <= ChanCap
    BY <2>1, SignalingAssumption DEF TypeOK
  <2>3. /\ UNCHANGED <<step, conn, callbacks, reader, handled, calls, sent, accepted, failed,
                       unread, pump, members, inbound>>
        /\ sendChan' = [sendChan EXCEPT ![c] = Tail(@)]
        /\ inHand' = [inHand EXCEPT ![c] = <<Head(sendChan[c])>>]
    BY <1>1 DEF TakeMessage, clientVars, readVars, serverVars
  <2>4. /\ sendChan' \in [Clients -> Seq(Message)]
        /\ \A d \in Clients : Len(sendChan'[d]) <= ChanCap
    BY <2>2, <2>3 DEF TypeOK
  <2>5. inHand' \in [Clients -> {<<m>> : m \in Message} \cup {<< >>}]
    BY <2>2, <2>3 DEF TypeOK
  <2>6. TypeOK'
    BY <2>3, <2>4, <2>5 DEF TypeOK
  <2>7. Control'
    BY <2>3 DEF Control
  <2>8. \A d \in Clients \ {c} : sendChan'[d] = sendChan[d] /\ inHand'[d] = inHand[d]
    BY <2>3 DEF TypeOK
  <2>9. Loss'
    BY <2>1, <2>3, <2>8 DEF Loss
  <2> QED BY <2>6, <2>7, <2>9
<1>2. CASE Write(c)
  <2>1. /\ UNCHANGED <<step, conn, callbacks, reader, handled, calls, sent, accepted, failed,
                       unread, pump, sendChan>>
        /\ inHand' = [inHand EXCEPT ![c] = << >>]
    BY <1>2 DEF Write, clientVars, readVars, sendVars
  <2>2. inHand[c][1] \in Message
    BY <1>2 DEF Write, TypeOK
  <2>3. members' \in SUBSET Clients /\ inbound' \in [Clients -> Seq(Message)]
    <3>1. CASE UNCHANGED <<members, inbound>>
      BY <3>1 DEF TypeOK
    <3>2. CASE Relay(inHand[c][1])
      <4>1. members' \in SUBSET Clients
        BY <2>2, <3>2 DEF Relay, TypeOK, Message
      <4>2. ASSUME inHand[c][1].to # Server
            PROVE  inbound' = [d \in Clients |-> IF d \in members /\ MB!IsFor(inHand[c][1], d)
                                                THEN Append(inbound[d], inHand[c][1]) ELSE inbound[d]]
        BY <3>2, <4>2 DEF Relay
      <4>3. \A d \in Clients : /\ inbound[d] \in Seq(Message)
                                /\ Append(inbound[d], inHand[c][1]) \in Seq(Message)
        BY <2>2 DEF TypeOK
      <4>4. inbound' \in [Clients -> Seq(Message)]
        <5>1. CASE inHand[c][1].to # Server
          BY <4>2, <4>3, <5>1
        <5>2. CASE inHand[c][1].to = Server
          BY <3>2, <5>2 DEF Relay, TypeOK
        <5> QED BY <5>1, <5>2
      <4> QED BY <4>1, <4>4
    <3> QED BY <1>2, <3>1, <3>2 DEF Write, serverVars
  <2> QED BY <2>1, <2>3 DEF TypeOK, Control, Loss
<1>3. CASE WriteFails(c)
  <2>1. /\ UNCHANGED <<step, conn, callbacks, reader, handled, calls, sent, accepted, sendChan,
                       members, inbound>>
        /\ inHand' = [inHand EXCEPT ![c] = << >>]
        /\ pump' = [pump EXCEPT ![c] = "gone"]
        /\ failed' = [failed EXCEPT ![c] = TRUE]
        /\ unread' = [unread EXCEPT ![c] = IF failed[c] THEN @ ELSE Len(sendChan[c])]
        /\ ~failed[c]
    BY <1>3 DEF WriteFails, AfterError, clientVars, readVars, serverVars, Loss
  <2>2. Len(sendChan[c]) \in Nat
    BY DEF TypeOK
  <2> QED BY <2>1, <2>2 DEF TypeOK, Control, Loss
<1> QED BY <1>1, <1>2, <1>3

LEMMA ReadingKeepsClients ==
  ASSUME ClientInv, NEW c \in Clients,
         \/ StartReading(c) \/ SetCallbacks(c) \/ Read(c) \/ ReadFails(c) \/ LoseConnection(c)
  PROVE  ClientInv'
<1> USE DEF ClientInv
<1>1. UNCHANGED <<sendChan, sent, accepted, failed, unread, pump, inHand>>
  BY DEF StartReading, SetCallbacks, Read, ReadFails, LoseConnection, sendVars, pumpVars
<1>2. CASE StartReading(c)
  <2>1. /\ UNCHANGED <<conn, callbacks, handled, calls, members, inbound>>
        /\ step[c] = "read"
        /\ step' = [step EXCEPT ![c] = "made"]
        /\ reader' = [reader EXCEPT ![c] = "reading"]
    BY <1>2 DEF StartReading, serverVars
  <2> QED BY <1>1, <2>1 DEF TypeOK, Control, Loss
<1>5. CASE SetCallbacks(c)
  <2>1. /\ UNCHANGED <<step, conn, reader, handled, calls, members, inbound>>
        /\ step[c] = "made"
        /\ callbacks' = [callbacks EXCEPT ![c] = TRUE]
    BY <1>5 DEF SetCallbacks, serverVars, readVars
  <2> QED BY <1>1, <2>1 DEF TypeOK, Control, Loss
<1>3. CASE Read(c)
  <2>1. /\ UNCHANGED <<step, conn, callbacks, members>>
        /\ inbound' = [inbound EXCEPT ![c] = Tail(@)]
        /\ Tail(inbound[c]) \in Seq(Message)
        /\ Head(inbound[c]) \in Message
        /\ Dispatch(c, Head(inbound[c]))
    BY <1>3 DEF Read, clientVars, TypeOK
  <2>2. \/ /\ handled' = [handled EXCEPT ![c] = @ \cup {Head(inbound[c])}]
           /\ calls' = [calls EXCEPT ![c] = @ + 1]
           /\ UNCHANGED reader
        \/ UNCHANGED <<reader, handled, calls>>
    BY <2>1 DEF Dispatch, Start, readVars
  <2>3. /\ handled' \in [Clients -> SUBSET Message]
        /\ calls' \in [Clients -> Nat] /\ UNCHANGED reader
    <3>1. CASE UNCHANGED <<reader, handled, calls>>
      BY <3>1 DEF TypeOK
    <3>2. CASE ~UNCHANGED <<reader, handled, calls>>
      <4>1. PICK m \in Message :
              /\ handled' = [handled EXCEPT ![c] = @ \cup {m}]
              /\ calls' = [calls EXCEPT ![c] = @ + 1]
              /\ UNCHANGED reader
        BY <2>1, <2>2, <3>2
      <4>2. handled' \in [Clients -> SUBSET Message]
        BY <4>1 DEF TypeOK
      <4>3. calls' \in [Clients -> Nat]
        BY <4>1 DEF TypeOK
      <4> QED BY <4>1, <4>2, <4>3
    <3> QED BY <3>1, <3>2
  <2>5. inbound' \in [Clients -> Seq(Message)]
    BY <2>1 DEF TypeOK
  <2>4. TypeOK'
    BY <1>1, <2>1, <2>3, <2>5 DEF TypeOK
  <2>6. Control'
    BY <1>1, <2>1 DEF Control
  <2>7. Loss'
    BY <1>1 DEF Loss
  <2> QED BY <2>4, <2>6, <2>7
<1>4. CASE ReadFails(c)
  <2>1. /\ UNCHANGED <<step, conn, callbacks, handled, calls, members, inbound>>
        /\ reader' = [reader EXCEPT ![c] = "ended"]
    BY <1>4 DEF ReadFails, clientVars, serverVars
  <2> QED BY <1>1, <2>1 DEF TypeOK, Control, Loss
<1>6. CASE LoseConnection(c)
  <2>1. /\ UNCHANGED <<step, callbacks, reader, handled, calls>>
        /\ conn' = [conn EXCEPT ![c] = "down"]
        /\ inbound' = [inbound EXCEPT ![c] = << >>]
        /\ members' \in {members, members \ {c}}
    BY <1>6 DEF LoseConnection, readVars
  <2> QED BY <1>1, <2>1 DEF TypeOK, Control, Loss
<1> QED BY <1>2, <1>3, <1>4, <1>5, <1>6

LEMMA ClientStep == ClientInv /\ [Next]_vars => ClientInv'
<1> SUFFICES ASSUME ClientInv, [Next]_vars PROVE ClientInv'
  OBVIOUS
<1>1. ASSUME NEW c \in Clients, Client(c) PROVE ClientInv'
  BY <1>1, IntroducingKeepsClients, OthersSendingKeepsClients, PumpKeepsClients, ReadingKeepsClients
  DEF Client
<1>2. CASE UNCHANGED vars
  BY <1>2 DEF ClientInv, TypeOK, Control, Loss, vars, clientVars, readVars, sendVars, pumpVars, serverVars
<1> QED BY <1>1, <1>2 DEF Next

LEMMA ClientInvariant == Spec => []ClientInv
  BY ClientInit, ClientStep, PTL DEF Spec

(***************************************************************************)
(* The values of the clients' state; the queue never exceeds its capacity. *)
(***************************************************************************)
THEOREM TypeCorrect == Spec => []TypeOK
  BY ClientInvariant, PTL DEF ClientInv

(***************************************************************************)
(* Once writePump has ended after a write error, at most ChanCap messages  *)
(* are accepted that nobody will write.                                    *)
(***************************************************************************)
THEOREM SilentLossIsBounded == Spec => []SilentLossBounded
<1>1. ClientInv => SilentLossBounded
  <2> SUFFICES ASSUME ClientInv, NEW c \in Clients PROVE unread[c] <= ChanCap
    BY DEF SilentLossBounded
  <2>1. Len(sendChan[c]) \in Nat /\ Len(sendChan[c]) <= ChanCap /\ unread[c] \in Nat
        /\ failed[c] \in BOOLEAN /\ ChanCap \in Nat
    BY SignalingAssumption DEF ClientInv, TypeOK
  <2>2. CASE failed[c]
    BY <2>1, <2>2 DEF ClientInv, Loss
  <2>3. CASE ~failed[c]
    BY <2>1, <2>3 DEF ClientInv, Loss
  <2> QED BY <2>2, <2>3
<1> QED BY <1>1, ClientInvariant, PTL

-----------------------------------------------------------------------------
(* Where a message can be: each is in one queue, or in the hand of one     *)
(* pump, or on its way to clients that have not handled it.                *)

Known ==
  /\ \A m \in accepted : m.n <= sent[m.from]
  /\ \A d \in Clients : handled[d] \subseteq accepted

QueueOK ==
  \A c \in Clients : \A i \in DOMAIN sendChan[c] :
    sendChan[c][i] \in accepted /\ sendChan[c][i].from = c
QueueOnce ==
  \A c \in Clients : \A i, j \in DOMAIN sendChan[c] : i # j => sendChan[c][i] # sendChan[c][j]
HandOK ==
  \A c \in Clients : inHand[c] # << >> =>
    /\ inHand[c][1] \in accepted /\ inHand[c][1].from = c
    /\ \A i \in DOMAIN sendChan[c] : sendChan[c][i] # inHand[c][1]
InboundOK ==
  \A d \in Clients : \A j \in DOMAIN inbound[d] :
    /\ inbound[d][j] \in accepted \ handled[d]
    /\ MB!IsFor(inbound[d][j], d)
InboundOnce ==
  \A d \in Clients : \A i, j \in DOMAIN inbound[d] : i # j => inbound[d][i] # inbound[d][j]

Unseen(m) ==
  \A d \in Clients : m \notin handled[d] /\ \A j \in DOMAIN inbound[d] : inbound[d][j] # m
QueueUnseen == \A c \in Clients : \A i \in DOMAIN sendChan[c] : Unseen(sendChan[c][i])
HandUnseen == \A c \in Clients : inHand[c] # << >> => Unseen(inHand[c][1])

MailInv ==
  /\ ClientInv
  /\ Known
  /\ QueueOK /\ QueueOnce /\ HandOK
  /\ InboundOK /\ InboundOnce
  /\ QueueUnseen /\ HandUnseen

LEMMA MailInit == Init => MailInv /\ MB!MailInit
<1>1. Init => ClientInv
  BY ClientInit
<1> QED
  BY <1>1 DEF Init, MailInv, Known, QueueOK, QueueOnce, HandOK, InboundOK, InboundOnce, QueueUnseen,
     HandUnseen, MB!MailInit

(* The message that is sent is a new one, so that nobody has seen it.      *)
LEMMA SendingMails ==
  ASSUME MailInv, ClientInv', NEW c \in Clients, NEW m \in Message,
         m.from = c, m.n = sent[c] + 1, sendMessage(c, m),
         UNCHANGED <<inHand, inbound, handled, calls>>
  PROVE  MailInv' /\ [MB!MailNext]_(MB!mailVars)
<1> USE DEF MailInv
<1>1. sent' = [sent EXCEPT ![c] = @ + 1] /\ sent \in [Clients -> Nat] /\ accepted \in SUBSET Message
  BY DEF sendMessage, ClientInv, TypeOK
<1>2. m \notin accepted
  BY <1>1 DEF Known
<1>3. CASE Refuse
  <2>1. UNCHANGED <<sendChan, accepted>>
    BY <1>3 DEF Refuse
  <2>2. Known'
    BY <1>1, <2>1 DEF Known, Message
  <2>3. UNCHANGED MB!mailVars
    BY <2>1 DEF MB!mailVars
  <2> QED BY <2>1, <2>2, <2>3 DEF QueueOK, QueueOnce, HandOK, InboundOK, InboundOnce, QueueUnseen,
             HandUnseen, Unseen
<1>4. CASE Enqueue(c, m)
  <2>1. /\ sendChan' = [sendChan EXCEPT ![c] = Append(@, m)]
        /\ accepted' = accepted \cup {m}
        /\ sendChan[c] \in Seq(Message)
    BY <1>4 DEF Enqueue, ClientInv, TypeOK
  <2>2. /\ \A d \in Clients \ {c} : sendChan'[d] = sendChan[d]
        /\ sendChan'[c] = Append(sendChan[c], m)
    BY <2>1 DEF ClientInv, TypeOK
  <2>3. \A i \in DOMAIN sendChan'[c] :
          \/ i \in DOMAIN sendChan[c] /\ sendChan'[c][i] = sendChan[c][i]
          \/ i = Len(sendChan[c]) + 1 /\ sendChan'[c][i] = m
    BY <2>1, <2>2
  <2>4. \A i \in DOMAIN sendChan[c] : sendChan[c][i] # m
    BY <1>2 DEF QueueOK
  <2>5. Unseen(m)
    BY <1>2 DEF Unseen, Known, InboundOK
  <2>6. Known'
    BY <1>1, <2>1 DEF Known, Message
  <2>7. QueueOK'
    <3> SUFFICES ASSUME NEW d \in Clients, NEW i \in DOMAIN sendChan'[d]
                 PROVE  sendChan'[d][i] \in accepted' /\ sendChan'[d][i].from = d
      BY DEF QueueOK
    <3>1. CASE d = c
      BY <2>1, <2>3, <3>1 DEF QueueOK
    <3>2. CASE d # c
      BY <2>1, <2>2, <3>2 DEF QueueOK
    <3> QED BY <3>1, <3>2
  <2>8. QueueOnce'
    <3> SUFFICES ASSUME NEW d \in Clients, NEW i \in DOMAIN sendChan'[d], NEW j \in DOMAIN sendChan'[d],
                        i # j
                 PROVE  sendChan'[d][i] # sendChan'[d][j]
      BY DEF QueueOnce
    <3>1. CASE d = c
      BY <2>3, <2>4, <3>1 DEF QueueOnce
    <3>2. CASE d # c
      BY <2>2, <3>2 DEF QueueOnce
    <3> QED BY <3>1, <3>2
  <2>9. HandOK'
    <3> SUFFICES ASSUME NEW d \in Clients, inHand[d] # << >>
                 PROVE  /\ inHand[d][1] \in accepted' /\ inHand[d][1].from = d
                        /\ \A i \in DOMAIN sendChan'[d] : sendChan'[d][i] # inHand[d][1]
      BY DEF HandOK
    <3>1. inHand[d][1] \in accepted /\ inHand[d][1].from = d /\ inHand[d][1] # m
      BY <1>2 DEF HandOK
    <3>2. CASE d = c
      BY <2>1, <2>3, <3>1, <3>2 DEF HandOK
    <3>3. CASE d # c
      BY <2>1, <2>2, <3>1, <3>3 DEF HandOK
    <3> QED BY <3>2, <3>3
  <2>10. InboundOK' /\ InboundOnce' /\ HandUnseen'
    BY <2>1 DEF InboundOK, InboundOnce, HandUnseen, Unseen
  <2>11. QueueUnseen'
    <3> SUFFICES ASSUME NEW d \in Clients, NEW i \in DOMAIN sendChan'[d]
                 PROVE  Unseen(sendChan'[d][i])
      BY DEF QueueUnseen, Unseen
    <3>1. CASE d = c
      BY <2>3, <2>5, <3>1 DEF QueueUnseen
    <3>2. CASE d # c
      BY <2>2, <3>2 DEF QueueUnseen
    <3> QED BY <3>1, <3>2
  <2>12. MB!MailNext
    BY <2>1 DEF MB!MailNext, MB!Post
  <2> QED BY <2>6, <2>7, <2>8, <2>9, <2>10, <2>11, <2>12
<1> QED BY <1>3, <1>4 DEF sendMessage

LEMMA SendersMail ==
  ASSUME MailInv, NEW c \in Clients,
         Introduce(c) \/ \E to \in Clients \ {c} : Send(c, to)
  PROVE  MailInv' /\ [MB!MailNext]_(MB!mailVars)
<1>1. ClientInv /\ ClientInv'
  BY IntroducingKeepsClients, OthersSendingKeepsClients DEF MailInv
<1>2. CASE Introduce(c)
  <2>1. FirstMessage(c) \in Message /\ FirstMessage(c).from = c /\ FirstMessage(c).n = sent[c] + 1
    BY <1>1, <1>2, IntroducingKeepsClients DEF NewMessage
  <2>2. sendMessage(c, FirstMessage(c)) /\ UNCHANGED <<inHand, inbound, handled, calls>>
    BY <1>2 DEF Introduce, readVars, pumpVars, serverVars
  <2> QED BY <1>1, <2>1, <2>2, SendingMails
<1>3. ASSUME NEW to \in Clients, Send(c, to) PROVE MailInv' /\ [MB!MailNext]_(MB!mailVars)
  <2>1. NewMessage(c, to) \in Message /\ NewMessage(c, to).from = c /\ NewMessage(c, to).n = sent[c] + 1
    BY <1>1, <1>3, NewIsMessage DEF NewMessage, Send
  <2>2. sendMessage(c, NewMessage(c, to)) /\ UNCHANGED <<inHand, inbound, handled, calls>>
    BY <1>3 DEF Send, readVars, pumpVars, serverVars
  <2> QED BY <1>1, <2>1, <2>2, SendingMails
<1> QED BY <1>2, <1>3

(* What the pump takes is in its hand, and no more in its queue.           *)
LEMMA TakingMails ==
  ASSUME MailInv, NEW c \in Clients, TakeMessage(c)
  PROVE  MailInv' /\ UNCHANGED MB!mailVars
<1> USE DEF MailInv
<1>1. /\ UNCHANGED <<sent, accepted, handled, calls, inbound>>
      /\ sendChan[c] \in Seq(Message) /\ sendChan[c] # << >>
      /\ inHand[c] = << >>
  BY DEF TakeMessage, readVars, serverVars, ClientInv, TypeOK
<1>2. ClientInv'
  BY PumpKeepsClients
<1>3. /\ \A d \in Clients \ {c} : sendChan'[d] = sendChan[d] /\ inHand'[d] = inHand[d]
      /\ sendChan'[c] = Tail(sendChan[c])
      /\ inHand'[c] = <<sendChan[c][1]>> /\ 1 \in DOMAIN sendChan[c]
  BY <1>1 DEF TakeMessage, ClientInv, TypeOK
<1>4. \A i \in DOMAIN sendChan'[c] :
        /\ i \in Nat /\ i >= 1 /\ i + 1 \in DOMAIN sendChan[c]
        /\ sendChan'[c][i] = sendChan[c][i + 1]
  BY <1>1, <1>3
<1>5. Known' /\ InboundOK' /\ InboundOnce'
  BY <1>1 DEF Known, InboundOK, InboundOnce
<1>6. QueueOK' /\ QueueUnseen'
  <2> SUFFICES ASSUME NEW d \in Clients, NEW i \in DOMAIN sendChan'[d]
               PROVE  /\ sendChan'[d][i] \in accepted /\ sendChan'[d][i].from = d
                      /\ Unseen(sendChan'[d][i])
    BY <1>1 DEF QueueOK, QueueUnseen, Unseen
  <2>1. CASE d = c
    BY <1>4, <2>1 DEF QueueOK, QueueUnseen
  <2>2. CASE d # c
    BY <1>3, <2>2 DEF QueueOK, QueueUnseen
  <2> QED BY <2>1, <2>2
<1>7. QueueOnce'
  <2> SUFFICES ASSUME NEW d \in Clients, NEW i \in DOMAIN sendChan'[d], NEW j \in DOMAIN sendChan'[d],
                      i # j
               PROVE  sendChan'[d][i] # sendChan'[d][j]
    BY DEF QueueOnce
  <2>1. CASE d = c
    <3>1. i + 1 # j + 1
      BY <1>4, <2>1
    <3> QED BY <1>4, <2>1, <3>1 DEF QueueOnce
  <2>2. CASE d # c
    BY <1>3, <2>2 DEF QueueOnce
  <2> QED BY <2>1, <2>2
<1>8. HandOK' /\ HandUnseen'
  <2> SUFFICES ASSUME NEW d \in Clients, inHand'[d] # << >>
               PROVE  /\ inHand'[d][1] \in accepted /\ inHand'[d][1].from = d
                      /\ \A i \in DOMAIN sendChan'[d] : sendChan'[d][i] # inHand'[d][1]
                      /\ Unseen(inHand'[d][1])
    BY <1>1 DEF HandOK, HandUnseen, Unseen
  <2>1. CASE d = c
    <3>1. inHand'[d][1] = sendChan[c][1] /\ 1 \in DOMAIN sendChan[c]
      BY <1>3, <2>1
    <3>2. \A i \in DOMAIN sendChan'[c] : i + 1 # 1
      BY <1>4
    <3> QED BY <1>4, <2>1, <3>1, <3>2 DEF QueueOK, QueueOnce, QueueUnseen
  <2>2. CASE d # c
    BY <1>3, <2>2 DEF HandOK, HandUnseen
  <2> QED BY <2>1, <2>2
<1> QED BY <1>1, <1>2, <1>5, <1>6, <1>7, <1>8 DEF MB!mailVars

(* What is written goes to clients that have not seen it.                  *)
LEMMA WritingMails ==
  ASSUME MailInv, NEW c \in Clients, Write(c) \/ WriteFails(c)
  PROVE  MailInv' /\ UNCHANGED MB!mailVars
<1> USE DEF MailInv
<1> DEFINE m == inHand[c][1]
<1>1. /\ UNCHANGED <<sent, accepted, handled, calls, sendChan>>
      /\ inHand[c] # << >>
      /\ inHand' = [inHand EXCEPT ![c] = << >>]
  BY DEF Write, WriteFails, readVars, sendVars
<1>2. ClientInv'
  BY PumpKeepsClients
<1>3. /\ inHand'[c] = << >>
      /\ \A d \in Clients \ {c} : inHand'[d] = inHand[d]
  BY <1>1 DEF ClientInv, TypeOK
<1>4. /\ m \in accepted /\ m.from = c /\ m \in Message
      /\ \A i \in DOMAIN sendChan[c] : sendChan[c][i] # m
      /\ Unseen(m)
  BY <1>1 DEF HandOK, HandUnseen, ClientInv, TypeOK
<1>5. \A d \in Clients :
        \/ inbound'[d] = inbound[d]
        \/ MB!IsFor(m, d) /\ inbound'[d] = Append(inbound[d], m)
  BY DEF Write, WriteFails, Relay, serverVars
<1> HIDE DEF m
<1>6. \A d \in Clients : \A j \in DOMAIN inbound'[d] :
        \/ j \in DOMAIN inbound[d] /\ inbound'[d][j] = inbound[d][j]
        \/ j = Len(inbound[d]) + 1 /\ inbound'[d][j] = m /\ MB!IsFor(m, d)
  <2> TAKE d \in Clients
  <2>1. inbound[d] \in Seq(Message)
    BY DEF ClientInv, TypeOK
  <2> QED BY <1>4, <1>5, <2>1
<1>7. Known' /\ QueueOK' /\ QueueOnce'
  BY <1>1 DEF Known, QueueOK, QueueOnce
<1>8. HandOK'
  BY <1>1, <1>3 DEF HandOK
<1>9. InboundOK'
  BY <1>1, <1>4, <1>6 DEF InboundOK, Unseen
<1>10. InboundOnce'
  <2> SUFFICES ASSUME NEW d \in Clients, NEW i \in DOMAIN inbound'[d], NEW j \in DOMAIN inbound'[d],
                      i # j
               PROVE  inbound'[d][i] # inbound'[d][j]
    BY DEF InboundOnce
  <2>1. CASE i \in DOMAIN inbound[d] /\ j \in DOMAIN inbound[d]
    <3>1. inbound[d] \in Seq(Message)
      BY DEF ClientInv, TypeOK
    <3>2. inbound'[d][i] = inbound[d][i] /\ inbound'[d][j] = inbound[d][j]
      BY <1>6, <2>1, <3>1
    <3> QED BY <2>1, <3>2 DEF InboundOnce
  <2>2. CASE ~(i \in DOMAIN inbound[d] /\ j \in DOMAIN inbound[d])
    BY <1>4, <1>6, <2>2 DEF Unseen
  <2> QED BY <2>1, <2>2
<1>11. ASSUME NEW k, k # m, Unseen(k)
       PROVE  \A d \in Clients : k \notin handled[d] /\ \A j \in DOMAIN inbound'[d] : inbound'[d][j] # k
  BY <1>6, <1>11 DEF Unseen
<1>12. QueueUnseen'
  <2> SUFFICES ASSUME NEW d \in Clients, NEW i \in DOMAIN sendChan[d]
               PROVE  \A e \in Clients : /\ sendChan[d][i] \notin handled[e]
                                         /\ \A j \in DOMAIN inbound'[e] : inbound'[e][j] # sendChan[d][i]
    BY <1>1 DEF QueueUnseen, Unseen
  <2>1. sendChan[d][i] # m
    BY <1>4 DEF QueueOK
  <2> QED BY <1>11, <2>1 DEF QueueUnseen
<1>13. HandUnseen'
  <2> SUFFICES ASSUME NEW d \in Clients, inHand'[d] # << >>
               PROVE  \A e \in Clients : /\ inHand'[d][1] \notin handled[e]
                                         /\ \A j \in DOMAIN inbound'[e] : inbound'[e][j] # inHand'[d][1]
    BY <1>1 DEF HandUnseen, Unseen
  <2>1. d # c /\ inHand'[d] = inHand[d]
    BY <1>3
  <2>2. inHand[d][1] # m
    BY <1>4, <2>1 DEF HandOK
  <2> QED BY <1>11, <2>1, <2>2 DEF HandUnseen
<1> QED BY <1>1, <1>2, <1>7, <1>8, <1>9, <1>10, <1>12, <1>13 DEF MB!mailVars

(* A message is read, and a handler started for it, once.                  *)
LEMMA ReadingMails ==
  ASSUME MailInv, NEW c \in Clients, Read(c)
  PROVE  MailInv' /\ [MB!MailNext]_(MB!mailVars)
<1> USE DEF MailInv
<1> DEFINE m == inbound[c][1]
<1>1. /\ UNCHANGED <<sent, accepted, sendChan, inHand>>
      /\ inbound[c] \in Seq(Message) /\ inbound[c] # << >>
      /\ inbound' = [inbound EXCEPT ![c] = Tail(@)]
      /\ 1 \in DOMAIN inbound[c]
      /\ Dispatch(c, m)
  BY DEF Read, sendVars, pumpVars, ClientInv, TypeOK
<1>2. ClientInv'
  BY ReadingKeepsClients
<1>3. m \in accepted \ handled[c] /\ MB!IsFor(m, c)
  BY <1>1 DEF InboundOK
<1>4. /\ \A d \in Clients \ {c} : inbound'[d] = inbound[d]
      /\ inbound'[c] = Tail(inbound[c])
  BY <1>1 DEF ClientInv, TypeOK
<1>5. \A j \in DOMAIN inbound'[c] :
        /\ j \in Nat /\ j >= 1 /\ j + 1 \in DOMAIN inbound[c] /\ j + 1 # 1
        /\ inbound'[c][j] = inbound[c][j + 1]
  <2>1. ASSUME NEW s \in Seq(Message), s # << >>, NEW j \in DOMAIN Tail(s)
        PROVE  j \in Nat /\ j >= 1 /\ j + 1 \in DOMAIN s /\ j + 1 # 1 /\ Tail(s)[j] = s[j + 1]
    BY <2>1
  <2> QED BY <1>1, <1>4, <2>1
<1>6. \A j \in DOMAIN inbound'[c] : inbound'[c][j] # m
  BY <1>1, <1>5 DEF InboundOnce
<1>7. ~Unseen(m)
  BY <1>1 DEF Unseen
<1>8. \/ UNCHANGED <<handled, calls>>
      \/ /\ handled' = [handled EXCEPT ![c] = @ \cup {m}]
         /\ calls' = [calls EXCEPT ![c] = @ + 1]
  BY <1>1 DEF Dispatch, Start, readVars
<1> HIDE DEF m
<1>9. \A d \in Clients : /\ handled'[d] \subseteq handled[d] \cup {m}
                         /\ d # c => handled'[d] = handled[d]
  BY <1>8 DEF ClientInv, TypeOK
<1>10. Known' /\ QueueOK' /\ QueueOnce' /\ HandOK'
  BY <1>1, <1>3, <1>9 DEF Known, QueueOK, QueueOnce, HandOK
<1>11. InboundOK'
  <2> SUFFICES ASSUME NEW d \in Clients, NEW j \in DOMAIN inbound'[d]
               PROVE  inbound'[d][j] \in accepted \ handled'[d] /\ MB!IsFor(inbound'[d][j], d)
    BY <1>1 DEF InboundOK
  <2>1. CASE d = c
    BY <1>5, <1>6, <1>9, <2>1 DEF InboundOK
  <2>2. CASE d # c
    BY <1>4, <1>9, <2>2 DEF InboundOK
  <2> QED BY <2>1, <2>2
<1>12. InboundOnce'
  <2> SUFFICES ASSUME NEW d \in Clients, NEW i \in DOMAIN inbound'[d], NEW j \in DOMAIN inbound'[d],
                      i # j
               PROVE  inbound'[d][i] # inbound'[d][j]
    BY DEF InboundOnce
  <2>1. CASE d = c
    <3>1. i + 1 # j + 1
      BY <1>5, <2>1
    <3> QED BY <1>5, <2>1, <3>1 DEF InboundOnce
  <2>2. CASE d # c
    BY <1>4, <2>2 DEF InboundOnce
  <2> QED BY <2>1, <2>2
<1>13. ASSUME NEW k, Unseen(k)
       PROVE  \A d \in Clients : k \notin handled'[d] /\ \A j \in DOMAIN inbound'[d] : inbound'[d][j] # k
  <2>1. k # m
    BY <1>7, <1>13
  <2>2. \A d \in Clients : \A j \in DOMAIN inbound'[d] : inbound'[d][j] # k
    BY <1>4, <1>5, <1>13 DEF Unseen
  <2> QED BY <1>9, <1>13, <2>1, <2>2 DEF Unseen
<1>14. QueueUnseen' /\ HandUnseen'
  <2> SUFFICES ASSUME NEW d \in Clients
               PROVE  /\ \A i \in DOMAIN sendChan[d] : \A e \in Clients :
                           /\ sendChan[d][i] \notin handled'[e]
                           /\ \A j \in DOMAIN inbound'[e] : inbound'[e][j] # sendChan[d][i]
                      /\ inHand[d] # << >> => \A e \in Clients :
                           /\ inHand[d][1] \notin handled'[e]
                           /\ \A j \in DOMAIN inbound'[e] : inbound'[e][j] # inHand[d][1]
    BY <1>1 DEF QueueUnseen, HandUnseen, Unseen
  <2>1. /\ \A i \in DOMAIN sendChan[d] : Unseen(sendChan[d][i])
        /\ inHand[d] # << >> => Unseen(inHand[d][1])
    BY DEF QueueUnseen, HandUnseen
  <2> QED BY <1>13, <2>1
<1>15. [MB!MailNext]_(MB!mailVars)
  BY <1>1, <1>3, <1>8 DEF MB!MailNext, MB!Handle, MB!mailVars
<1> QED BY <1>2, <1>10, <1>11, <1>12, <1>14, <1>15

LEMMA OthersMail ==
  ASSUME MailInv,
         \/ \E c \in Clients : StartReading(c) \/ SetCallbacks(c) \/ ReadFails(c) \/ LoseConnection(c)
         \/ UNCHANGED vars
  PROVE  MailInv' /\ UNCHANGED MB!mailVars
<1> USE DEF MailInv
<1>1. ClientInv'
  BY ClientStep DEF Next, Client
<1>2. UNCHANGED <<sent, accepted, sendChan, inHand, handled, calls>>
  BY DEF StartReading, SetCallbacks, ReadFails, LoseConnection, vars, sendVars, readVars, pumpVars
<1>3. \A d \in Clients : inbound'[d] = inbound[d] \/ inbound'[d] = << >>
  BY DEF StartReading, SetCallbacks, ReadFails, LoseConnection, vars, serverVars, ClientInv, TypeOK
<1>4. \A d \in Clients : \A j \in DOMAIN inbound'[d] : inbound'[d] = inbound[d]
  BY <1>3
<1>5. Known' /\ QueueOK' /\ QueueOnce' /\ HandOK'
  BY <1>2 DEF Known, QueueOK, QueueOnce, HandOK
<1>6. InboundOK' /\ InboundOnce'
  BY <1>2, <1>4 DEF InboundOK, InboundOnce
<1>7. QueueUnseen' /\ HandUnseen'
  BY <1>2, <1>4 DEF QueueUnseen, HandUnseen, Unseen
<1> QED BY <1>1, <1>2, <1>5, <1>6, <1>7 DEF MB!mailVars

LEMMA MailStep == MailInv /\ [Next]_vars => MailInv' /\ [MB!MailNext]_(MB!mailVars)
<1> SUFFICES ASSUME MailInv, [Next]_vars PROVE MailInv' /\ [MB!MailNext]_(MB!mailVars)
  OBVIOUS
<1>1. ASSUME NEW c \in Clients, Client(c) PROVE MailInv' /\ [MB!MailNext]_(MB!mailVars)
  BY <1>1, SendersMail, TakingMails, WritingMails, ReadingMails, OthersMail DEF Client
<1>2. CASE UNCHANGED vars
  BY <1>2, OthersMail
<1> QED BY <1>1, <1>2 DEF Next

(***************************************************************************)
(* Two queues, a pump, a server that broadcasts and one goroutine for each *)
(* message implement the mailbox that the layers above rely on.            *)
(***************************************************************************)
THEOREM ClientsImplementMailbox == Spec => ImplementsMailbox
  BY MailInit, MailStep, PTL DEF Spec, ImplementsMailbox, MB!MailSpec
=============================================================================
