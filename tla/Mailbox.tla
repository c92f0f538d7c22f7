-------------------------------- MODULE Mailbox --------------------------------
(***************************************************************************)
(* What the signaling layer promises to the code above it: a message that  *)
(* a Send function has accepted is handled by whom it is for, at most once *)
(* each, in any order and perhaps never; a refused one is never handled.   *)
(***************************************************************************)
EXTENDS Naturals

CONSTANTS
  Clients,
  Room        \* stands for every other client

ASSUME RoomAssumption == Room \notin Clients

VARIABLES
  posted,     \* accepted messages: records with fields from and to
  handled,    \* by client, the messages it has begun to handle
  calls       \* by client, how often it has begun to handle one

mailVars == <<posted, handled, calls>>

IsFor(m, c) == m.to = c \/ (m.to = Room /\ m.from # c)

MailInit ==
  /\ posted = {}
  /\ handled = [c \in Clients |-> {}] /\ calls = [c \in Clients |-> 0]

Post(ms) == posted' = posted \cup ms /\ UNCHANGED <<handled, calls>>

Handle(c, m) ==
  /\ m \in posted \ handled[c]
  /\ IsFor(m, c)
  /\ handled' = [handled EXCEPT ![c] = @ \cup {m}]
  /\ calls' = [calls EXCEPT ![c] = @ + 1]
  /\ UNCHANGED posted

MailNext ==
  \/ \E m \in posted' : Post({m})
  \/ \E c \in Clients : \E m \in posted : Handle(c, m)

MailSpec == MailInit /\ [][MailNext]_mailVars
=============================================================================
