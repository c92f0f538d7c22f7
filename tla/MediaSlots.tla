----------------------------- MODULE MediaSlots -----------------------------
(***************************************************************************)
(* What the RTSP bridge promises about its sources, without its locks and  *)
(* its bookkeeping: of the tracks alive at the same time at most one owns  *)
(* the slot of its kind (video or audio).  Ownership is taken when a slot  *)
(* is free or held by a track of the same stream, it ends when the owner   *)
(* stops, and only an owner may have a packet admitted to the output.      *)
(* RTPBridge implements it.                                                *)
(***************************************************************************)
CONSTANTS
  Tracks, Kinds,
  KindOf,     \* the kind of each track
  StreamOf,   \* the stream it belongs to
  None        \* no track

VARIABLES
  live,      \* tracks started and not stopped
  owner,     \* the track served for each kind, or None
  admitted   \* tracks with one packet admitted and not yet delivered

slotVars == <<live, owner, admitted>>

Init ==
  /\ live = {}
  /\ owner = [k \in Kinds |-> None]
  /\ admitted = {}

MayOwn(t) ==
  LET o == owner[KindOf[t]] IN o = None \/ StreamOf[o] = StreamOf[t]

Start(t) ==
  /\ t \notin live
  /\ live' = live \cup {t}
  /\ owner' = IF MayOwn(t) THEN [owner EXCEPT ![KindOf[t]] = t] ELSE owner
  /\ UNCHANGED admitted

Admit(t) ==
  /\ owner[KindOf[t]] = t
  /\ admitted' = admitted \cup {t}
  /\ UNCHANGED <<live, owner>>

Deliver(t) ==
  /\ t \in admitted
  /\ admitted' = admitted \ {t}
  /\ UNCHANGED <<live, owner>>

Stop(t) ==
  /\ t \in live \ admitted
  /\ live' = live \ {t}
  /\ owner' = [k \in Kinds |-> IF owner[k] = t THEN None ELSE owner[k]]
  /\ UNCHANGED admitted

Next == \E t \in Tracks : Start(t) \/ Admit(t) \/ Deliver(t) \/ Stop(t)

Spec == Init /\ [][Next]_slotVars
=============================================================================
