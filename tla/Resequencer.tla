---------------------------- MODULE Resequencer ----------------------------
(***************************************************************************)
(* What the way from WriteRTP to the RTSP server promises, without its     *)
(* channel, buffers, batches and clock: a packet that is offered waits or  *)
(* is lost; one that waits is sent or lost, once; and what is sent of a    *)
(* kind is one stream, whatever the sources do.  RTSPBuffer implements it. *)
(***************************************************************************)
EXTENDS Integers, SequencesExt

CONSTANTS Kinds, SeqSpace, TSSpace, MaxTimestampDelta

VARIABLES
  offered,  \* number of packets offered; a packet's id is its number
  waiting,  \* packets that may still be sent: [id, kind, seq, ts]
  sent      \* by kind, what was sent

streamVars == <<offered, waiting, sent>>

Init ==
  /\ offered = 0
  /\ waiting = {}
  /\ sent = [k \in Kinds |-> << >>]

Take(p) ==
  /\ p.id = offered + 1
  /\ offered' = offered + 1
  /\ waiting' = waiting \cup {p}
  /\ UNCHANGED sent

Refuse == offered' = offered + 1 /\ UNCHANGED <<waiting, sent>>

Lose == waiting' \subseteq waiting /\ UNCHANGED <<offered, sent>>

(* What may be sent after a: it has the next number and a timestamp that   *)
(* advances as the source's does or not at all; and it is the successor of *)
(* a at the source too, unless it has grown stale waiting for that one.    *)
Continues(a, b) ==
  LET step == (b.inTS - a.inTS) % TSSpace
  IN  /\ b.seq = (a.seq + 1) % SeqSpace
      /\ (b.ts - a.ts) % TSSpace = IF step <= MaxTimestampDelta THEN step ELSE 0
      /\ b.orig = (a.orig + 1) % SeqSpace \/ b.stale

Send(p, out) ==
  /\ p \in waiting
  /\ out.id = p.id /\ out.orig = p.seq /\ out.inTS = p.ts
  /\ sent[p.kind] # << >> => Continues(Last(sent[p.kind]), out)
  /\ sent' = [sent EXCEPT ![p.kind] = Append(@, out)]
  /\ waiting' = waiting \ {p}
  /\ UNCHANGED offered

(* Of a step, what was taken or sent can be read off the new state.        *)
Next ==
  \/ \E p \in waiting' : Take(p)
  \/ Refuse
  \/ Lose
  \/ \E p \in waiting : sent'[p.kind] # << >> /\ Send(p, Last(sent'[p.kind]))

Spec == Init /\ [][Next]_streamVars
=============================================================================
