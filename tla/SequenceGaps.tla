---------------------------- MODULE SequenceGaps ----------------------------
(***************************************************************************)
(* Loss reports: what a goroutine that reads a video track does with the   *)
(* sequence number of each packet.  checkSequenceGap compares it with the  *)
(* last one and returns the numbers in between, which SendNACK packs into  *)
(* pairs of a base and a bitmap.                                           *)
(*                                                                         *)
(* There are two versions of checkSequenceGap, one for tracks of peers     *)
(* (receiver/stats.go, which compares signed) and one for OBS tracks       *)
(* (stream/broadcaster.go, which does not).  Packets are counted here      *)
(* without wrapping around, so that the properties can tell them apart;    *)
(* the code only sees Wire(n).                                             *)
(***************************************************************************)
EXTENDS Integers, Sequences

CONSTANTS
  SeqSpace,        \* number of sequence numbers (2^16)
  NackBitmapSize,  \* bits of a NACK pair (16)
  RestartGap,      \* OBS: a wider gap is taken for a restart (100)
  MaxDelay,        \* how far behind the newest a packet may arrive
  MaxJump,         \* how far ahead
  MaxSent,         \* bound on the packets the source sends
  MaxArrivals,     \* bound on the packets that arrive
  Nil

Half == SeqSpace \div 2
SeqNums == 0 .. SeqSpace - 1

ASSUME SpaceAssumption == SeqSpace \in Nat \ {0} /\ SeqSpace = 2 * Half
ASSUME BoundAssumption ==
  /\ NackBitmapSize \in Nat \ {0}
  /\ RestartGap \in 0 .. Half - 1
  /\ MaxSent \in Nat /\ MaxArrivals \in Nat
ASSUME WindowAssumption == MaxDelay \in 0 .. Half /\ MaxJump \in 1 .. Half - 1
ASSUME NilAssumption == Nil \notin Int

VARIABLES
  signed,    \* which version of checkSequenceGap the reader calls
  last,      \* lastSequenceNumber (lastSeq), Nil before the first packet
  arrivals,  \* number of packets that have arrived
  received,  \* history: the packets that have arrived
  first,     \* history: the first of them
  latest,    \* history: the one that arrived last
  asking,    \* history: the packets asked for when the latest one arrived
  asked,     \* history: the packets asked for before that
  skipped    \* history: those that an OBS reader stepped over as at a restart

vars == <<signed, last, arrivals, received, first, latest, asking, asked, skipped>>

Init ==
  /\ signed \in BOOLEAN
  /\ last = Nil
  /\ arrivals = 0
  /\ received = {}
  /\ first = Nil /\ latest = Nil
  /\ asking = {} /\ asked = {} /\ skipped = {}

Wire(n) == n % SeqSpace
Ahead(w) == (w - last) % SeqSpace
Newest == CHOOSE n \in received : \A m \in received : m <= n

-----------------------------------------------------------------------------
(* checkSequenceGap.                                                       *)

(* int16(diff) > 1 in one version, diff <= 100 in the other.               *)
ReportsGap(w) ==
  Ahead(w) > 1 /\ (IF signed THEN Ahead(w) < Half ELSE Ahead(w) <= RestartGap)

Advances(w) == signed => Ahead(w) < Half

MissingBefore_FromLast(w) ==
  IF ReportsGap(w)
    THEN [i \in 1 .. Ahead(w) - 1 |-> (last + i - 1) % SeqSpace]
    ELSE << >>
MissingBefore(w) ==
  IF ReportsGap(w)
    THEN [i \in 1 .. Ahead(w) - 1 |-> (last + i) % SeqSpace]
    ELSE << >>

-----------------------------------------------------------------------------
(* SendNACK.                                                               *)

Distance(from, to) == (to - from) % SeqSpace

(* Whether the number fits the bitmap of a pair with that base.            *)
Fits_OneMore(base, w) == Distance(base, w) <= NackBitmapSize + 1
Fits(base, w) == Distance(base, w) <= NackBitmapSize

(* The first position after i whose number needs a pair of its own.        *)
NextBase(missing, i) ==
  CHOOSE j \in i + 1 .. Len(missing) + 1 :
    /\ j <= Len(missing) => ~Fits(missing[i], missing[j])
    /\ \A k \in i + 1 .. j - 1 : Fits(missing[i], missing[k])

(* 1 << (diff - 1) in 16 bits: what is shifted further is lost.            *)
Bitmap(missing, i) ==
  {Distance(missing[i], missing[k]) - 1 : k \in i + 1 .. NextBase(missing, i) - 1}
    \cap 0 .. NackBitmapSize - 1

NackPairs(missing) ==
  LET pairs[i \in 1 .. Len(missing) + 1] ==
        IF i > Len(missing)
          THEN {}
          ELSE {[base |-> missing[i], bitmap |-> Bitmap(missing, i)]}
                 \cup pairs[NextBase(missing, i)]
  IN  pairs[1]

(* How the sender of the track reads the pairs.                            *)
Requested(pairs) ==
  UNION {{p.base} \cup {(p.base + b + 1) % SeqSpace : b \in p.bitmap} : p \in pairs}

-----------------------------------------------------------------------------

(* The packet that a number means, to someone who has just received n.     *)
MeantBy(w, n) == n - ((Wire(n) - w) % SeqSpace)

Between(lo, hi) == lo + 1 .. hi - 1

(* A packet arrives: in order, after others were lost, late or twice, as   *)
(* what was asked for does.                                                *)
Arrive(n) ==
  /\ arrivals < MaxArrivals
  /\ received # {} => n \in Newest - MaxDelay .. Newest + MaxJump
  /\ arrivals' = arrivals + 1
  /\ received' = received \cup {n}
  /\ latest' = n
  /\ asked' = asked \cup asking
  /\ IF last = Nil
       THEN last' = Wire(n) /\ first' = n /\ asking' = {} /\ UNCHANGED skipped
       ELSE /\ asking' = {MeantBy(w, n) : w \in Requested(NackPairs(MissingBefore(Wire(n))))}
            /\ last' = IF Advances(Wire(n)) THEN Wire(n) ELSE last
            /\ skipped' = IF ~signed /\ n - latest > RestartGap
                            THEN skipped \cup Between(latest, n)
                            ELSE skipped
            /\ UNCHANGED first
  /\ UNCHANGED signed

Next == \E n \in 0 .. MaxSent : Arrive(n)

Spec == Init /\ [][Next]_vars

-----------------------------------------------------------------------------
(* Properties.                                                             *)

(***************************************************************************)
(* Every packet between the first one and the newest has arrived or has    *)
(* been asked for, however late others come: nothing falls between two     *)
(* pairs, out of a bitmap, or through the wrap-around of sequence numbers. *)
(* Except at an OBS track, what lies in a step of more than RestartGap     *)
(* ahead of the packet before; since checkSequenceGap of the broadcaster   *)
(* goes back with a late packet, the step from that one counts.            *)
(***************************************************************************)
HolesAreAsked ==
  received # {} =>
    \A n \in Between(first, Newest) :
      n \in received \cup asked \cup asking \/ (~signed /\ n \in skipped)

(* The last packet of an OBS track came late, so that its reader counts    *)
(* from there.                                                             *)
WentBack == ~signed /\ received # {} /\ latest # Newest

(***************************************************************************)
(* Only packets that have not arrived are asked for, none twice, and only  *)
(* such as were sent after the first one that arrived.  Except by the OBS  *)
(* reader right after a late packet: it may ask again, and for what has    *)
(* arrived, but for no more than lies between that packet and the next,    *)
(* and for nothing when those are more than RestartGap apart.              *)
(***************************************************************************)
AsksOnlyForMissing ==
  [][IF WentBack
       THEN asking' # {} => /\ latest' - latest <= RestartGap
                            /\ asking' \subseteq Between(latest, latest')
       ELSE /\ asking' \cap (received' \cup asked') = {}
            /\ \A n \in asking' : first' < n /\ n < Newest']_vars
=============================================================================
