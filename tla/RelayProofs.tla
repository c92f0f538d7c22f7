----------------------------- MODULE RelayProofs -----------------------------
(***************************************************************************)
(* Theorems about Relay, for any readers, relays, buffers and capacities:  *)
(* the copies for the RTSP server are intact and their number is bounded,  *)
(* and what a relay writes of a source never goes back.                    *)
(***************************************************************************)
EXTENDS Relay, FiniteSetTheorems, TLAPS

Copy == [reader : Readers, n : Nat, cell : Cells]
Held == [header : Nat, payload : Nat]

ReadersOK ==
  /\ at \in [Readers -> {"read", "parse", "fanout"}]
  /\ count \in [Readers -> Nat]
  /\ mem \in [Readers -> Held]

(* What is read is in memory whole once it has been parsed.                *)
MemoryIs ==
  \A r \in Readers :
    /\ mem[r].header <= mem[r].payload
    /\ mem[r].payload = count[r]
    /\ at[r] = "fanout" => mem[r].header = count[r]

PoolOK ==
  /\ packetPool \in SUBSET Cells
  /\ cell \in [Cells -> Seq(Readers \cup Nat)]
  /\ rtpChan \in Seq(Copy)
  /\ held \in SUBSET Copy
  /\ sending = << >> \/ \E p \in Copy : sending = <<p>>

(* A buffer is in one place: the pool, or one packet that is on its way.   *)
QueueApart ==
  \A i, j \in DOMAIN rtpChan : i # j => rtpChan[i].cell # rtpChan[j].cell
HeldApart == \A p, q \in held : p.cell = q.cell => p = q
QueueFree ==
  \A i \in DOMAIN rtpChan :
    /\ rtpChan[i].cell \notin packetPool
    /\ \A p \in held \cup ToSet(sending) : rtpChan[i].cell # p.cell
HeldFree ==
  \A p \in held : p.cell \notin packetPool /\ \A q \in ToSet(sending) : p.cell # q.cell
SendingFree == \A q \in ToSet(sending) : q.cell \notin packetPool

Intact(p) == cell[p.cell] = <<p.reader, p.n>>
AllIntact ==
  /\ \A i \in DOMAIN rtpChan : Intact(rtpChan[i])
  /\ \A p \in held \cup ToSet(sending) : Intact(p)

CopyInv ==
  /\ ReadersOK /\ MemoryIs
  /\ PoolOK
  /\ QueueApart /\ HeldApart /\ QueueFree /\ HeldFree /\ SendingFree
  /\ AllIntact

LEMMA OneElement == \A x : ToSet(<<x>>) = {x}
  BY DEF ToSet

LEMMA NoElement == ToSet(<< >>) = {}
  BY DEF ToSet

LEMMA CopyInit == Init => CopyInv
  BY NoElement, RelayAssumption DEF Init, CopyInv, ReadersOK, MemoryIs, PoolOK, QueueApart, HeldApart,
     QueueFree, HeldFree, SendingFree, AllIntact, Held, Copy

(* The steps of a reader up to its copy change only what it reads.         *)
LEMMA ReadingKeepsCopies ==
  ASSUME CopyInv, NEW r \in Readers,
         ReadPacket(r) \/ StartBroadcast(r) \/ \E l \in Relays : CallListener(r, l)
  PROVE  CopyInv'
<1> USE DEF CopyInv
<1>1. UNCHANGED <<poolVars, sendVars>>
  BY DEF ReadPacket, StartBroadcast, CallListener
<1>2. ReadersOK' /\ MemoryIs'
  <2>1. CASE ReadPacket(r)
    BY <2>1 DEF ReadPacket, ReadersOK, MemoryIs, Held
  <2>2. CASE StartBroadcast(r)
    BY <2>2 DEF StartBroadcast, ReadersOK, MemoryIs, Held
  <2>3. CASE \E l \in Relays : CallListener(r, l)
    BY <2>3 DEF CallListener, ReadersOK, MemoryIs
  <2> QED BY <2>1, <2>2, <2>3
<1> QED
  BY <1>1, <1>2 DEF poolVars, sendVars, PoolOK, QueueApart, HeldApart, QueueFree, HeldFree,
     SendingFree, AllIntact, Intact

LEMMA CopyingKeepsCopies ==
  ASSUME CopyInv, NEW r \in Readers, CopyPacket(r)
  PROVE  CopyInv'
<1> USE DEF CopyInv
<1>1. PICK c \in packetPool :
        /\ cell' = [cell EXCEPT ![c] = <<r, mem[r].payload>>]
        /\ IF Len(rtpChan) < RtpCap
           THEN /\ rtpChan' = Append(rtpChan, [reader |-> r, n |-> mem[r].header, cell |-> c])
                /\ packetPool' = packetPool \ {c}
           ELSE UNCHANGED <<rtpChan, packetPool>>
  BY DEF CopyPacket
<1>2. c \in Cells /\ UNCHANGED <<count, mem, held, sending>> /\ at' = [at EXCEPT ![r] = "read"]
  BY DEF CopyPacket, PoolOK
<1>3. ReadersOK' /\ MemoryIs'
  BY <1>2 DEF ReadersOK, MemoryIs
<1>4. mem[r].payload = mem[r].header /\ mem[r].header \in Nat
  BY DEF CopyPacket, MemoryIs, ReadersOK, Held
<1>5. /\ cell' \in [Cells -> Seq(Readers \cup Nat)]
      /\ cell'[c] = <<r, mem[r].header>>
      /\ \A d \in Cells \ {c} : cell'[d] = cell[d]
  BY <1>1, <1>2, <1>4 DEF PoolOK
<1>6. /\ \A i \in DOMAIN rtpChan : rtpChan[i] \in Copy /\ rtpChan[i].cell # c
      /\ \A p \in held \cup ToSet(sending) : p \in Copy /\ p.cell # c
  <2>1. \A p \in ToSet(sending) : p \in Copy
    BY OneElement, NoElement DEF PoolOK
  <2> QED BY <2>1, <1>1 DEF PoolOK, QueueFree, HeldFree, SendingFree
<1>7. \A p \in Copy : p.cell # c => (Intact(p) <=> cell'[p.cell] = <<p.reader, p.n>>)
  BY <1>5 DEF Intact, Copy
<1>8. CASE Len(rtpChan) < RtpCap
  <2> DEFINE new == [reader |-> r, n |-> mem[r].header, cell |-> c]
  <2>1. new \in Copy /\ rtpChan' = Append(rtpChan, new) /\ packetPool' = packetPool \ {c}
    BY <1>1, <1>2, <1>4, <1>8 DEF Copy
  <2>2. /\ rtpChan' \in Seq(Copy)
        /\ DOMAIN rtpChan' = DOMAIN rtpChan \cup {Len(rtpChan) + 1}
        /\ \A i \in DOMAIN rtpChan : rtpChan'[i] = rtpChan[i]
        /\ rtpChan'[Len(rtpChan) + 1] = new
    BY <2>1 DEF PoolOK
  <2>3. new.cell = c /\ new.reader = r /\ new.n = mem[r].header
    OBVIOUS
  <2> HIDE DEF new
  <2>4. PoolOK'
    BY <1>2, <1>5, <2>1, <2>2 DEF PoolOK
  <2>5. QueueApart'
    BY <1>6, <2>2, <2>3 DEF QueueApart
  <2>6. HeldApart' /\ HeldFree' /\ SendingFree'
    BY <1>2, <2>1 DEF HeldApart, HeldFree, SendingFree
  <2>7. QueueFree'
    BY <1>2, <1>6, <2>1, <2>2, <2>3 DEF QueueFree
  <2>8. AllIntact'
    BY <1>2, <1>5, <1>6, <1>7, <2>2, <2>3 DEF AllIntact, Intact
  <2> QED BY <1>3, <2>4, <2>5, <2>6, <2>7, <2>8
<1>9. CASE ~(Len(rtpChan) < RtpCap)
  <2>1. UNCHANGED <<rtpChan, packetPool>>
    BY <1>1, <1>9
  <2>2. PoolOK' /\ QueueApart' /\ HeldApart' /\ QueueFree' /\ HeldFree' /\ SendingFree'
    BY <1>2, <1>5, <2>1 DEF PoolOK, QueueApart, HeldApart, QueueFree, HeldFree, SendingFree
  <2>3. AllIntact'
    BY <1>2, <1>6, <1>7, <2>1 DEF AllIntact, Intact
  <2> QED BY <1>3, <2>2, <2>3
<1> QED BY <1>8, <1>9

LEMMA AddingKeepsCopies == CopyInv /\ AddToBuffer => CopyInv'
<1> SUFFICES ASSUME CopyInv, AddToBuffer PROVE CopyInv'
  OBVIOUS
<1> USE DEF CopyInv
<1> DEFINE head == rtpChan[1]
<1>1. /\ rtpChan \in Seq(Copy) /\ Len(rtpChan) >= 1 /\ Head(rtpChan) = head
      /\ sending = << >> /\ sending' = << >>
      /\ UNCHANGED <<cell, at, count, mem>>
      /\ 1 \in DOMAIN rtpChan /\ head \in Copy
  BY DEF AddToBuffer, PoolOK, readVars
<1>2. /\ rtpChan' \in Seq(Copy)
      /\ \A i \in DOMAIN rtpChan' : i + 1 \in DOMAIN rtpChan /\ rtpChan'[i] = rtpChan[i + 1]
      /\ \A i \in DOMAIN rtpChan' : i \in Nat /\ i >= 1
  BY <1>1 DEF AddToBuffer
<1>3. \A p \in held : p.cell # head.cell
  BY <1>1 DEF QueueFree
<1>4. \A i \in DOMAIN rtpChan' : rtpChan'[i].cell # head.cell
  BY <1>1, <1>2 DEF QueueApart
<1>5. head.cell \notin packetPool
  BY <1>1 DEF QueueFree
<1> HIDE DEF head
<1>6. PICK out \in SUBSET held :
        /\ held' = (held \ out) \cup {head}
        /\ packetPool' = packetPool \cup {p.cell : p \in out}
  <2>1. CASE held' = held \cup {head} /\ packetPool' = packetPool
    <3>1. held' = (held \ {}) \cup {head} /\ packetPool' = packetPool \cup {p.cell : p \in {}}
      BY <2>1
    <3> QED BY <3>1
  <2>2. CASE \E old \in held :
               held' = (held \ {old}) \cup {head} /\ packetPool' = packetPool \cup {old.cell}
    <3>1. PICK old \in held : held' = (held \ {old}) \cup {head} /\ packetPool' = packetPool \cup {old.cell}
      BY <2>2
    <3>2. packetPool' = packetPool \cup {p.cell : p \in {old}}
      BY <3>1
    <3>3. {old} \in SUBSET held
      BY <3>1
    <3> QED BY <3>1, <3>2, <3>3
  <2> QED BY <1>1, <2>1, <2>2 DEF AddToBuffer
<1>7. \A p \in held \ out : p.cell \notin packetPool'
  BY <1>6 DEF HeldApart, HeldFree
<1>8. head.cell \notin packetPool'
  BY <1>3, <1>5, <1>6
<1>9. \A i \in DOMAIN rtpChan' : rtpChan'[i].cell \notin packetPool'
  <2> TAKE i \in DOMAIN rtpChan'
  <2>1. i + 1 \in DOMAIN rtpChan /\ rtpChan'[i] = rtpChan[i + 1]
    BY <1>2
  <2>2. rtpChan[i + 1].cell \notin packetPool /\ \A p \in held : rtpChan[i + 1].cell # p.cell
    BY <2>1 DEF QueueFree
  <2> QED BY <2>1, <2>2, <1>6
<1>10. ReadersOK' /\ MemoryIs'
  BY <1>1 DEF ReadersOK, MemoryIs
<1>11. PoolOK'
  <2>1. packetPool' \in SUBSET Cells /\ held' \in SUBSET Copy
    BY <1>1, <1>6 DEF PoolOK, Copy
  <2> QED BY <1>1, <1>2, <2>1 DEF PoolOK
<1>12. QueueApart'
  <2> SUFFICES ASSUME NEW i \in DOMAIN rtpChan', NEW j \in DOMAIN rtpChan', i # j
               PROVE  rtpChan'[i].cell # rtpChan'[j].cell
    BY DEF QueueApart
  <2>1. i + 1 # j + 1
    BY <1>2
  <2> QED BY <1>2, <2>1 DEF QueueApart
<1>13. HeldApart'
  BY <1>3, <1>6 DEF HeldApart
<1>14. QueueFree'
  <2> SUFFICES ASSUME NEW i \in DOMAIN rtpChan', NEW p \in held'
               PROVE  rtpChan'[i].cell # p.cell
    BY <1>1, <1>9, NoElement DEF QueueFree
  <2>1. CASE p = head
    BY <1>4, <2>1
  <2>2. CASE p \in held
    BY <1>2, <2>2 DEF QueueFree
  <2> QED BY <1>6, <2>1, <2>2
<1>15. HeldFree' /\ SendingFree'
  BY <1>1, <1>6, <1>7, <1>8, NoElement DEF HeldFree, SendingFree
<1>16. AllIntact'
  <2>1. Intact(head) /\ \A p \in held : Intact(p)
    BY <1>1 DEF AllIntact, head
  <2>2. \A i \in DOMAIN rtpChan' : Intact(rtpChan'[i])
    BY <1>2 DEF AllIntact
  <2> QED BY <1>1, <1>6, <2>1, <2>2, NoElement DEF AllIntact, Intact
<1> QED BY <1>10, <1>11, <1>12, <1>13, <1>14, <1>15, <1>16

LEMMA FlushingKeepsCopies == CopyInv /\ Flush => CopyInv'
<1> SUFFICES ASSUME CopyInv, Flush PROVE CopyInv'
  OBVIOUS
<1> USE DEF CopyInv
<1>1. /\ UNCHANGED <<rtpChan, packetPool, cell, at, count, mem>>
      /\ ToSet(sending) = {}
  BY NoElement DEF Flush, poolVars, readVars
<1>2. PICK p \in held : held' = held \ {p} /\ sending' = <<p>>
  BY DEF Flush
<1>3. p \in Copy /\ ToSet(sending') = {p}
  BY <1>2, OneElement DEF PoolOK
<1>4. ReadersOK' /\ MemoryIs' /\ PoolOK'
  BY <1>1, <1>2, <1>3 DEF ReadersOK, MemoryIs, PoolOK
<1>5. QueueApart' /\ HeldApart' /\ QueueFree' /\ HeldFree' /\ SendingFree'
  BY <1>1, <1>2, <1>3 DEF QueueApart, HeldApart, QueueFree, HeldFree, SendingFree
<1>6. AllIntact'
  BY <1>1, <1>2, <1>3 DEF AllIntact, Intact
<1> QED BY <1>4, <1>5, <1>6

LEMMA PuttingKeepsCopies == CopyInv /\ PutAfterWrite => CopyInv'
<1> SUFFICES ASSUME CopyInv, PutAfterWrite PROVE CopyInv'
  OBVIOUS
<1> USE DEF CopyInv
<1>1. UNCHANGED <<rtpChan, held, cell, at, count, mem>>
  BY DEF PutAfterWrite, readVars
<1>2. PICK p \in Copy : sending = <<p>>
  BY DEF PutAfterWrite, PoolOK
<1>3. ToSet(sending) = {p} /\ ToSet(sending') = {} /\ sending' = << >>
      /\ packetPool' = packetPool \cup {p.cell}
  BY <1>2, OneElement, NoElement DEF PutAfterWrite
<1>4. ReadersOK' /\ MemoryIs' /\ PoolOK'
  BY <1>1, <1>2, <1>3 DEF ReadersOK, MemoryIs, PoolOK, Copy
<1>5. QueueApart' /\ HeldApart' /\ QueueFree' /\ HeldFree' /\ SendingFree'
  BY <1>1, <1>3 DEF QueueApart, HeldApart, QueueFree, HeldFree, SendingFree
<1>6. AllIntact'
  BY <1>1, <1>3 DEF AllIntact, Intact
<1> QED BY <1>4, <1>5, <1>6

LEMMA OthersKeepCopies ==
  ASSUME CopyInv, (\E l \in Relays : Relaying(l)) \/ UNCHANGED vars
  PROVE  CopyInv'
<1>1. UNCHANGED <<at, count, mem, packetPool, cell, rtpChan, held, sending>>
  BY DEF Relaying, StartRelay, CloseRelay, TakePacket, WriteHeader, WritePayload, EndRelay,
     vars, readVars, poolVars, sendVars
<1> QED
  BY <1>1 DEF CopyInv, ReadersOK, MemoryIs, PoolOK, QueueApart, HeldApart, QueueFree, HeldFree,
     SendingFree, AllIntact, Intact

LEMMA CopyStep == CopyInv /\ [Next]_vars => CopyInv'
<1> SUFFICES ASSUME CopyInv, [Next]_vars PROVE CopyInv'
  OBVIOUS
<1>1. ASSUME NEW r \in Readers, ReadPacket(r) \/ Reader(r) PROVE CopyInv'
  BY <1>1, ReadingKeepsCopies, CopyingKeepsCopies DEF Reader
<1>2. CASE (\E l \in Relays : Relaying(l)) \/ UNCHANGED vars
  BY <1>2, OthersKeepCopies
<1>3. CASE AddToBuffer \/ Flush \/ PutAfterWrite
  BY <1>3, AddingKeepsCopies, FlushingKeepsCopies, PuttingKeepsCopies
<1> QED BY <1>1, <1>2, <1>3 DEF Next

LEMMA CopiesInvariant == Spec => []CopyInv
  BY CopyInit, CopyStep, PTL DEF Spec

(***************************************************************************)
(* The packet that WriteRTP copied is what the RTSP server is written,     *)
(* although its reader may reuse its memory and the pool its buffers.      *)
(***************************************************************************)
THEOREM CopiesStayIntact == Spec => []CopiesIntact
<1>1. CopyInv => CopiesIntact
  BY DEF CopyInv, AllIntact, Intact, CopiesIntact, ToSet
<1> QED BY <1>1, CopiesInvariant, PTL

-----------------------------------------------------------------------------
(* How many buffers are out.                                               *)

InUse == Cells \ packetPool
OnTheWay == Len(rtpChan) + Cardinality(held) + Len(sending)

(***************************************************************************)
(* Every buffer that is out belongs to a packet on its way; the channel    *)
(* and the buffer of the sender keep to their sizes, and the packet that   *)
(* is being written is one that the buffer has just given up.              *)
(***************************************************************************)
PoolInv ==
  /\ IsFiniteSet(held)
  /\ Cardinality(InUse) <= OnTheWay
  /\ Len(rtpChan) <= RtpCap
  /\ Cardinality(held) + Len(sending) <= BufferSize

LEMMA PoolTypes ==
  ASSUME CopyInv, PoolInv
  PROVE  /\ IsFiniteSet(Cells) /\ IsFiniteSet(InUse) /\ Cardinality(InUse) \in Nat
         /\ Cardinality(held) \in Nat /\ Len(rtpChan) \in Nat /\ Len(sending) \in Nat
         /\ RtpCap \in Nat /\ BufferSize \in Nat
<1>1. IsFiniteSet(Cells) /\ IsFiniteSet(InUse)
  BY RelayAssumption, FS_Subset DEF InUse
<1>2. Len(sending) \in Nat /\ Len(rtpChan) \in Nat
  BY DEF CopyInv, PoolOK
<1> QED
  BY <1>1, <1>2, FS_CardinalityType, RelayAssumption DEF PoolInv

LEMMA PoolInit == Init => PoolInv
<1> SUFFICES ASSUME Init PROVE PoolInv
  OBVIOUS
<1>1. InUse = {} /\ held = {} /\ Len(rtpChan) = 0 /\ Len(sending) = 0
  BY DEF Init, InUse
<1> QED
  BY <1>1, FS_EmptySet, RelayAssumption DEF PoolInv, OnTheWay

LEMMA CopyingCounts ==
  ASSUME CopyInv, PoolInv, NEW r \in Readers, CopyPacket(r)
  PROVE  PoolInv'
<1>1. UNCHANGED <<held, sending>>
  BY DEF CopyPacket
<1>2. CASE UNCHANGED <<rtpChan, packetPool>>
  BY <1>1, <1>2 DEF PoolInv, InUse, OnTheWay
<1>3. ASSUME NEW c \in packetPool, NEW p, Len(rtpChan) < RtpCap,
             rtpChan' = Append(rtpChan, p), packetPool' = packetPool \ {c}
      PROVE  PoolInv'
  <2>1. Len(rtpChan') = Len(rtpChan) + 1
    BY <1>3 DEF CopyInv, PoolOK
  <2>2. InUse' = InUse \cup {c} /\ c \notin InUse
    BY <1>3 DEF InUse, CopyInv, PoolOK
  <2>3. Cardinality(InUse') = Cardinality(InUse) + 1
    BY <2>2, PoolTypes, FS_AddElement
  <2> QED
    BY <1>1, <1>3, <2>1, <2>3, PoolTypes DEF PoolInv, OnTheWay
<1> QED
  BY <1>2, <1>3 DEF CopyPacket

LEMMA AddingCounts ==
  ASSUME CopyInv, PoolInv, AddToBuffer
  PROVE  PoolInv'
<1>1. /\ rtpChan \in Seq(Copy) /\ rtpChan # << >> /\ rtpChan' = Tail(rtpChan)
      /\ sending = << >> /\ sending' = << >>
  BY DEF AddToBuffer, CopyInv, PoolOK
<1>2. Len(rtpChan') = Len(rtpChan) - 1 /\ Len(sending) = 0 /\ Len(sending') = 0
  BY <1>1
<1>3. Head(rtpChan) \notin held
  <2>1. 1 \in DOMAIN rtpChan /\ Head(rtpChan) = rtpChan[1]
    BY <1>1
  <2> QED
    BY <2>1 DEF CopyInv, QueueFree
<1>4. CASE /\ Cardinality(held) < BufferSize
           /\ held' = held \cup {Head(rtpChan)} /\ packetPool' = packetPool
  <2>1. IsFiniteSet(held') /\ Cardinality(held') = Cardinality(held) + 1
    BY <1>3, <1>4, FS_AddElement DEF PoolInv
  <2>2. InUse' = InUse
    BY <1>4 DEF InUse
  <2> QED
    BY <1>2, <1>4, <2>1, <2>2, PoolTypes DEF PoolInv, OnTheWay
<1>5. ASSUME NEW old \in held,
             held' = (held \ {old}) \cup {Head(rtpChan)}, packetPool' = packetPool \cup {old.cell}
      PROVE  PoolInv'
  <2>1. IsFiniteSet(held \ {old}) /\ Cardinality(held \ {old}) = Cardinality(held) - 1
    BY FS_RemoveElement DEF PoolInv
  <2>2. IsFiniteSet(held') /\ Cardinality(held') = Cardinality(held \ {old}) + 1
    BY <1>3, <1>5, <2>1, FS_AddElement
  <2>3. InUse' = InUse \ {old.cell} /\ old.cell \in InUse
    BY <1>5 DEF InUse, CopyInv, PoolOK, HeldFree, Copy
  <2>4. Cardinality(InUse') = Cardinality(InUse) - 1
    BY <2>3, PoolTypes, FS_RemoveElement
  <2> QED
    BY <1>2, <2>1, <2>2, <2>4, PoolTypes DEF PoolInv, OnTheWay
<1> QED
  BY <1>4, <1>5 DEF AddToBuffer

LEMMA FlushingCounts ==
  ASSUME CopyInv, PoolInv, Flush
  PROVE  PoolInv'
<1>1. PICK p \in held : held' = held \ {p} /\ sending' = <<p>>
  BY DEF Flush
<1>2. sending = << >> /\ UNCHANGED <<rtpChan, packetPool>>
  BY DEF Flush, poolVars
<1>3. IsFiniteSet(held') /\ Cardinality(held') = Cardinality(held) - 1
  BY <1>1, FS_RemoveElement DEF PoolInv
<1>4. Len(sending) = 0 /\ Len(sending') = 1
  BY <1>1, <1>2
<1> QED
  BY <1>2, <1>3, <1>4, PoolTypes DEF PoolInv, OnTheWay, InUse

LEMMA PuttingCounts ==
  ASSUME CopyInv, PoolInv, PutAfterWrite
  PROVE  PoolInv'
<1>1. PICK p \in Copy : sending = <<p>>
  BY DEF PutAfterWrite, CopyInv, PoolOK
<1>2. /\ sending' = << >> /\ packetPool' = packetPool \cup {p.cell}
      /\ UNCHANGED <<rtpChan, held>>
  BY <1>1 DEF PutAfterWrite
<1>3. Len(sending) = 1 /\ Len(sending') = 0
  BY <1>1, <1>2
<1>4. InUse' = InUse \ {p.cell} /\ p.cell \in InUse
  BY <1>1, <1>2, OneElement DEF InUse, CopyInv, SendingFree, Copy
<1>5. Cardinality(InUse') = Cardinality(InUse) - 1
  BY <1>4, PoolTypes, FS_RemoveElement
<1> QED
  BY <1>2, <1>3, <1>5, PoolTypes DEF PoolInv, OnTheWay

LEMMA PoolStep == CopyInv /\ PoolInv /\ [Next]_vars => PoolInv'
<1> SUFFICES ASSUME CopyInv, PoolInv, [Next]_vars PROVE PoolInv'
  OBVIOUS
<1>1. ASSUME UNCHANGED <<packetPool, rtpChan, held, sending>> PROVE PoolInv'
  BY <1>1 DEF PoolInv, InUse, OnTheWay
<1>2. ASSUME NEW r \in Readers, ReadPacket(r) \/ Reader(r) PROVE PoolInv'
  <2>1. CASE ReadPacket(r) \/ StartBroadcast(r) \/ \E l \in Relays : CallListener(r, l)
    BY <1>1, <2>1 DEF ReadPacket, StartBroadcast, CallListener, poolVars, sendVars
  <2> QED BY <1>2, <2>1, CopyingCounts DEF Reader
<1>3. CASE (\E l \in Relays : Relaying(l)) \/ UNCHANGED vars
  BY <1>1, <1>3 DEF Relaying, StartRelay, CloseRelay, TakePacket, WriteHeader, WritePayload,
     EndRelay, vars, poolVars, sendVars
<1>4. CASE AddToBuffer \/ Flush \/ PutAfterWrite
  BY <1>4, AddingCounts, FlushingCounts, PuttingCounts
<1> QED BY <1>2, <1>3, <1>4 DEF Next

(***************************************************************************)
(* However slow the sender is, no more payload buffers are out than fit    *)
(* into rtpChan and its buffer: packetPool does not grow without bound,    *)
(* and the bound on Cells is never what makes a reader wait.               *)
(***************************************************************************)
THEOREM BuffersAreBounded ==
  Spec => [](Cardinality(InUse) <= RtpCap + BufferSize /\ packetPool # {})
<1>1. CopyInv /\ PoolInv =>
        Cardinality(InUse) <= RtpCap + BufferSize /\ packetPool # {}
  <2> SUFFICES ASSUME CopyInv, PoolInv
               PROVE  Cardinality(InUse) <= RtpCap + BufferSize /\ packetPool # {}
    OBVIOUS
  <2>1. Cardinality(InUse) <= RtpCap + BufferSize
    BY PoolTypes DEF PoolInv, OnTheWay
  <2>2. InUse # Cells
    BY <2>1, PoolTypes, RelayAssumption
  <2> QED BY <2>1, <2>2 DEF InUse
<1>2. Spec => []PoolInv
  BY CopiesInvariant, PoolInit, PoolStep, PTL DEF Spec
<1> QED BY <1>1, <1>2, CopiesInvariant, PTL

-----------------------------------------------------------------------------
(* What relays write.                                                      *)

Item == [reader : Readers, n : Nat]

RelaysOK ==
  /\ listeners \in SUBSET Relays
  /\ todo \in [Readers -> SUBSET Relays]
  /\ pktChan \in [Relays -> Seq(Item)]
  /\ inHand \in [Relays -> {<< >>} \cup {<<p>> : p \in Item} \cup {<<p, h>> : p \in Item, h \in Held}]
  /\ wrote \in [Relays -> [Readers -> Held]]

(* Queued packets have been parsed, and keep the order of their reader.    *)
QueueOld ==
  \A l \in Relays : \A i \in DOMAIN pktChan[l] :
    pktChan[l][i].n <= mem[pktChan[l][i].reader].header
QueueInOrder ==
  \A l \in Relays : \A i, j \in DOMAIN pktChan[l] :
    i < j /\ pktChan[l][i].reader = pktChan[l][j].reader => pktChan[l][i].n <= pktChan[l][j].n

Newest(l, r, n) ==
  \A i \in DOMAIN pktChan[l] : pktChan[l][i].reader = r => n <= pktChan[l][i].n

(* So has the packet in hand, and it came before them.                     *)
HandOld ==
  \A l \in Relays : inHand[l] # << >> =>
    /\ inHand[l][1].n <= mem[inHand[l][1].reader].header
    /\ Newest(l, inHand[l][1].reader, inHand[l][1].n)

(* A header that has been copied is not older than what was written        *)
(* before, and is the packet's own unless the memory is reused.            *)
HeaderOld ==
  \A l \in Relays : Len(inHand[l]) = 2 =>
    /\ inHand[l][2].header <= mem[inHand[l][1].reader].header
    /\ wrote[l][inHand[l][1].reader].header <= inHand[l][2].header
    /\ inHand[l][1].reader \notin Reusing => inHand[l][2].header = inHand[l][1].n

WroteOld ==
  \A l \in Relays, r \in Readers :
    /\ wrote[l][r].header <= wrote[l][r].payload
    /\ wrote[l][r].header <= mem[r].header
    /\ r \notin Reusing =>
         /\ Newest(l, r, wrote[l][r].header)
         /\ inHand[l] # << >> /\ inHand[l][1].reader = r => wrote[l][r].header <= inHand[l][1].n

RelayInv ==
  /\ ReadersOK /\ MemoryIs
  /\ RelaysOK
  /\ QueueOld /\ QueueInOrder /\ HandOld /\ HeaderOld /\ WroteOld

LEMMA RelayInit == Init => RelayInv
  BY RelayAssumption DEF Init, RelayInv, ReadersOK, MemoryIs, RelaysOK, QueueOld, QueueInOrder, HandOld,
     HeaderOld, WroteOld, Newest, Held, Item

(* What is in a relay's hand: nothing, a packet, or a packet and a header. *)
LEMMA HandShape ==
  ASSUME RelaysOK, NEW l \in Relays
  PROVE  \/ inHand[l] = << >> /\ Len(inHand[l]) = 0
         \/ \E p \in Item : inHand[l] = <<p>> /\ Len(inHand[l]) = 1 /\ inHand[l][1] = p
         \/ \E p \in Item, h \in Held :
              /\ inHand[l] = <<p, h>> /\ Len(inHand[l]) = 2
              /\ inHand[l][1] = p /\ inHand[l][2] = h
  BY DEF RelaysOK

LEMMA QueueItem ==
  ASSUME RelaysOK, NEW l \in Relays, NEW i \in DOMAIN pktChan[l]
  PROVE  /\ pktChan[l][i] \in Item
         /\ pktChan[l][i].reader \in Readers /\ pktChan[l][i].n \in Nat
<1>1. pktChan[l] \in Seq(Item)
  BY DEF RelaysOK
<1>2. pktChan[l][i] \in Item
  BY <1>1
<1> QED BY <1>2 DEF Item

(* A reader that goes on reading makes nothing older than it is.           *)
LEMMA MemoryGrows ==
  ASSUME RelayInv, ReadersOK', MemoryIs', todo' \in [Readers -> SUBSET Relays],
         UNCHANGED <<listeners, pktChan, inHand, wrote>>,
         \A r \in Readers : mem[r].header <= mem'[r].header
  PROVE  RelayInv'
<1> USE DEF RelayInv
<1>1. \A r \in Readers : mem[r].header \in Nat /\ mem'[r].header \in Nat
  BY DEF ReadersOK, Held
<1>2. RelaysOK'
  BY DEF RelaysOK
<1>3. QueueOld'
  <2> SUFFICES ASSUME NEW l \in Relays, NEW i \in DOMAIN pktChan[l]
               PROVE  pktChan[l][i].n <= mem'[pktChan[l][i].reader].header
    BY DEF QueueOld
  <2>1. pktChan[l][i].reader \in Readers /\ pktChan[l][i].n \in Nat
    BY QueueItem
  <2> QED BY <1>1, <2>1 DEF QueueOld
<1>4. QueueInOrder'
  BY DEF QueueInOrder
<1>5. HandOld' /\ HeaderOld'
  <2> SUFFICES ASSUME NEW l \in Relays
               PROVE  /\ inHand[l] # << >> => /\ inHand[l][1].n <= mem'[inHand[l][1].reader].header
                                              /\ Newest(l, inHand[l][1].reader, inHand[l][1].n)
                      /\ Len(inHand[l]) = 2 =>
                           /\ inHand[l][2].header <= mem'[inHand[l][1].reader].header
                           /\ wrote[l][inHand[l][1].reader].header <= inHand[l][2].header
                           /\ inHand[l][1].reader \notin Reusing => inHand[l][2].header = inHand[l][1].n
    BY DEF HandOld, HeaderOld, Newest
  <2>1. inHand[l] # << >> => inHand[l][1].reader \in Readers /\ inHand[l][1].n \in Nat
    BY HandShape DEF Item
  <2>2. Len(inHand[l]) = 2 => inHand[l] # << >> /\ inHand[l][2].header \in Nat
    BY HandShape DEF Held
  <2> QED BY <1>1, <2>1, <2>2 DEF HandOld, HeaderOld
<1>6. WroteOld'
  <2>1. \A l \in Relays, r \in Readers : wrote[l][r].header \in Nat
    BY DEF RelaysOK, Held
  <2> QED BY <1>1, <2>1 DEF WroteOld, Newest
<1> QED BY <1>2, <1>3, <1>4, <1>5, <1>6

LEMMA ReadingKeepsRelays ==
  ASSUME RelayInv, NEW r \in Readers, ReadPacket(r) \/ StartBroadcast(r) \/ CopyPacket(r)
  PROVE  RelayInv'
<1>1. UNCHANGED <<listeners, pktChan, inHand, wrote>> /\ todo' \in [Readers -> SUBSET Relays]
  BY DEF ReadPacket, StartBroadcast, CopyPacket, relayVars, RelayInv, RelaysOK
<1>2. ReadersOK' /\ MemoryIs' /\ \A s \in Readers : mem[s].header <= mem'[s].header
  <2>1. CASE ReadPacket(r)
    BY <2>1 DEF ReadPacket, RelayInv, ReadersOK, MemoryIs, Held
  <2>2. CASE StartBroadcast(r)
    BY <2>2 DEF StartBroadcast, RelayInv, ReadersOK, MemoryIs, Held
  <2>3. CASE CopyPacket(r)
    BY <2>3 DEF CopyPacket, RelayInv, ReadersOK, MemoryIs, Held
  <2> QED BY <2>1, <2>2, <2>3
<1> QED BY <1>1, <1>2, MemoryGrows

(* The packet that a listener is called with is the newest of its reader.  *)
LEMMA CallingKeepsRelays ==
  ASSUME RelayInv, NEW r \in Readers, NEW l \in Relays, CallListener(r, l)
  PROVE  RelayInv'
<1> USE DEF RelayInv
<1> DEFINE new == [reader |-> r, n |-> count[r]]
<1>1. UNCHANGED <<at, count, mem, listeners, inHand, wrote>> /\ todo' \in [Readers -> SUBSET Relays]
  BY DEF CallListener, relayVars, RelaysOK
<1>2. mem[r].header = count[r] /\ count[r] \in Nat /\ new \in Item /\ new.reader = r /\ new.n = count[r]
  BY DEF CallListener, MemoryIs, ReadersOK, Item
<1>3. ReadersOK' /\ MemoryIs'
  BY <1>1 DEF ReadersOK, MemoryIs
<1>4. CASE pktChan' = pktChan
  BY <1>1, <1>3, <1>4 DEF RelaysOK, QueueOld, QueueInOrder, HandOld, HeaderOld, WroteOld, Newest
<1>5. CASE pktChan' = [pktChan EXCEPT ![l] = Append(@, new)]
  <2>1. /\ pktChan' \in [Relays -> Seq(Item)]
        /\ \A k \in Relays \ {l} : pktChan'[k] = pktChan[k]
        /\ pktChan'[l] = Append(pktChan[l], new)
        /\ pktChan[l] \in Seq(Item)
    BY <1>2, <1>5 DEF RelaysOK
  <2>2. /\ \A i \in DOMAIN pktChan[l] : i \in DOMAIN pktChan'[l] /\ pktChan'[l][i] = pktChan[l][i]
        /\ \A i \in DOMAIN pktChan'[l] :
              i \in DOMAIN pktChan[l] \/ (i = Len(pktChan[l]) + 1 /\ pktChan'[l][i] = new)
        /\ \A i \in DOMAIN pktChan[l] : i \in Nat /\ i < Len(pktChan[l]) + 1
    BY <2>1, <1>2
  <2> HIDE DEF new
  <2>3. RelaysOK'
    BY <1>1, <2>1 DEF RelaysOK
  <2>4. QueueOld'
    <3> SUFFICES ASSUME NEW k \in Relays, NEW i \in DOMAIN pktChan'[k]
                 PROVE  pktChan'[k][i].n <= mem[pktChan'[k][i].reader].header
      BY <1>1 DEF QueueOld
    <3>1. CASE k = l /\ i \notin DOMAIN pktChan[l]
      BY <1>2, <2>2, <3>1
    <3>2. CASE ~(k = l /\ i \notin DOMAIN pktChan[l])
      BY <2>1, <2>2, <3>2 DEF QueueOld
    <3> QED BY <3>1, <3>2
  <2>5. QueueInOrder'
    <3> SUFFICES ASSUME NEW k \in Relays, NEW i \in DOMAIN pktChan'[k], NEW j \in DOMAIN pktChan'[k],
                        i < j, pktChan'[k][i].reader = pktChan'[k][j].reader
                 PROVE  pktChan'[k][i].n <= pktChan'[k][j].n
      BY DEF QueueInOrder
    <3>1. CASE k # l
      BY <2>1, <3>1 DEF QueueInOrder
    <3>2. CASE k = l /\ j \in DOMAIN pktChan[l]
      <4>1. i \in DOMAIN pktChan[l]
        BY <2>2, <3>2
      <4> QED BY <2>2, <3>2, <4>1 DEF QueueInOrder
    <3>3. CASE k = l /\ j \notin DOMAIN pktChan[l]
      <4>1. pktChan'[l][j] = new /\ i \in DOMAIN pktChan[l] /\ pktChan'[l][i] = pktChan[l][i]
        BY <2>2, <3>3
      <4> QED BY <1>2, <3>3, <4>1 DEF QueueOld
    <3> QED BY <3>1, <3>2, <3>3
  <2>6. ASSUME NEW k \in Relays, NEW q \in Readers, NEW n \in Nat, Newest(k, q, n),
               n <= mem[q].header
        PROVE  \A i \in DOMAIN pktChan'[k] : pktChan'[k][i].reader = q => n <= pktChan'[k][i].n
    <3> SUFFICES ASSUME NEW i \in DOMAIN pktChan'[k], pktChan'[k][i].reader = q
                 PROVE  n <= pktChan'[k][i].n
      OBVIOUS
    <3>1. CASE k = l /\ i \notin DOMAIN pktChan[l]
      BY <1>2, <2>2, <2>6, <3>1
    <3>2. CASE ~(k = l /\ i \notin DOMAIN pktChan[l])
      BY <2>1, <2>2, <2>6, <3>2 DEF Newest
    <3> QED BY <3>1, <3>2
  <2>7. HandOld'
    <3> SUFFICES ASSUME NEW k \in Relays, inHand[k] # << >>
                 PROVE  /\ inHand[k][1].n <= mem[inHand[k][1].reader].header
                        /\ \A i \in DOMAIN pktChan'[k] :
                             pktChan'[k][i].reader = inHand[k][1].reader => inHand[k][1].n <= pktChan'[k][i].n
      BY <1>1 DEF HandOld, Newest
    <3>1. inHand[k][1].reader \in Readers /\ inHand[k][1].n \in Nat
      BY HandShape DEF Item
    <3> QED BY <2>6, <3>1 DEF HandOld
  <2>8. HeaderOld'
    BY <1>1 DEF HeaderOld
  <2>9. WroteOld'
    <3>1. \A k \in Relays, q \in Readers : wrote[k][q].header \in Nat
      BY DEF RelaysOK, Held
    <3>2. \A k \in Relays, q \in Readers :
            Newest(k, q, wrote[k][q].header) =>
              \A i \in DOMAIN pktChan'[k] :
                pktChan'[k][i].reader = q => wrote[k][q].header <= pktChan'[k][i].n
      BY <2>6, <3>1 DEF WroteOld
    <3> QED BY <1>1, <3>2 DEF WroteOld, Newest
  <2> QED BY <1>3, <2>3, <2>4, <2>5, <2>7, <2>8, <2>9
<1> QED BY <1>4, <1>5 DEF CallListener, Enqueue

(* The packet that a relay takes is the oldest that waits.                 *)
LEMMA TakingKeepsRelays ==
  ASSUME RelayInv, NEW l \in Relays, TakePacket(l)
  PROVE  RelayInv'
<1> USE DEF RelayInv
<1> DEFINE head == pktChan[l][1]
<1>1. /\ UNCHANGED <<at, count, mem, todo, listeners, wrote>>
      /\ pktChan[l] \in Seq(Item) /\ pktChan[l] # << >> /\ Head(pktChan[l]) = head
      /\ 1 \in DOMAIN pktChan[l] /\ head \in Item
  BY DEF TakePacket, readVars, RelaysOK
<1>2. /\ pktChan' \in [Relays -> Seq(Item)]
      /\ \A k \in Relays \ {l} : pktChan'[k] = pktChan[k]
      /\ pktChan'[l] = Tail(pktChan[l])
  BY <1>1 DEF TakePacket, RelaysOK
<1>3. \A i \in DOMAIN pktChan'[l] :
        /\ i \in Nat /\ i >= 1 /\ i + 1 \in DOMAIN pktChan[l]
        /\ pktChan'[l][i] = pktChan[l][i + 1]
  BY <1>1, <1>2
<1>4. head.reader \in Readers /\ head.n \in Nat
  BY <1>1 DEF Item
<1>5. head.n <= mem[head.reader].header
  BY <1>1 DEF QueueOld
<1>6. \A i \in DOMAIN pktChan'[l] : pktChan'[l][i].reader = head.reader => head.n <= pktChan'[l][i].n
  <2> TAKE i \in DOMAIN pktChan'[l]
  <2>1. 1 < i + 1 /\ i + 1 \in DOMAIN pktChan[l]
    BY <1>3
  <2> QED BY <1>1, <1>3, <2>1 DEF QueueInOrder
<1>7. \A r \in Readers, n \in Nat : Newest(l, r, n) => (head.reader = r => n <= head.n)
  BY <1>1 DEF Newest
<1>8. /\ inHand'[l] = <<head>>
      /\ \A k \in Relays \ {l} : inHand'[k] = inHand[k]
      /\ inHand[l] = << >>
      /\ inHand' \in [Relays -> {<< >>} \cup {<<p>> : p \in Item} \cup {<<p, h>> : p \in Item, h \in Held}]
  BY <1>1 DEF TakePacket, RelaysOK
<1> HIDE DEF head
<1>9. ReadersOK' /\ MemoryIs' /\ RelaysOK'
  BY <1>1, <1>2, <1>8 DEF ReadersOK, MemoryIs, RelaysOK
<1>10. QueueOld'
  <2> SUFFICES ASSUME NEW k \in Relays, NEW i \in DOMAIN pktChan'[k]
               PROVE  pktChan'[k][i].n <= mem[pktChan'[k][i].reader].header
    BY <1>1 DEF QueueOld
  <2>1. CASE k = l
    BY <1>3, <2>1 DEF QueueOld
  <2>2. CASE k # l
    BY <1>2, <2>2 DEF QueueOld
  <2> QED BY <2>1, <2>2
<1>11. QueueInOrder'
  <2> SUFFICES ASSUME NEW k \in Relays, NEW i \in DOMAIN pktChan'[k], NEW j \in DOMAIN pktChan'[k],
                      i < j, pktChan'[k][i].reader = pktChan'[k][j].reader
               PROVE  pktChan'[k][i].n <= pktChan'[k][j].n
    BY DEF QueueInOrder
  <2>1. CASE k = l
    <3>1. i + 1 < j + 1
      BY <1>3, <2>1
    <3> QED BY <1>3, <2>1, <3>1 DEF QueueInOrder
  <2>2. CASE k # l
    BY <1>2, <2>2 DEF QueueInOrder
  <2> QED BY <2>1, <2>2
<1>12. ASSUME NEW k \in Relays, NEW r \in Readers, NEW n \in Nat, Newest(k, r, n)
       PROVE  \A i \in DOMAIN pktChan'[k] : pktChan'[k][i].reader = r => n <= pktChan'[k][i].n
  <2>1. CASE k = l
    BY <1>3, <1>12, <2>1 DEF Newest
  <2>2. CASE k # l
    BY <1>2, <1>12, <2>2 DEF Newest
  <2> QED BY <2>1, <2>2
<1>13. HandOld'
  <2> SUFFICES ASSUME NEW k \in Relays, inHand'[k] # << >>
               PROVE  /\ inHand'[k][1].n <= mem[inHand'[k][1].reader].header
                      /\ \A i \in DOMAIN pktChan'[k] :
                           pktChan'[k][i].reader = inHand'[k][1].reader => inHand'[k][1].n <= pktChan'[k][i].n
    BY <1>1 DEF HandOld, Newest
  <2>1. CASE k = l
    BY <1>5, <1>6, <1>8, <2>1
  <2>2. CASE k # l
    <3>1. inHand'[k] = inHand[k]
      BY <1>8, <2>2
    <3>2. inHand[k][1].reader \in Readers /\ inHand[k][1].n \in Nat
      BY <3>1, HandShape DEF Item
    <3> QED BY <1>12, <3>1, <3>2 DEF HandOld
  <2> QED BY <2>1, <2>2
<1>14. HeaderOld'
  <2> SUFFICES ASSUME NEW k \in Relays, Len(inHand'[k]) = 2
               PROVE  /\ inHand'[k][2].header <= mem[inHand'[k][1].reader].header
                      /\ wrote[k][inHand'[k][1].reader].header <= inHand'[k][2].header
                      /\ inHand'[k][1].reader \notin Reusing => inHand'[k][2].header = inHand'[k][1].n
    BY <1>1 DEF HeaderOld
  <2>1. k # l
    BY <1>8
  <2>2. inHand'[k] = inHand[k]
    BY <1>8, <2>1
  <2> QED BY <2>2 DEF HeaderOld
<1>15. WroteOld'
  <2> SUFFICES ASSUME NEW k \in Relays, NEW r \in Readers
               PROVE  /\ wrote[k][r].header <= wrote[k][r].payload
                      /\ wrote[k][r].header <= mem[r].header
                      /\ r \notin Reusing =>
                           /\ \A i \in DOMAIN pktChan'[k] :
                                pktChan'[k][i].reader = r => wrote[k][r].header <= pktChan'[k][i].n
                           /\ inHand'[k] # << >> /\ inHand'[k][1].reader = r
                                => wrote[k][r].header <= inHand'[k][1].n
    BY <1>1 DEF WroteOld, Newest
  <2>1. wrote[k][r].header \in Nat
    BY DEF RelaysOK, Held
  <2>2. r \notin Reusing => Newest(k, r, wrote[k][r].header)
    BY DEF WroteOld
  <2>3. CASE k = l
    BY <1>7, <1>8, <1>12, <2>1, <2>2, <2>3 DEF WroteOld
  <2>4. CASE k # l
    BY <1>8, <1>12, <2>1, <2>2, <2>4 DEF WroteOld
  <2> QED BY <2>3, <2>4
<1> QED BY <1>9, <1>10, <1>11, <1>13, <1>14, <1>15

LEMMA PresentIs ==
  ASSUME RelayInv, NEW p \in Item
  PROVE  /\ Present(p) \in Held
         /\ Present(p).header <= Present(p).payload
         /\ p.reader \in Reusing => Present(p) = mem[p.reader]
         /\ p.reader \notin Reusing => Present(p).header = p.n /\ Present(p).payload = p.n
  BY DEF Present, RelayInv, ReadersOK, MemoryIs, Item, Held

LEMMA HeadingKeepsRelays ==
  ASSUME RelayInv, NEW l \in Relays, WriteHeader(l)
  PROVE  RelayInv'
<1> USE DEF RelayInv
<1>1. UNCHANGED <<at, count, mem, todo, listeners, wrote, pktChan>>
  BY DEF WriteHeader, readVars
<1>2. PICK p \in Item : inHand[l] = <<p>>
  BY HandShape DEF WriteHeader
<1> DEFINE h == Present(p)
<1>3. /\ h \in Held
      /\ p.reader \in Reusing => h = mem[p.reader]
      /\ p.reader \notin Reusing => h.header = p.n
  BY PresentIs
<1> HIDE DEF h
<1>4. /\ inHand' = [inHand EXCEPT ![l] = <<p, h>>]
      /\ \A k \in Relays \ {l} : inHand'[k] = inHand[k]
      /\ inHand'[l] = <<p, h>>
  <2>1. inHand[l][1] = p
    BY <1>2
  <2>2. inHand' = [inHand EXCEPT ![l] = <<p, h>>]
    BY <2>1 DEF WriteHeader, h
  <2> QED BY <2>1, <2>2 DEF RelaysOK
<1>5. ReadersOK' /\ MemoryIs' /\ RelaysOK'
  BY <1>1, <1>3, <1>4 DEF ReadersOK, MemoryIs, RelaysOK
<1>6. QueueOld' /\ QueueInOrder'
  BY <1>1 DEF QueueOld, QueueInOrder
<1>7. \A k \in Relays : /\ inHand'[k] # << >> => inHand[k] # << >>
                        /\ inHand[k] # << >> => inHand'[k][1] = inHand[k][1]
  BY <1>2, <1>4
<1>8. HandOld' /\ WroteOld'
  BY <1>1, <1>7 DEF HandOld, WroteOld, Newest
<1>9. p.reader \in Readers /\ p.n <= mem[p.reader].header /\ wrote[l][p.reader].header <= mem[p.reader].header
  BY <1>2 DEF Item, HandOld, WroteOld
<1>10. h.header <= mem[p.reader].header /\ wrote[l][p.reader].header <= h.header
  <2>1. CASE p.reader \in Reusing
    BY <1>3, <1>9, <2>1 DEF ReadersOK, Held
  <2>2. CASE p.reader \notin Reusing
    BY <1>2, <1>3, <1>9, <2>2 DEF WroteOld
  <2> QED BY <2>1, <2>2
<1>11. HeaderOld'
  <2> SUFFICES ASSUME NEW k \in Relays, Len(inHand'[k]) = 2
               PROVE  /\ inHand'[k][2].header <= mem[inHand'[k][1].reader].header
                      /\ wrote[k][inHand'[k][1].reader].header <= inHand'[k][2].header
                      /\ inHand'[k][1].reader \notin Reusing => inHand'[k][2].header = inHand'[k][1].n
    BY <1>1 DEF HeaderOld
  <2>1. CASE k = l
    BY <1>3, <1>4, <1>10, <2>1
  <2>2. CASE k # l
    BY <1>4, <2>2 DEF HeaderOld
  <2> QED BY <2>1, <2>2
<1> QED BY <1>5, <1>6, <1>8, <1>11

(* What is written is not older than what was written before.              *)
LEMMA WritingKeepsRelays ==
  ASSUME RelayInv, NEW l \in Relays, WritePayload(l)
  PROVE  RelayInv' /\ NeverGoesBack
<1> USE DEF RelayInv
<1>1. UNCHANGED <<at, count, mem, todo, listeners, pktChan>>
  BY DEF WritePayload, readVars
<1>2. PICK p \in Item, h \in Held : inHand[l] = <<p, h>>
  BY HandShape DEF WritePayload
<1> DEFINE r == p.reader
           new == [header |-> h.header, payload |-> Present(p).payload]
<1>3. /\ r \in Readers /\ p.n \in Nat /\ h.header \in Nat
      /\ h.header <= mem[r].header
      /\ wrote[l][r].header <= h.header
      /\ r \notin Reusing => h.header = p.n
      /\ p.n <= mem[r].header
      /\ Newest(l, r, p.n)
  <2>1. inHand[l] # << >> /\ Len(inHand[l]) = 2 /\ inHand[l][1] = p /\ inHand[l][2] = h
    BY <1>2
  <2> QED BY <2>1 DEF Item, Held, HandOld, HeaderOld
<1>4. new \in Held /\ h.header <= new.payload
  <2>1. CASE r \in Reusing
    BY <1>3, <2>1, PresentIs DEF Held, MemoryIs, ReadersOK
  <2>2. CASE r \notin Reusing
    BY <1>3, <2>2, PresentIs DEF Held
  <2> QED BY <2>1, <2>2
<1>5. new.header = h.header
  OBVIOUS
<1>6. /\ wrote' = [wrote EXCEPT ![l][r] = new]
      /\ inHand' = [inHand EXCEPT ![l] = << >>]
  BY <1>2 DEF WritePayload
<1> HIDE DEF new, r
<1>7. /\ wrote'[l][r] = new
      /\ \A k \in Relays, q \in Readers : ~(k = l /\ q = r) => wrote'[k][q] = wrote[k][q]
      /\ wrote' \in [Relays -> [Readers -> Held]]
  BY <1>3, <1>4, <1>6 DEF RelaysOK
<1>8. /\ inHand'[l] = << >>
      /\ \A k \in Relays \ {l} : inHand'[k] = inHand[k]
      /\ inHand' \in [Relays -> {<< >>} \cup {<<q>> : q \in Item} \cup {<<q, g>> : q \in Item, g \in Held}]
  BY <1>6 DEF RelaysOK
<1>9. ReadersOK' /\ MemoryIs' /\ RelaysOK'
  BY <1>1, <1>7, <1>8 DEF ReadersOK, MemoryIs, RelaysOK
<1>10. QueueOld' /\ QueueInOrder'
  BY <1>1 DEF QueueOld, QueueInOrder
<1>11. HandOld'
  BY <1>1, <1>8 DEF HandOld, Newest
<1>12. HeaderOld'
  <2> SUFFICES ASSUME NEW k \in Relays, Len(inHand'[k]) = 2
               PROVE  /\ inHand'[k][2].header <= mem[inHand'[k][1].reader].header
                      /\ wrote'[k][inHand'[k][1].reader].header <= inHand'[k][2].header
                      /\ inHand'[k][1].reader \notin Reusing => inHand'[k][2].header = inHand'[k][1].n
    BY <1>1 DEF HeaderOld
  <2>1. k # l /\ inHand'[k] = inHand[k]
    BY <1>8
  <2>2. inHand[k][1].reader \in Readers
    BY <2>1, HandShape DEF Item
  <2>3. wrote'[k][inHand[k][1].reader] = wrote[k][inHand[k][1].reader]
    BY <1>7, <2>1, <2>2
  <2> QED BY <2>1, <2>3 DEF HeaderOld
<1>13. WroteOld'
  <2> SUFFICES ASSUME NEW k \in Relays, NEW q \in Readers
               PROVE  /\ wrote'[k][q].header <= wrote'[k][q].payload
                      /\ wrote'[k][q].header <= mem[q].header
                      /\ q \notin Reusing =>
                           /\ \A i \in DOMAIN pktChan[k] :
                                pktChan[k][i].reader = q => wrote'[k][q].header <= pktChan[k][i].n
                           /\ inHand'[k] # << >> /\ inHand'[k][1].reader = q
                                => wrote'[k][q].header <= inHand'[k][1].n
    BY <1>1 DEF WroteOld, Newest
  <2>1. CASE k = l /\ q = r
    BY <1>3, <1>4, <1>5, <1>7, <1>8, <2>1 DEF Newest
  <2>2. CASE ~(k = l /\ q = r)
    BY <1>7, <1>8, <2>2 DEF WroteOld, Newest
  <2> QED BY <2>1, <2>2
<1>14. NeverGoesBack
  <2> SUFFICES ASSUME NEW k \in Relays, NEW q \in Readers
               PROVE  /\ wrote[k][q].header <= wrote'[k][q].header
                      /\ wrote'[k][q].header <= wrote'[k][q].payload
    BY DEF NeverGoesBack
  <2>1. CASE k = l /\ q = r
    BY <1>3, <1>4, <1>5, <1>7, <2>1
  <2>2. CASE ~(k = l /\ q = r)
    BY <1>7, <2>2 DEF WroteOld, RelaysOK, Held
  <2> QED BY <2>1, <2>2
<1> QED BY <1>9, <1>10, <1>11, <1>12, <1>13, <1>14

LEMMA OthersKeepRelays ==
  ASSUME RelayInv,
         \/ \E l \in Relays : StartRelay(l) \/ CloseRelay(l) \/ EndRelay(l)
         \/ AddToBuffer \/ Flush \/ PutAfterWrite
         \/ UNCHANGED vars
  PROVE  RelayInv'
<1>1. UNCHANGED <<at, count, mem, todo, pktChan, inHand, wrote>>
  BY DEF StartRelay, CloseRelay, EndRelay, AddToBuffer, Flush, PutAfterWrite, vars, readVars, relayVars
<1>2. listeners' \in SUBSET Relays
  BY DEF StartRelay, CloseRelay, EndRelay, AddToBuffer, Flush, PutAfterWrite, vars, relayVars,
     RelayInv, RelaysOK
<1> QED
  BY <1>1, <1>2 DEF RelayInv, ReadersOK, MemoryIs, RelaysOK, QueueOld, QueueInOrder, HandOld,
     HeaderOld, WroteOld, Newest

LEMMA RelayStep == RelayInv /\ [Next]_vars => RelayInv' /\ [NeverGoesBack]_vars
<1> SUFFICES ASSUME RelayInv, [Next]_vars PROVE RelayInv' /\ [NeverGoesBack]_vars
  OBVIOUS
<1>1. ASSUME UNCHANGED wrote PROVE NeverGoesBack
  BY <1>1 DEF NeverGoesBack, RelayInv, RelaysOK, WroteOld, Held
<1>2. ASSUME NEW r \in Readers, ReadPacket(r) \/ Reader(r) PROVE RelayInv' /\ NeverGoesBack
  <2>1. UNCHANGED wrote
    BY <1>2 DEF ReadPacket, Reader, StartBroadcast, CallListener, CopyPacket, relayVars
  <2> QED BY <1>1, <1>2, <2>1, ReadingKeepsRelays, CallingKeepsRelays DEF Reader
<1>3. ASSUME NEW l \in Relays, TakePacket(l) \/ WriteHeader(l) PROVE RelayInv' /\ NeverGoesBack
  <2>1. UNCHANGED wrote
    BY <1>3 DEF TakePacket, WriteHeader
  <2> QED BY <1>1, <1>3, <2>1, TakingKeepsRelays, HeadingKeepsRelays
<1>4. ASSUME NEW l \in Relays, WritePayload(l) PROVE RelayInv' /\ NeverGoesBack
  BY <1>4, WritingKeepsRelays
<1>5. CASE \/ \E l \in Relays : StartRelay(l) \/ CloseRelay(l) \/ EndRelay(l)
           \/ AddToBuffer \/ Flush \/ PutAfterWrite
  <2>1. UNCHANGED wrote
    BY <1>5 DEF StartRelay, CloseRelay, EndRelay, AddToBuffer, Flush, PutAfterWrite, relayVars
  <2> QED BY <1>1, <1>5, <2>1, OthersKeepRelays
<1>6. CASE UNCHANGED vars
  BY <1>6, OthersKeepRelays
<1> QED BY <1>2, <1>3, <1>4, <1>5, <1>6 DEF Next, Relaying

(***************************************************************************)
(* What a relay writes of a source is never older than what it wrote       *)
(* before, and a payload never older than its header, although the queue   *)
(* holds references and the source may have reused what they refer to.     *)
(***************************************************************************)
THEOREM RelaysNeverGoBack == Spec => RelayNeverGoesBack
  BY RelayInit, RelayStep, PTL DEF Spec, RelayNeverGoesBack
=============================================================================
