--------------------------- MODULE RTSPBufferProofs ---------------------------
(* Theorems about RTSPBuffer, for every size of its spaces and bounds.     *)
EXTENDS RTSPBuffer, SequenceTheorems, FiniteSetTheorems, TLAPS

-----------------------------------------------------------------------------
(* The order list.                                                         *)

(* The list names exactly the filled slots, each once.                     *)
Indexes(entries, slots) ==
  /\ IsInjective(entries)
  /\ \A s \in SeqNums : (slots[s] # Nil) <=> (s \in ToSet(entries))

LEMMA TailIndex ==
  ASSUME NEW S, NEW q \in Seq(S), q # << >>
  PROVE  /\ Tail(q) \in Seq(S) /\ Len(Tail(q)) = Len(q) - 1
         /\ Head(q) = q[1] /\ Head(q) \in S /\ Len(q) \in Nat \ {0}
         /\ \A i \in 1 .. Len(q) - 1 : Tail(q)[i] = q[i + 1]
OBVIOUS

(* Removing the head empties its slot and no other.                        *)
LEMMA TailIndexes ==
  ASSUME NEW q \in Seq(SeqNums), q # << >>,
         NEW slots \in [SeqNums -> BufferedPacket \cup {Nil}], Indexes(q, slots)
  PROVE  Indexes(Tail(q), [slots EXCEPT ![Head(q)] = Nil])
<1> DEFINE r == Tail(q)
<1>1. /\ r \in Seq(SeqNums) /\ Len(r) = Len(q) - 1 /\ Len(q) \in Nat \ {0}
      /\ Head(q) = q[1] /\ Head(q) \in SeqNums
      /\ \A i \in 1 .. Len(q) - 1 : r[i] = q[i + 1]
  BY TailIndex
<1>2. DOMAIN r = 1 .. Len(q) - 1 /\ DOMAIN q = 1 .. Len(q)
  BY <1>1
<1> HIDE DEF r
<1>3. IsInjective(r)
  <2> SUFFICES ASSUME NEW i \in DOMAIN r, NEW j \in DOMAIN r, r[i] = r[j]
               PROVE  i = j
    BY DEF IsInjective
  <2>1. /\ i \in Nat /\ i + 1 \in DOMAIN q /\ r[i] = q[i + 1]
        /\ j \in Nat /\ j + 1 \in DOMAIN q /\ r[j] = q[j + 1]
    BY <1>1, <1>2
  <2>2. i + 1 = j + 1
    BY <2>1 DEF Indexes, IsInjective
  <2> QED
    BY <2>1, <2>2
<1>4. \A s \in SeqNums : s \in ToSet(r) <=> s \in ToSet(q) /\ s # Head(q)
  <2> SUFFICES ASSUME NEW s \in SeqNums
               PROVE  s \in ToSet(r) <=> s \in ToSet(q) /\ s # Head(q)
    OBVIOUS
  <2>1. ASSUME s \in ToSet(r) PROVE s \in ToSet(q) /\ s # Head(q)
    <3>1. PICK i \in 1 .. Len(q) - 1 : r[i] = s
      BY <1>2, <2>1 DEF ToSet
    <3>2. q[i + 1] = s /\ i + 1 \in 1 .. Len(q) /\ 1 \in 1 .. Len(q) /\ i + 1 # 1
      BY <1>1, <3>1
    <3>3. q[i + 1] # q[1]
      BY <1>2, <3>2 DEF Indexes, IsInjective
    <3>4. QED
      BY <1>1, <1>2, <3>2, <3>3 DEF ToSet
  <2>2. ASSUME s \in ToSet(q), s # Head(q) PROVE s \in ToSet(r)
    <3>1. PICK i \in 1 .. Len(q) : q[i] = s
      BY <1>2, <2>2 DEF ToSet
    <3>2. i - 1 \in 1 .. Len(q) - 1 /\ r[i - 1] = s
      BY <1>1, <2>2, <3>1
    <3>3. QED
      BY <1>2, <3>2 DEF ToSet
  <2>3. QED
    BY <2>1, <2>2
<1>5. QED
  BY <1>1, <1>3, <1>4 DEF Indexes, r

(* Filling an empty slot and appending it.                                 *)
LEMMA AppendIndexes ==
  ASSUME NEW q \in Seq(SeqNums), NEW s \in SeqNums, NEW p \in BufferedPacket,
         NEW slots \in [SeqNums -> BufferedPacket \cup {Nil}],
         Indexes(q, slots), slots[s] = Nil
  PROVE  Indexes(Append(q, s), [slots EXCEPT ![s] = p])
<1> DEFINE r == Append(q, s)
<1>1. /\ r \in Seq(SeqNums) /\ Len(r) = Len(q) + 1 /\ Len(q) \in Nat
      /\ r[Len(q) + 1] = s
      /\ \A i \in 1 .. Len(q) : r[i] = q[i]
  OBVIOUS
<1>2. DOMAIN r = 1 .. Len(q) + 1 /\ DOMAIN q = 1 .. Len(q)
  BY <1>1
<1> HIDE DEF r
<1>3. \A i \in 1 .. Len(q) : q[i] # s
  BY <1>2 DEF Indexes, ToSet
<1>4. IsInjective(r)
  BY <1>1, <1>2, <1>3 DEF Indexes, IsInjective
<1>5. \A t \in SeqNums : t \in ToSet(r) <=> t \in ToSet(q) \/ t = s
  <2> SUFFICES ASSUME NEW t \in SeqNums
               PROVE  t \in ToSet(r) <=> t \in ToSet(q) \/ t = s
    OBVIOUS
  <2>1. ASSUME t \in ToSet(r) PROVE t \in ToSet(q) \/ t = s
    <3>1. PICK i \in 1 .. Len(q) + 1 : r[i] = t
      BY <1>2, <2>1 DEF ToSet
    <3>2. QED
      BY <1>1, <1>2, <3>1 DEF ToSet
  <2>2. ASSUME t \in ToSet(q) PROVE t \in ToSet(r)
    <3>1. PICK i \in 1 .. Len(q) : q[i] = t
      BY <1>2, <2>2 DEF ToSet
    <3>2. QED
      BY <1>1, <1>2, <3>1 DEF ToSet
  <2>3. s \in ToSet(r)
    BY <1>1, <1>2 DEF ToSet
  <2>4. QED
    BY <2>1, <2>2, <2>3
<1>6. p # Nil
  BY NilAssumption
<1>7. QED
  BY <1>4, <1>5, <1>6 DEF Indexes, r

(* Overwriting a filled slot leaves the order as it is.                    *)
LEMMA ReplaceIndexes ==
  ASSUME NEW q \in Seq(SeqNums), NEW s \in SeqNums, NEW p \in BufferedPacket,
         NEW slots \in [SeqNums -> BufferedPacket \cup {Nil}],
         Indexes(q, slots), slots[s] # Nil
  PROVE  Indexes(q, [slots EXCEPT ![s] = p])
BY NilAssumption DEF Indexes

(* Removing the entry at a position closes the gap.                        *)
LEMMA RemoveAtElements ==
  ASSUME NEW q \in Seq(SeqNums), NEW n \in 1 .. Len(q)
  PROVE  /\ RemoveAt(q, n) \in Seq(SeqNums)
         /\ Len(RemoveAt(q, n)) = Len(q) - 1
         /\ \A i \in 1 .. Len(q) - 1 :
              RemoveAt(q, n)[i] = IF i < n THEN q[i] ELSE q[i + 1]
<1> DEFINE front == SubSeq(q, 1, n - 1)
           back == SubSeq(q, n + 1, Len(q))
<1>0. Len(q) \in Nat /\ n \in Nat
  OBVIOUS
<1>1. /\ front \in Seq(SeqNums) /\ Len(front) = n - 1
      /\ \A i \in 1 .. n - 1 : front[i] = q[i]
  BY <1>0, SubSeqProperties
<1>2. /\ back \in Seq(SeqNums) /\ Len(back) = Len(q) - n
      /\ \A i \in 1 .. Len(q) - n : back[i] = q[i + n]
  BY <1>0, SubSeqProperties
<1>3. RemoveAt(q, n) = front \o back
  BY DEF RemoveAt
<1> HIDE DEF front, back
<1>4. /\ front \o back \in Seq(SeqNums)
      /\ Len(front \o back) = Len(q) - 1
      /\ \A i \in 1 .. Len(q) - 1 :
           (front \o back)[i] = IF i <= n - 1 THEN front[i] ELSE back[i - (n - 1)]
  BY <1>0, <1>1, <1>2, ConcatProperties
<1>5. QED
  BY <1>0, <1>1, <1>2, <1>3, <1>4

(* Emitting the packet of a slot, wherever its entry is in the order.      *)
LEMMA WithoutIndexes ==
  ASSUME NEW q \in Seq(SeqNums), NEW s \in SeqNums,
         NEW slots \in [SeqNums -> BufferedPacket \cup {Nil}],
         Indexes(q, slots), slots[s] # Nil
  PROVE  /\ Without(q, s) \in Seq(SeqNums)
         /\ Len(Without(q, s)) = Len(q) - 1
         /\ Indexes(Without(q, s), Vacated(slots, s))
<1> DEFINE r == Without(q, s)
           n == PositionOf(q, s)
<1>0. DOMAIN q = 1 .. Len(q) /\ Len(q) \in Nat
  OBVIOUS
<1>1. n \in 1 .. Len(q) /\ q[n] = s
  <2>1. PICK i \in 1 .. Len(q) : q[i] = s
    BY <1>0 DEF Indexes, ToSet
  <2>2. \A j \in 1 .. i - 1 : q[j] # s
    BY <1>0, <2>1 DEF Indexes, IsInjective
  <2>3. QED
    BY <1>0, <2>1, <2>2 DEF PositionOf
<1> HIDE DEF n
<1>2. /\ r \in Seq(SeqNums) /\ Len(r) = Len(q) - 1
      /\ \A i \in 1 .. Len(q) - 1 : r[i] = IF i < n THEN q[i] ELSE q[i + 1]
  BY <1>1, RemoveAtElements DEF Without, n
<1>3. DOMAIN r = 1 .. Len(q) - 1
  BY <1>2
<1> HIDE DEF r
<1>4. IsInjective(r)
  <2> SUFFICES ASSUME NEW i \in 1 .. Len(q) - 1, NEW j \in 1 .. Len(q) - 1,
                      r[i] = r[j]
               PROVE  i = j
    BY <1>3 DEF IsInjective
  <2> DEFINE at(k) == IF k < n THEN k ELSE k + 1
  <2>1. \A k \in 1 .. Len(q) - 1 : at(k) \in 1 .. Len(q) /\ r[k] = q[at(k)]
    BY <1>0, <1>1, <1>2
  <2>2. at(i) = at(j)
    BY <1>0, <2>1 DEF Indexes, IsInjective
  <2>3. QED
    BY <1>1, <2>2
<1>5. \A t \in SeqNums : t \in ToSet(r) <=> t \in ToSet(q) /\ t # s
  <2> SUFFICES ASSUME NEW t \in SeqNums
               PROVE  t \in ToSet(r) <=> t \in ToSet(q) /\ t # s
    OBVIOUS
  <2>1. ASSUME t \in ToSet(r) PROVE t \in ToSet(q) /\ t # s
    <3>1. PICK i \in 1 .. Len(q) - 1 : r[i] = t
      BY <1>3, <2>1 DEF ToSet
    <3>2. PICK k \in 1 .. Len(q) : q[k] = t /\ k # n
      <4>1. CASE i < n
        BY <1>0, <1>1, <1>2, <3>1, <4>1
      <4>2. CASE ~(i < n)
        <5>1. q[i + 1] = t /\ i + 1 \in 1 .. Len(q) /\ i + 1 # n
          BY <1>0, <1>1, <1>2, <3>1, <4>2
        <5>2. QED
          BY <5>1
      <4>3. QED
        BY <4>1, <4>2
    <3>3. q[k] # q[n]
      BY <1>0, <1>1, <3>2 DEF Indexes, IsInjective
    <3>4. QED
      BY <1>0, <1>1, <3>2, <3>3 DEF ToSet
  <2>2. ASSUME t \in ToSet(q), t # s PROVE t \in ToSet(r)
    <3>1. PICK i \in 1 .. Len(q) : q[i] = t
      BY <1>0, <2>2 DEF ToSet
    <3>2. CASE i < n
      <4>1. i \in 1 .. Len(q) - 1 /\ r[i] = t
        BY <1>0, <1>1, <1>2, <3>1, <3>2
      <4>2. QED
        BY <1>3, <4>1 DEF ToSet
    <3>3. CASE i > n
      <4>1. i - 1 \in 1 .. Len(q) - 1 /\ r[i - 1] = t
        BY <1>0, <1>1, <1>2, <3>1, <3>3
      <4>2. QED
        BY <1>3, <4>1 DEF ToSet
    <3>4. i # n
      BY <1>1, <2>2, <3>1
    <3>5. QED
      BY <1>1, <3>2, <3>3, <3>4
  <2>3. QED
    BY <2>1, <2>2
<1>6. QED
  BY <1>2, <1>4, <1>5 DEF Indexes, Vacated, r

-----------------------------------------------------------------------------
(* The inductive invariant.                                                *)

(* What the loop of a flush relies on: it has a position to wait at, and   *)
(* the output counters of a kind are set by its first packet.              *)
Wellformed ==
  /\ pc = "flush" => nextSeq[cur] # Nil
  /\ \A k \in Kinds : (lastOutputTimestamp[k] = Nil) <=> (emitted[k] = << >>)

Inv == TypeOK /\ OrderIndexesBuffer /\ BufferBounded /\ GaplessOutput /\ Wellformed

(* Nil is none of the values it stands in for.                             *)
LEMMA NilIsNew == Nil \notin BufferedPacket /\ Nil \notin SeqNums /\ Nil \notin Timestamps
BY NilAssumption

(* uint16 and uint32 arithmetic stays in its range.                        *)
LEMMA Wraps ==
  ASSUME NEW n \in Nat \ {0}, NEW x \in Int
  PROVE  x % n \in 0 .. n - 1
OBVIOUS

(* The constructor establishes the invariant.                              *)
LEMMA InitInv == Init => Inv
<1> SUFFICES ASSUME Init PROVE Inv
  OBVIOUS
<1> USE DEF Init
<1>1. 0 \in SeqNums /\ 0 \in Timestamps
  BY SpaceAssumption DEF SeqNums, Timestamps
<1>2. TypeOK
  <2>1. rtpChan \in Seq(Packet)
    OBVIOUS
  <2>2. buf \in [Kinds -> [SeqNums -> BufferedPacket \cup {Nil}]]
    OBVIOUS
  <2>3. order \in [Kinds -> Seq(SeqNums)]
    OBVIOUS
  <2>4. emitted \in [Kinds -> Seq(EmittedPacket)]
    OBVIOUS
  <2>5. /\ nextSeq \in [Kinds -> SeqNums \cup {Nil}]
        /\ outgoingSeq \in [Kinds -> SeqNums]
        /\ lastInputTimestamp \in [Kinds -> Timestamps]
        /\ lastOutputTimestamp \in [Kinds -> Timestamps \cup {Nil}]
    BY <1>1
  <2>6. cur \in Kinds
    BY DEF Kinds
  <2>7. QED
    BY <2>1, <2>2, <2>3, <2>4, <2>5, <2>6 DEF TypeOK
<1>3. OrderIndexesBuffer
  BY DEF OrderIndexesBuffer, IsInjective, ToSet
<1>4. BufferBounded
  BY BoundAssumption DEF BufferBounded
<1>5. GaplessOutput
  BY DEF GaplessOutput, Consecutive
<1>6. Wellformed
  BY DEF Wellformed
<1>7. QED
  BY <1>2, <1>3, <1>4, <1>5, <1>6 DEF Inv

(* RTSPBuffer.Add keeps the order an index of the slots, within its bound. *)
LEMMA AddKeepsIndex ==
  ASSUME TypeOK, OrderIndexesBuffer, BufferBounded, NEW p \in Packet, Add(p)
  PROVE  /\ buf' \in [Kinds -> [SeqNums -> BufferedPacket \cup {Nil}]]
         /\ order' \in [Kinds -> Seq(SeqNums)]
         /\ OrderIndexesBuffer'
         /\ BufferBounded'
<1> DEFINE k == p.kind
           q == order[k]
           kept == IF Evict(k) THEN Tail(q) ELSE q
           slots == IF Evict(k) THEN [buf[k] EXCEPT ![Head(q)] = Nil] ELSE buf[k]
           new == [id |-> p.id, ts |-> p.ts, age |-> 0]
           list == IF slots[p.seq] = Nil THEN Append(kept, p.seq) ELSE kept
           filled == [slots EXCEPT ![p.seq] = new]
<1>1. /\ k \in Kinds /\ p.seq \in SeqNums /\ new \in BufferedPacket
      /\ q \in Seq(SeqNums) /\ Len(q) \in Nat
      /\ buf[k] \in [SeqNums -> BufferedPacket \cup {Nil}]
      /\ Indexes(q, buf[k]) /\ Len(q) <= MaxBufferSize
  <2>1. k \in Kinds /\ p.seq \in SeqNums /\ p.id \in Nat /\ p.ts \in Timestamps
    BY DEF Packet
  <2>2. new \in BufferedPacket
    BY <2>1, BoundAssumption DEF BufferedPacket, Ages
  <2>3. QED
    BY <2>1, <2>2 DEF TypeOK, OrderIndexesBuffer, BufferBounded, Indexes
<1>2. /\ kept \in Seq(SeqNums) /\ Len(kept) < MaxBufferSize
      /\ slots \in [SeqNums -> BufferedPacket \cup {Nil}]
      /\ Indexes(kept, slots)
  <2>1. CASE Evict(k)
    <3>1. q # << >>
      BY <1>1, <2>1, BoundAssumption DEF Evict
    <3>2. /\ Tail(q) \in Seq(SeqNums) /\ Len(Tail(q)) = Len(q) - 1
          /\ Head(q) \in SeqNums
      BY <1>1, <3>1, TailIndex
    <3>3. Indexes(Tail(q), [buf[k] EXCEPT ![Head(q)] = Nil])
      BY <1>1, <3>1, TailIndexes
    <3>4. kept = Tail(q) /\ slots = [buf[k] EXCEPT ![Head(q)] = Nil]
      BY <2>1
    <3>5. slots \in [SeqNums -> BufferedPacket \cup {Nil}]
      BY <1>1, <3>2, <3>4
    <3>6. Len(Tail(q)) < MaxBufferSize
      <4> DEFINE m == Len(Tail(q))
      <4>1. m = Len(q) - 1
        BY <3>2
      <4> HIDE DEF m
      <4>2. m < MaxBufferSize
        BY <1>1, <4>1, BoundAssumption
      <4>3. QED
        BY <4>2 DEF m
    <3>7. QED
      BY <3>2, <3>3, <3>4, <3>5, <3>6
  <2>2. CASE ~Evict(k)
    <3>1. kept = q /\ slots = buf[k]
      BY <2>2
    <3>2. Len(q) < MaxBufferSize
      BY <1>1, <2>2, BoundAssumption DEF Evict
    <3>3. QED
      BY <1>1, <3>1, <3>2
  <2>3. QED
    BY <2>1, <2>2
<1> HIDE DEF kept, slots, new
<1>3. /\ list \in Seq(SeqNums) /\ Len(list) <= MaxBufferSize
      /\ filled \in [SeqNums -> BufferedPacket \cup {Nil}]
      /\ Indexes(list, filled)
  <2>1. filled \in [SeqNums -> BufferedPacket \cup {Nil}]
    BY <1>1, <1>2
  <2>2. CASE slots[p.seq] = Nil
    <3>1. list = Append(kept, p.seq)
      BY <2>2
    <3>2. Indexes(list, filled)
      BY <1>1, <1>2, <2>2, <3>1, AppendIndexes
    <3>3. list \in Seq(SeqNums) /\ Len(list) = Len(kept) + 1 /\ Len(kept) \in Nat
      BY <1>1, <1>2, <3>1
    <3>4. QED
      BY <1>2, <2>1, <3>2, <3>3, BoundAssumption
  <2>3. CASE slots[p.seq] # Nil
    <3>1. list = kept
      BY <2>3
    <3>2. Indexes(list, filled)
      BY <1>1, <1>2, <2>3, <3>1, ReplaceIndexes
    <3>3. Len(kept) \in Nat
      BY <1>2
    <3>4. QED
      BY <1>2, <2>1, <3>1, <3>2, <3>3, BoundAssumption
  <2>4. QED
    BY <2>2, <2>3
<1>4. order' = [order EXCEPT ![k] = list] /\ buf' = [buf EXCEPT ![k] = filled]
  BY DEF Add, kept, slots, new
<1> HIDE DEF k, q, list, filled
<1>5. /\ buf' \in [Kinds -> [SeqNums -> BufferedPacket \cup {Nil}]]
      /\ order' \in [Kinds -> Seq(SeqNums)]
  BY <1>1, <1>3, <1>4 DEF TypeOK
<1>6. ASSUME NEW c \in Kinds
      PROVE  Indexes(order'[c], buf'[c]) /\ Len(order'[c]) <= MaxBufferSize
  <2>1. CASE c = k
    <3>1. order'[c] = list
      BY <1>1, <1>4, <2>1 DEF TypeOK
    <3>2. buf'[c] = filled
      BY <1>1, <1>4, <2>1 DEF TypeOK
    <3>3. QED
      BY <1>3, <3>1, <3>2
  <2>2. CASE c # k
    <3>1. order'[c] = order[c]
      BY <1>1, <1>4, <2>2 DEF TypeOK
    <3>2. buf'[c] = buf[c]
      BY <1>1, <1>4, <2>2 DEF TypeOK
    <3>3. QED
      BY <3>1, <3>2 DEF OrderIndexesBuffer, BufferBounded, Indexes
  <2>3. QED
    BY <2>1, <2>2
<1>7. QED
  BY <1>5, <1>6 DEF OrderIndexesBuffer, BufferBounded, Indexes

-----------------------------------------------------------------------------
(* Every step keeps the invariant.                                         *)

(* The write of an admitted packet only touches the channel.               *)
LEMMA WriteInv ==
  ASSUME Inv, NEW in \in Inputs, Write(in)
  PROVE  Inv'
<1> DEFINE p == [id |-> arrived + 1, kind |-> in.kind, seq |-> in.seq, ts |-> in.ts]
<1>1. in.kind \in Kinds /\ in.seq \in SeqNums /\ in.ts \in Timestamps
  BY InputAssumption
<1>2. arrived \in Nat /\ rtpChan \in Seq(Packet)
  BY DEF Inv, TypeOK
<1>3. p \in Packet
  BY <1>1, <1>2 DEF Packet
<1>4. rtpChan' \in Seq(Packet)
  <2> HIDE DEF p
  <2>1. rtpChan' = IF Len(rtpChan) < ChanCap THEN Append(rtpChan, p) ELSE rtpChan
    BY DEF Write, p
  <2>2. Append(rtpChan, p) \in Seq(Packet)
    BY <1>2, <1>3
  <2>3. QED
    BY <1>2, <2>1, <2>2
<1>5. arrived' \in Nat
  BY <1>2 DEF Write
<1>6. UNCHANGED <<bufVars, nextSeq, clockVars, loopVars, stopping>>
  BY DEF Write
<1>7. TypeOK'
  BY <1>4, <1>5, <1>6 DEF Inv, TypeOK, bufVars, clockVars, loopVars
<1>8. QED
  BY <1>6, <1>7 DEF Inv, OrderIndexesBuffer, BufferBounded, GaplessOutput, Wellformed,
                    bufVars, clockVars, loopVars

(* Growing older fills no slot and empties none.                           *)
LEMMA TimeInv ==
  ASSUME Inv, TimePasses
  PROVE  Inv'
<1>1. /\ buf' = [k \in Kinds |-> [s \in SeqNums |-> Older(buf[k][s])]]
      /\ UNCHANGED <<chanVars, order, nextSeq, clockVars, loopVars, stopping>>
  BY DEF TimePasses
<1>2. ASSUME NEW slot \in BufferedPacket \cup {Nil}
      PROVE  Older(slot) \in BufferedPacket \cup {Nil} /\ (Older(slot) = Nil <=> slot = Nil)
  <2>1. CASE slot = Nil
    BY <2>1 DEF Older
  <2>2. CASE slot # Nil /\ slot.age > StaleAge
    BY <2>2 DEF Older
  <2>3. CASE slot # Nil /\ ~(slot.age > StaleAge)
    <3>1. slot \in BufferedPacket
      BY <2>3
    <3>2. slot.age \in Ages /\ slot.age + 1 \in Ages
      BY <2>3, <3>1, BoundAssumption DEF BufferedPacket, Ages
    <3>3. [slot EXCEPT !.age = @ + 1] \in BufferedPacket
      BY <3>1, <3>2 DEF BufferedPacket
    <3>4. QED
      BY <2>3, <3>3, NilIsNew DEF Older
  <2>4. QED
    BY <2>1, <2>2, <2>3
<1>3. buf \in [Kinds -> [SeqNums -> BufferedPacket \cup {Nil}]]
  BY DEF Inv, TypeOK
<1>4. buf' \in [Kinds -> [SeqNums -> BufferedPacket \cup {Nil}]]
  BY <1>1, <1>2, <1>3
<1>5. TypeOK'
  BY <1>1, <1>4 DEF Inv, TypeOK, chanVars, clockVars, loopVars
<1>6. \A k \in Kinds : \A s \in SeqNums : buf'[k][s] = Nil <=> buf[k][s] = Nil
  BY <1>1, <1>2, <1>3
<1>7. OrderIndexesBuffer'
  BY <1>1, <1>6 DEF Inv, OrderIndexesBuffer
<1>8. QED
  BY <1>1, <1>5, <1>7 DEF Inv, BufferBounded, GaplessOutput, Wellformed,
                          chanVars, clockVars, loopVars

(* A received packet goes through Add.                                     *)
LEMMA ReceiveInv ==
  ASSUME Inv, Receive
  PROVE  Inv'
<1> DEFINE p == Head(rtpChan)
<1>1. /\ rtpChan # << >> /\ rtpChan' = Tail(rtpChan) /\ Add(p) /\ StartFlush
      /\ UNCHANGED <<nextSeq, clockVars, stopping, arrived>>
  BY DEF Receive
<1>2. p \in Packet /\ rtpChan' \in Seq(Packet)
  BY <1>1 DEF Inv, TypeOK
<1> HIDE DEF p
<1>3. /\ buf' \in [Kinds -> [SeqNums -> BufferedPacket \cup {Nil}]]
      /\ order' \in [Kinds -> Seq(SeqNums)]
      /\ OrderIndexesBuffer' /\ BufferBounded'
  BY <1>1, <1>2, AddKeepsIndex DEF Inv
<1>4. pc' = "enter" /\ cur' \in Kinds /\ sentInBatch' \in Nat
  BY <1>1 DEF StartFlush, Kinds
<1>5. TypeOK'
  BY <1>1, <1>2, <1>3, <1>4 DEF Inv, TypeOK, clockVars
<1>6. GaplessOutput' /\ Wellformed'
  BY <1>1, <1>4 DEF Inv, GaplessOutput, Wellformed, clockVars
<1>7. QED
  BY <1>3, <1>5, <1>6 DEF Inv

(* Leaving a flush only moves the goroutine on.                            *)
LEMMA LeaveInv ==
  ASSUME Inv, LeaveFlush, UNCHANGED <<chanVars, bufVars, nextSeq, clockVars, stopping>>
  PROVE  Inv'
<1>1. /\ pc' \in {"select", "enter", "cleanup"}
      /\ cur' \in Kinds /\ sentInBatch' \in Nat
  BY DEF LeaveFlush, Kinds
<1>2. TypeOK'
  BY <1>1 DEF Inv, TypeOK, chanVars, bufVars, clockVars
<1>3. QED
  BY <1>1, <1>2 DEF Inv, OrderIndexesBuffer, BufferBounded, GaplessOutput, Wellformed,
                    bufVars, clockVars

(* A flush begins at the oldest packet, or where the last one stopped.     *)
LEMMA EnterInv ==
  ASSUME Inv, EnterFlush
  PROVE  Inv'
<1>1. CASE order[cur] = << >>
  BY <1>1, LeaveInv DEF EnterFlush
<1>2. CASE order[cur] # << >>
  <2>1. /\ pc' = "flush" /\ UNCHANGED <<cur, sentInBatch>>
        /\ nextSeq' = [nextSeq EXCEPT ![cur] = IF @ = Nil THEN Head(order[cur]) ELSE @]
        /\ UNCHANGED <<chanVars, bufVars, clockVars, stopping>>
    BY <1>2 DEF EnterFlush
  <2>2. cur \in Kinds /\ order[cur] \in Seq(SeqNums)
    BY DEF Inv, TypeOK
  <2>3. Head(order[cur]) \in SeqNums
    BY <1>2, <2>2, TailIndex
  <2>4. /\ nextSeq' \in [Kinds -> SeqNums \cup {Nil}]
        /\ nextSeq'[cur] # Nil
    BY <2>1, <2>2, <2>3, NilIsNew DEF Inv, TypeOK
  <2>5. TypeOK'
    BY <2>1, <2>4 DEF Inv, TypeOK, chanVars, bufVars, clockVars
  <2>6. QED
    BY <2>1, <2>4, <2>5 DEF Inv, OrderIndexesBuffer, BufferBounded, GaplessOutput,
                            Wellformed, bufVars, clockVars
<1>3. QED
  BY <1>1, <1>2

(* A hole is skipped to the oldest packet.                                 *)
LEMMA SkipInv ==
  ASSUME Inv, SkipHole
  PROVE  Inv'
<1>1. /\ order[cur] # << >>
      /\ nextSeq' = [nextSeq EXCEPT ![cur] = Head(order[cur])]
      /\ UNCHANGED <<chanVars, bufVars, clockVars, loopVars, stopping>>
  BY DEF SkipHole, LoopGoesOn
<1>2. cur \in Kinds /\ order[cur] \in Seq(SeqNums)
  BY DEF Inv, TypeOK
<1>3. Head(order[cur]) \in SeqNums
  BY <1>1, <1>2, TailIndex
<1>4. nextSeq' \in [Kinds -> SeqNums \cup {Nil}] /\ nextSeq'[cur] # Nil
  BY <1>1, <1>2, <1>3, NilIsNew DEF Inv, TypeOK
<1>5. TypeOK'
  BY <1>1, <1>4 DEF Inv, TypeOK, chanVars, bufVars, clockVars, loopVars
<1>6. QED
  BY <1>1, <1>4, <1>5 DEF Inv, OrderIndexesBuffer, BufferBounded, GaplessOutput,
                          Wellformed, bufVars, clockVars, loopVars

(* Shutdown: the last flush begins, or the buffers are emptied.            *)
LEMMA DrainInv ==
  ASSUME Inv, Drain
  PROVE  Inv'
<1>1. /\ pc' = "enter" /\ cur' \in Kinds /\ sentInBatch' \in Nat
      /\ stopping' = "draining"
      /\ UNCHANGED <<chanVars, bufVars, nextSeq, clockVars>>
  BY DEF Drain, StartFlush, Kinds
<1>2. TypeOK'
  BY <1>1 DEF Inv, TypeOK, chanVars, bufVars, clockVars
<1>3. QED
  BY <1>1, <1>2 DEF Inv, OrderIndexesBuffer, BufferBounded, GaplessOutput, Wellformed,
                    bufVars, clockVars

(* The tick of the flush timer starts a flush.                             *)
LEMMA TickInv ==
  ASSUME Inv, Tick
  PROVE  Inv'
<1>1. /\ pc' = "enter" /\ cur' \in Kinds /\ sentInBatch' \in Nat
      /\ UNCHANGED <<chanVars, bufVars, nextSeq, clockVars, stopping>>
  BY DEF Tick, StartFlush, Kinds
<1>2. TypeOK'
  BY <1>1 DEF Inv, TypeOK, chanVars, bufVars, clockVars
<1>3. QED
  BY <1>1, <1>2 DEF Inv, OrderIndexesBuffer, BufferBounded, GaplessOutput, Wellformed,
                    bufVars, clockVars

(* Cleanup empties every listed slot, and those are all that are filled.   *)
LEMMA CleanupInv ==
  ASSUME Inv, Cleanup
  PROVE  Inv'
<1>1. /\ pc' = "done"
      /\ buf' = [k \in Kinds |-> CleanupSlots(k)]
      /\ order' = [k \in Kinds |-> << >>]
      /\ UNCHANGED <<chanVars, nextSeq, clockVars, cur, sentInBatch, stopping>>
  BY DEF Cleanup
<1>2. /\ buf \in [Kinds -> [SeqNums -> BufferedPacket \cup {Nil}]]
      /\ OrderIndexesBuffer
  BY DEF Inv, TypeOK
<1>3. \A k \in Kinds : CleanupSlots(k) \in [SeqNums -> BufferedPacket \cup {Nil}]
  BY <1>2 DEF CleanupSlots
<1>4. buf' \in [Kinds -> [SeqNums -> BufferedPacket \cup {Nil}]]
  BY <1>1, <1>3
<1>5. order' \in [Kinds -> Seq(SeqNums)]
  BY <1>1
<1>6. TypeOK'
  BY <1>1, <1>4, <1>5 DEF Inv, TypeOK, chanVars, clockVars
<1>7. \A k \in Kinds : \A s \in SeqNums : buf'[k][s] = Nil
  BY <1>1, <1>2 DEF CleanupSlots, OrderIndexesBuffer
<1>8. \A k \in Kinds : IsInjective(order'[k]) /\ ToSet(order'[k]) = {} /\ Len(order'[k]) = 0
  BY <1>1 DEF IsInjective, ToSet
<1>9. OrderIndexesBuffer' /\ BufferBounded'
  BY <1>7, <1>8, BoundAssumption DEF OrderIndexesBuffer, BufferBounded
<1>10. QED
  BY <1>1, <1>6, <1>9 DEF Inv, GaplessOutput, Wellformed, clockVars

(* The numbers and times given to a packet are in range.                   *)
LEMMA RewriteInRange ==
  ASSUME TypeOK, NEW k \in Kinds, nextSeq[k] # Nil, NEW ts \in Timestamps
  PROVE  OutSeq(k) \in SeqNums /\ OutTS(k, ts) \in Timestamps
<1>1. /\ nextSeq[k] \in SeqNums /\ outgoingSeq[k] \in Int
      /\ lastInputTimestamp[k] \in Int
      /\ lastOutputTimestamp[k] # Nil => lastOutputTimestamp[k] \in Int
      /\ ts \in Int
  BY SpaceAssumption DEF TypeOK, SeqNums, Timestamps
<1>2. OutSeq(k) \in SeqNums
  <2>1. (outgoingSeq[k] + 1) % SeqSpace \in SeqNums
    BY <1>1, SpaceAssumption, Wraps DEF SeqNums
  <2>2. QED
    BY <1>1, <2>1 DEF OutSeq
<1>3. TimestampStep(k, ts) \in Int
  <2>1. (ts - lastInputTimestamp[k]) % TSSpace \in Int
    BY <1>1, SpaceAssumption, Wraps
  <2>2. QED
    BY <2>1 DEF TimestampStep
<1>4. OutTS(k, ts) \in Timestamps
  <2>1. CASE lastOutputTimestamp[k] = Nil
    BY <2>1 DEF OutTS
  <2>2. CASE lastOutputTimestamp[k] # Nil
    <3>1. (lastOutputTimestamp[k] + TimestampStep(k, ts)) % TSSpace \in Timestamps
      <4>1. lastOutputTimestamp[k] + TimestampStep(k, ts) \in Int
        BY <1>1, <1>3, <2>2
      <4>2. QED
        BY <4>1, SpaceAssumption, Wraps DEF Timestamps
    <3>2. QED
      BY <2>2, <3>1 DEF OutTS
  <2>3. QED
    BY <2>1, <2>2
<1>5. QED
  BY <1>2, <1>4

(* One more packet, numbered after the last, keeps the output gapless.     *)
LEMMA AppendConsecutive ==
  ASSUME NEW out \in Seq(EmittedPacket), NEW e \in EmittedPacket, Consecutive(out),
         out # << >> => e.seq = (Last(out).seq + 1) % SeqSpace
  PROVE  /\ Append(out, e) \in Seq(EmittedPacket) /\ Append(out, e) # << >>
         /\ Consecutive(Append(out, e))
         /\ Last(Append(out, e)) = e
<1> DEFINE more == Append(out, e)
<1>1. /\ more \in Seq(EmittedPacket) /\ Len(more) = Len(out) + 1 /\ Len(out) \in Nat
      /\ more[Len(out) + 1] = e
      /\ \A i \in 1 .. Len(out) : more[i] = out[i]
  OBVIOUS
<1> HIDE DEF more
<1>2. Last(more) = e /\ more # << >>
  BY <1>1 DEF Last
<1>3. Consecutive(more)
  <2> SUFFICES ASSUME NEW i \in 1 .. Len(more) - 1
               PROVE  more[i + 1].seq = (more[i].seq + 1) % SeqSpace
    BY DEF Consecutive
  <2>1. CASE i = Len(out)
    <3>1. out # << >>
      <4>1. Len(out) # 0
        BY <1>1, <2>1
      <4>2. QED
        BY <4>1
    <3>2. Last(out) = out[i]
      BY <2>1 DEF Last
    <3>3. more[i + 1] = e /\ more[i] = out[i]
      BY <1>1, <2>1
    <3>4. QED
      BY <3>1, <3>2, <3>3
  <2>2. CASE i # Len(out)
    <3>1. i \in 1 .. Len(out) - 1
      BY <1>1, <2>2
    <3>2. more[i + 1] = out[i + 1] /\ more[i] = out[i]
      BY <1>1, <3>1
    <3>3. QED
      BY <3>1, <3>2 DEF Consecutive
  <2>3. QED
    BY <2>1, <2>2
<1>4. QED
  BY <1>1, <1>2, <1>3 DEF more

(* An emitted packet leaves its slot and the order, and continues the      *)
(* numbering of the output.                                                *)
LEMMA EmitInv ==
  ASSUME Inv, EmitPacket
  PROVE  Inv'
<1> DEFINE s == nextSeq[cur]
           p == buf[cur][s]
           e == [id |-> p.id, orig |-> s, inTS |-> p.ts, seq |-> OutSeq(cur),
                 ts |-> OutTS(cur, p.ts), stale |-> p.age > StaleAge]
<1>1. /\ pc = "flush" /\ p # Nil
      /\ emitted' = [emitted EXCEPT ![cur] = Append(@, e)]
      /\ outgoingSeq' = [outgoingSeq EXCEPT ![cur] = OutSeq(cur)]
      /\ lastOutputTimestamp' = [lastOutputTimestamp EXCEPT ![cur] = OutTS(cur, p.ts)]
      /\ lastInputTimestamp' = [lastInputTimestamp EXCEPT ![cur] = p.ts]
      /\ buf' = [buf EXCEPT ![cur] = Vacated(@, s)]
      /\ order' = [order EXCEPT ![cur] = Without(@, s)]
      /\ nextSeq' = [nextSeq EXCEPT ![cur] = (s + 1) % SeqSpace]
      /\ sentInBatch' = sentInBatch + 1
      /\ UNCHANGED <<chanVars, pc, cur, stopping>>
  BY DEF EmitPacket, Hole
<1>2. /\ cur \in Kinds /\ s \in SeqNums
      /\ buf[cur] \in [SeqNums -> BufferedPacket \cup {Nil}]
      /\ order[cur] \in Seq(SeqNums) /\ Indexes(order[cur], buf[cur])
      /\ Len(order[cur]) \in Nat /\ Len(order[cur]) <= MaxBufferSize
  BY <1>1 DEF Inv, TypeOK, Wellformed, OrderIndexesBuffer, BufferBounded, Indexes
<1>3. p \in BufferedPacket
  BY <1>1, <1>2
<1>4. p.id \in Nat /\ p.ts \in Timestamps
  BY <1>3 DEF BufferedPacket
<1>5. OutSeq(cur) \in SeqNums /\ OutTS(cur, p.ts) \in Timestamps
  BY <1>1, <1>2, <1>4, NilIsNew, RewriteInRange DEF Inv
<1>6. e \in EmittedPacket
  BY <1>2, <1>4, <1>5 DEF EmittedPacket
<1>7. (s + 1) % SeqSpace \in SeqNums
  <2>1. s + 1 \in Int
    BY <1>2, SpaceAssumption DEF SeqNums
  <2>2. QED
    BY <2>1, SpaceAssumption, Wraps DEF SeqNums
<1>8. /\ Without(order[cur], s) \in Seq(SeqNums)
      /\ Len(Without(order[cur], s)) = Len(order[cur]) - 1
      /\ Indexes(Without(order[cur], s), Vacated(buf[cur], s))
  BY <1>1, <1>2, WithoutIndexes
<1>9. Vacated(buf[cur], s) \in [SeqNums -> BufferedPacket \cup {Nil}]
  BY <1>2 DEF Vacated
<1>10. /\ emitted[cur] \in Seq(EmittedPacket) /\ Consecutive(emitted[cur])
       /\ emitted[cur] # << >> => e.seq = (Last(emitted[cur]).seq + 1) % SeqSpace
  <2>1. emitted[cur] # << >> => lastOutputTimestamp[cur] # Nil
    BY <1>2 DEF Inv, Wellformed
  <2>2. QED
    BY <1>2, <2>1 DEF Inv, TypeOK, GaplessOutput, OutSeq
<1> HIDE DEF e
<1>11. /\ Append(emitted[cur], e) \in Seq(EmittedPacket)
       /\ Append(emitted[cur], e) # << >>
       /\ Consecutive(Append(emitted[cur], e))
       /\ Last(Append(emitted[cur], e)) = e
  BY <1>6, <1>10, AppendConsecutive
<1> HIDE DEF s, p
<1>12. TypeOK'
  <2>1. emitted' \in [Kinds -> Seq(EmittedPacket)]
    BY <1>1, <1>11 DEF Inv, TypeOK
  <2>2. buf' \in [Kinds -> [SeqNums -> BufferedPacket \cup {Nil}]]
    BY <1>1, <1>9 DEF Inv, TypeOK
  <2>3. order' \in [Kinds -> Seq(SeqNums)]
    BY <1>1, <1>8 DEF Inv, TypeOK
  <2>4. /\ nextSeq' \in [Kinds -> SeqNums \cup {Nil}]
        /\ outgoingSeq' \in [Kinds -> SeqNums]
        /\ lastInputTimestamp' \in [Kinds -> Timestamps]
        /\ lastOutputTimestamp' \in [Kinds -> Timestamps \cup {Nil}]
        /\ sentInBatch' \in Nat
    BY <1>1, <1>4, <1>5, <1>7 DEF Inv, TypeOK
  <2>5. QED
    BY <1>1, <2>1, <2>2, <2>3, <2>4 DEF Inv, TypeOK, chanVars
<1>13. \A k \in Kinds :
         Indexes(order'[k], buf'[k]) /\ Len(order'[k]) <= MaxBufferSize
  <2> TAKE k \in Kinds
  <2>1. CASE k = cur
    <3>1. order'[k] = Without(order[cur], s)
      BY <1>1, <2>1 DEF Inv, TypeOK
    <3>2. buf'[k] = Vacated(buf[cur], s)
      BY <1>1, <2>1 DEF Inv, TypeOK
    <3>3. Len(Without(order[cur], s)) <= MaxBufferSize
      BY <1>2, <1>8, BoundAssumption
    <3>4. QED
      BY <1>8, <3>1, <3>2, <3>3
  <2>2. CASE k # cur
    BY <1>1, <2>2 DEF Inv, TypeOK, OrderIndexesBuffer, BufferBounded, Indexes
  <2>3. QED
    BY <2>1, <2>2
<1>14. OrderIndexesBuffer' /\ BufferBounded'
  BY <1>13 DEF OrderIndexesBuffer, BufferBounded, Indexes
<1>15. e.seq = OutSeq(cur)
  BY DEF e
<1>16. \A k \in Kinds :
         /\ Consecutive(emitted'[k])
         /\ emitted'[k] # << >> => outgoingSeq'[k] = Last(emitted'[k]).seq
         /\ (lastOutputTimestamp'[k] = Nil) <=> (emitted'[k] = << >>)
  <2> TAKE k \in Kinds
  <2>1. CASE k = cur
    <3>1. emitted'[k] = Append(emitted[cur], e)
      BY <1>1, <2>1 DEF Inv, TypeOK
    <3>2. outgoingSeq'[k] = OutSeq(cur) /\ lastOutputTimestamp'[k] = OutTS(cur, p.ts)
      BY <1>1, <2>1 DEF Inv, TypeOK
    <3>3. QED
      BY <1>5, <1>11, <1>15, <3>1, <3>2, NilIsNew
  <2>2. CASE k # cur
    <3>1. /\ emitted'[k] = emitted[k] /\ outgoingSeq'[k] = outgoingSeq[k]
          /\ lastOutputTimestamp'[k] = lastOutputTimestamp[k]
      BY <1>1, <2>2 DEF Inv, TypeOK
    <3>2. QED
      BY <3>1 DEF Inv, GaplessOutput, Wellformed
  <2>3. QED
    BY <2>1, <2>2
<1>17. GaplessOutput'
  BY <1>16 DEF GaplessOutput
<1>18. Wellformed'
  <2>1. nextSeq'[cur'] # Nil
    BY <1>1, <1>2, <1>7, NilIsNew DEF Inv, TypeOK
  <2>2. QED
    BY <1>16, <2>1 DEF Wellformed
<1>19. QED
  BY <1>12, <1>14, <1>17, <1>18 DEF Inv

(* The end of a flush leaves everything but the goroutine's place.         *)
LEMMA EndFlushInv ==
  ASSUME Inv, EndFlush
  PROVE  Inv'
BY LeaveInv DEF EndFlush

(* Every action of the specification keeps the invariant.                  *)
LEMMA NextInv == Inv /\ [Next]_vars => Inv'
<1> SUFFICES ASSUME Inv, [Next]_vars PROVE Inv'
  OBVIOUS
<1>1. ASSUME NEW in \in Inputs, Write(in) PROVE Inv'
  BY <1>1, WriteInv
<1>2. CASE TimePasses
  BY <1>2, TimeInv
<1>3. CASE Stop
  BY <1>3 DEF Stop, Inv, TypeOK, OrderIndexesBuffer, BufferBounded, GaplessOutput,
              Wellformed, chanVars, bufVars, clockVars, loopVars
<1>4. CASE Receive
  BY <1>4, ReceiveInv
<1>5. CASE Tick
  BY <1>5, TickInv
<1>6. CASE Flushing
  BY <1>6, EnterInv, SkipInv, EmitInv, EndFlushInv DEF Flushing
<1>7. CASE Drain
  BY <1>7, DrainInv
<1>8. CASE Cleanup
  BY <1>8, CleanupInv
<1>9. CASE UNCHANGED vars
  BY <1>9 DEF vars, Inv, TypeOK, OrderIndexesBuffer, BufferBounded, GaplessOutput,
              Wellformed, chanVars, bufVars, clockVars, loopVars
<1>10. QED
  BY <1>1, <1>2, <1>3, <1>4, <1>5, <1>6, <1>7, <1>8, <1>9 DEF Next

-----------------------------------------------------------------------------
(* What a flush hands out, packet after packet.                            *)

(* The packet that EmitPacket hands to the server.                         *)
Emission ==
  LET p == buf[cur][nextSeq[cur]]
  IN  [id |-> p.id, orig |-> nextSeq[cur], inTS |-> p.ts, seq |-> OutSeq(cur),
       ts |-> OutTS(cur, p.ts), stale |-> p.age > StaleAge]

LEMMA EmitStep ==
  ASSUME Inv, EmitPacket
  PROVE  /\ cur \in Kinds /\ nextSeq[cur] \in SeqNums /\ pc = "flush"
         /\ buf[cur][nextSeq[cur]] \in BufferedPacket /\ buf[cur][nextSeq[cur]] # Nil
         /\ Emission \in EmittedPacket
         /\ emitted' = [emitted EXCEPT ![cur] = Append(emitted[cur], Emission)]
         /\ emitted \in [Kinds -> Seq(EmittedPacket)]
         /\ buf' = [buf EXCEPT ![cur] = Vacated(buf[cur], nextSeq[cur])]
         /\ buf \in [Kinds -> [SeqNums -> BufferedPacket \cup {Nil}]]
         /\ nextSeq' = [nextSeq EXCEPT ![cur] = (nextSeq[cur] + 1) % SeqSpace]
         /\ lastInputTimestamp' =
              [lastInputTimestamp EXCEPT ![cur] = buf[cur][nextSeq[cur]].ts]
         /\ lastOutputTimestamp' =
              [lastOutputTimestamp EXCEPT ![cur] = OutTS(cur, buf[cur][nextSeq[cur]].ts)]
         /\ sentInBatch < MaxFlushBatch /\ sentInBatch' = sentInBatch + 1
<1> DEFINE p == buf[cur][nextSeq[cur]]
<1>1. /\ pc = "flush" /\ sentInBatch < MaxFlushBatch /\ sentInBatch' = sentInBatch + 1
      /\ p # Nil
      /\ buf' = [buf EXCEPT ![cur] = Vacated(buf[cur], nextSeq[cur])]
      /\ nextSeq' = [nextSeq EXCEPT ![cur] = (nextSeq[cur] + 1) % SeqSpace]
      /\ lastInputTimestamp' = [lastInputTimestamp EXCEPT ![cur] = p.ts]
      /\ lastOutputTimestamp' = [lastOutputTimestamp EXCEPT ![cur] = OutTS(cur, p.ts)]
      /\ emitted' = [emitted EXCEPT ![cur] = Append(emitted[cur], Emission)]
  BY DEF EmitPacket, Hole, LoopGoesOn, Emission
<1>2. /\ cur \in Kinds /\ nextSeq[cur] \in SeqNums
      /\ emitted \in [Kinds -> Seq(EmittedPacket)]
      /\ buf \in [Kinds -> [SeqNums -> BufferedPacket \cup {Nil}]]
  BY <1>1 DEF Inv, TypeOK, Wellformed
<1>3. p \in BufferedPacket
  BY <1>1, <1>2
<1>4. p.id \in Nat /\ p.ts \in Timestamps
  BY <1>3 DEF BufferedPacket
<1>5. OutSeq(cur) \in SeqNums /\ OutTS(cur, p.ts) \in Timestamps
  BY <1>2, <1>4, NilIsNew, RewriteInRange DEF Inv
<1>6. Emission \in EmittedPacket
  BY <1>2, <1>4, <1>5 DEF EmittedPacket, Emission
<1> QED
  BY <1>1, <1>2, <1>3, <1>6

(* The neighbours in a longer list: old ones, and the last with the new.   *)
LEMMA AppendPairs ==
  ASSUME NEW S, NEW out \in Seq(S), NEW e \in S
  PROVE  /\ Append(out, e) \in Seq(S) /\ Append(out, e) # << >>
         /\ Last(Append(out, e)) = e
         /\ Len(Append(out, e)) = Len(out) + 1 /\ Len(out) \in Nat
         /\ Append(out, e)[Len(out) + 1] = e
         /\ \A i \in 1 .. Len(out) : Append(out, e)[i] = out[i]
         /\ \A i \in 1 .. Len(Append(out, e)) - 1 :
              \/ /\ i \in 1 .. Len(out) - 1
                 /\ Append(out, e)[i] = out[i] /\ Append(out, e)[i + 1] = out[i + 1]
              \/ /\ out # << >>
                 /\ Append(out, e)[i] = Last(out) /\ Append(out, e)[i + 1] = e
<1> DEFINE more == Append(out, e)
<1>1. /\ more \in Seq(S) /\ Len(more) = Len(out) + 1 /\ Len(out) \in Nat
      /\ more[Len(out) + 1] = e
      /\ \A i \in 1 .. Len(out) : more[i] = out[i]
      /\ Len(out) # 0 => out # << >>
  OBVIOUS
<1> HIDE DEF more
<1>2. more # << >> /\ Last(more) = e
  BY <1>1 DEF Last
<1>3. \A i \in 1 .. Len(more) - 1 :
        \/ i \in 1 .. Len(out) - 1 /\ more[i] = out[i] /\ more[i + 1] = out[i + 1]
        \/ out # << >> /\ more[i] = Last(out) /\ more[i + 1] = e
  <2> TAKE i \in 1 .. Len(more) - 1
  <2>1. CASE i = Len(out)
    BY <1>1, <2>1 DEF Last
  <2>2. CASE i # Len(out)
    BY <1>1, <2>2
  <2> QED
    BY <2>1, <2>2
<1> QED
  BY <1>1, <1>2, <1>3 DEF more

(***************************************************************************)
(* Order: a flush waits for the successor of what it emitted last, unless  *)
(* it has just skipped to a stale packet, which it emits next.             *)
(***************************************************************************)
AtStale(k) ==
  /\ pc = "flush" /\ cur = k /\ LoopGoesOn /\ ~Hole
  /\ buf[k][nextSeq[k]].age > StaleAge

Waits(k) ==
  emitted[k] # << >> =>
    \/ nextSeq[k] = (Last(emitted[k]).orig + 1) % SeqSpace
    \/ AtStale(k)

OrderInv ==
  /\ sentInBatch <= MaxFlushBatch
  /\ InOrderOrStale
  /\ \A k \in Kinds : Waits(k)

(* A step outside the loop of a flush moves no position.                   *)
LEMMA OrderRests ==
  ASSUME Inv, OrderInv, UNCHANGED <<nextSeq, emitted>>, pc # "flush",
         sentInBatch' <= MaxFlushBatch
  PROVE  OrderInv'
BY DEF OrderInv, InOrderOrStale, Waits, AtStale

LEMMA TimeOrder ==
  ASSUME Inv, OrderInv, TimePasses
  PROVE  OrderInv'
<1>1. /\ buf' = [k \in Kinds |-> [s \in SeqNums |-> Older(buf[k][s])]]
      /\ UNCHANGED <<order, nextSeq, emitted, pc, cur, sentInBatch>>
  BY DEF TimePasses, clockVars, loopVars
<1>2. ASSUME NEW k \in Kinds, AtStale(k) PROVE AtStale(k)'
  <2>1. /\ pc = "flush" /\ cur = k /\ nextSeq[k] \in SeqNums /\ LoopGoesOn
        /\ buf[k][nextSeq[k]] # Nil /\ buf[k][nextSeq[k]].age > StaleAge
    BY <1>2 DEF AtStale, Hole, Inv, TypeOK, Wellformed
  <2>2. buf'[k][nextSeq[k]] = Older(buf[k][nextSeq[k]])
    BY <1>1, <2>1
  <2>3. Older(buf[k][nextSeq[k]]) = buf[k][nextSeq[k]]
    BY <2>1 DEF Older
  <2>4. LoopGoesOn'
    BY <1>1, <2>1 DEF LoopGoesOn
  <2> QED
    BY <1>1, <2>1, <2>2, <2>3, <2>4 DEF AtStale, Hole
<1> QED
  BY <1>1, <1>2 DEF OrderInv, InOrderOrStale, Waits

LEMMA EnterOrder ==
  ASSUME Inv, OrderInv, EnterFlush
  PROVE  OrderInv'
<1>1. pc = "enter" /\ UNCHANGED emitted /\ cur \in Kinds /\ sentInBatch' <= MaxFlushBatch
  BY BoundAssumption DEF EnterFlush, LeaveFlush, clockVars, OrderInv, Inv, TypeOK
<1>2. \A k \in Kinds : nextSeq[k] # Nil => nextSeq'[k] = nextSeq[k]
  BY DEF EnterFlush, Inv, TypeOK
<1>3. ASSUME NEW k \in Kinds, emitted[k] # << >>
      PROVE  nextSeq'[k] = (Last(emitted[k]).orig + 1) % SeqSpace
  <2>1. nextSeq[k] = (Last(emitted[k]).orig + 1) % SeqSpace
    BY <1>1, <1>3 DEF OrderInv, Waits, AtStale
  <2>2. Last(emitted[k]) \in EmittedPacket
    BY <1>3 DEF Inv, TypeOK, Last
  <2>3. Last(emitted[k]).orig + 1 \in Int
    BY <2>2, SpaceAssumption DEF EmittedPacket, SeqNums
  <2>4. nextSeq[k] \in SeqNums
    BY <2>1, <2>3, SpaceAssumption, Wraps DEF SeqNums
  <2> QED
    BY <1>2, <2>1, <2>4, NilIsNew
<1> QED
  BY <1>1, <1>3 DEF OrderInv, InOrderOrStale, Waits

LEMMA SkipOrder ==
  ASSUME Inv, OrderInv, SkipHole
  PROVE  OrderInv'
<1>1. /\ pc = "flush" /\ LoopGoesOn /\ HeadIsStale
      /\ nextSeq' = [nextSeq EXCEPT ![cur] = Head(order[cur])]
      /\ UNCHANGED <<buf, order, emitted, pc, cur, sentInBatch>>
      /\ cur \in Kinds /\ nextSeq \in [Kinds -> SeqNums \cup {Nil}]
  BY DEF SkipHole, bufVars, clockVars, loopVars, Inv, TypeOK
<1>2. nextSeq'[cur] = Head(order[cur])
  BY <1>1
<1>3. AtStale(cur)'
  BY <1>1, <1>2 DEF AtStale, LoopGoesOn, Hole, HeadIsStale
<1>4. ASSUME NEW k \in Kinds, k # cur PROVE Waits(k)'
  <2>1. ~AtStale(k) /\ nextSeq'[k] = nextSeq[k] /\ emitted'[k] = emitted[k]
    BY <1>1, <1>4 DEF AtStale
  <2> QED
    BY <2>1 DEF OrderInv, Waits
<1> QED
  BY <1>1, <1>3, <1>4 DEF OrderInv, InOrderOrStale, Waits

LEMMA EmitOrder ==
  ASSUME Inv, OrderInv, EmitPacket
  PROVE  OrderInv'
<1> DEFINE e == Emission
           out == emitted[cur]
<1>1. /\ cur \in Kinds /\ e \in EmittedPacket /\ out \in Seq(EmittedPacket)
      /\ emitted'[cur] = Append(out, e)
      /\ nextSeq'[cur] = (nextSeq[cur] + 1) % SeqSpace
      /\ \A k \in Kinds \ {cur} : emitted'[k] = emitted[k] /\ nextSeq'[k] = nextSeq[k]
      /\ pc = "flush"
      /\ e.orig = nextSeq[cur] /\ e.stale = (buf[cur][nextSeq[cur]].age > StaleAge)
      /\ sentInBatch' <= MaxFlushBatch
  <2>1. nextSeq \in [Kinds -> SeqNums \cup {Nil}] /\ sentInBatch \in Nat
    BY DEF Inv, TypeOK
  <2> QED
    BY <2>1, EmitStep, BoundAssumption DEF Emission
<1>2. out # << >> => e.orig = (Last(out).orig + 1) % SeqSpace \/ e.stale
  BY <1>1 DEF OrderInv, Waits, AtStale
<1> HIDE DEF e, out
<1> DEFINE more == Append(out, e)
<1>3. /\ Last(more) = e
      /\ \A i \in 1 .. Len(more) - 1 :
           \/ i \in 1 .. Len(out) - 1 /\ more[i] = out[i] /\ more[i + 1] = out[i + 1]
           \/ out # << >> /\ more[i] = Last(out) /\ more[i + 1] = e
  BY <1>1, AppendPairs
<1> HIDE DEF more
<1>4. emitted'[cur] = more
  BY <1>1 DEF more
<1>5. ASSUME NEW k \in Kinds, NEW i \in 1 .. Len(emitted'[k]) - 1
      PROVE  \/ emitted'[k][i + 1].orig = (emitted'[k][i].orig + 1) % SeqSpace
             \/ emitted'[k][i + 1].stale
  <2>1. CASE k = cur
    <3>1. \/ /\ i \in 1 .. Len(out) - 1
             /\ emitted'[k][i] = out[i] /\ emitted'[k][i + 1] = out[i + 1]
          \/ out # << >> /\ emitted'[k][i] = Last(out) /\ emitted'[k][i + 1] = e
      BY <1>3, <1>4, <2>1
    <3> QED
      BY <1>2, <2>1, <3>1 DEF OrderInv, InOrderOrStale, out
  <2>2. CASE k # cur
    BY <1>1, <2>2 DEF OrderInv, InOrderOrStale
  <2> QED
    BY <2>1, <2>2
<1>6. ASSUME NEW k \in Kinds PROVE Waits(k)'
  <2>1. CASE k = cur
    <3>1. Last(emitted'[k]) = e
      BY <1>3, <1>4, <2>1
    <3> QED
      BY <1>1, <2>1, <3>1 DEF Waits
  <2>2. CASE k # cur
    BY <1>1, <2>2 DEF OrderInv, Waits, AtStale
  <2> QED
    BY <2>1, <2>2
<1> QED
  BY <1>1, <1>5, <1>6 DEF OrderInv, InOrderOrStale

LEMMA EndOrder ==
  ASSUME Inv, OrderInv, EndFlush
  PROVE  OrderInv'
<1>1. /\ FlushEnds /\ pc = "flush" /\ sentInBatch' = 0
      /\ UNCHANGED <<nextSeq, emitted>>
  BY DEF EndFlush, LeaveFlush, clockVars
<1>2. \A k \in Kinds : ~AtStale(k)
  BY <1>1 DEF FlushEnds, AtStale
<1> QED
  BY <1>1, <1>2, BoundAssumption DEF OrderInv, InOrderOrStale, Waits

LEMMA OrderStep == Inv /\ OrderInv /\ [Next]_vars => OrderInv'
<1> SUFFICES ASSUME Inv, OrderInv, [Next]_vars PROVE OrderInv'
  OBVIOUS
<1> USE DEF chanVars, bufVars, clockVars, loopVars
<1>1. ASSUME NEW in \in Inputs, Write(in) PROVE OrderInv'
  BY <1>1 DEF Write, OrderInv, InOrderOrStale, Waits, AtStale, LoopGoesOn, Hole
<1>2. CASE TimePasses
  BY <1>2, TimeOrder
<1>3. CASE Stop \/ UNCHANGED vars
  BY <1>3 DEF Stop, vars, OrderInv, InOrderOrStale, Waits, AtStale, LoopGoesOn, Hole
<1>4. CASE Receive \/ Tick \/ Drain
  BY <1>4, OrderRests, BoundAssumption DEF Receive, Tick, Drain, StartFlush
<1>5. CASE Flushing
  BY <1>5, EnterOrder, SkipOrder, EmitOrder, EndOrder DEF Flushing
<1>6. CASE Cleanup
  BY <1>6, OrderRests DEF Cleanup, OrderInv
<1> QED
  BY <1>1, <1>2, <1>3, <1>4, <1>5, <1>6 DEF Next

(***************************************************************************)
(* Clock: what the next timestamp is computed from is that of the packet   *)
(* emitted last.                                                           *)
(***************************************************************************)
Remembers(k) ==
  emitted[k] # << >> =>
    /\ Last(emitted[k]).inTS = lastInputTimestamp[k]
    /\ Last(emitted[k]).ts = lastOutputTimestamp[k]

ClockInv == SteadyClock /\ \A k \in Kinds : Remembers(k)

(* A number below n is its own remainder, and wraps back when it is added  *)
(* to another and taken away again.                                        *)
LEMMA Remainder ==
  ASSUME NEW a \in Int, NEW n \in Nat \ {0}, NEW q \in Int, NEW r \in 0 .. n - 1,
         a = n * q + r
  PROVE  a % n = r
OBVIOUS

LEMMA Division ==
  ASSUME NEW a \in Int, NEW n \in Nat \ {0}
  PROVE  \E q \in Int : a = n * q + (a % n) /\ a % n \in 0 .. n - 1
<1>1. a \div n \in Int /\ a = n * (a \div n) + (a % n) /\ a % n \in 0 .. n - 1
  OBVIOUS
<1> QED
  BY <1>1

LEMMA AddAndTakeAway ==
  ASSUME NEW n \in Nat \ {0}, NEW a \in Int, NEW d \in 0 .. n - 1
  PROVE  (((a + d) % n) - a) % n = d
<1> DEFINE b == (a + d) % n
<1>1. PICK q \in Int : a + d = n * q + b /\ b \in 0 .. n - 1
  <2>1. a + d \in Int
    OBVIOUS
  <2> QED
    BY <2>1, Division
<1> HIDE DEF b
<1>2. n * (-q) = -(n * q) /\ n * q \in Int
  OBVIOUS
<1>3. b - a = n * (-q) + d /\ b - a \in Int /\ -q \in Int
  BY <1>1, <1>2
<1>4. (b - a) % n = d
  BY <1>3, Remainder
<1> QED
  BY <1>4 DEF b

(* The step between two packets: that of their source, or none at all.     *)
LEMMA StepTaken ==
  ASSUME TypeOK, NEW k \in Kinds, NEW ts \in Timestamps, lastOutputTimestamp[k] # Nil
  PROVE  (OutTS(k, ts) - lastOutputTimestamp[k]) % TSSpace = TimestampStep(k, ts)
<1> DEFINE delta == (ts - lastInputTimestamp[k]) % TSSpace
           d == TimestampStep(k, ts)
<1>1. /\ ts - lastInputTimestamp[k] \in Int /\ lastOutputTimestamp[k] \in Int
      /\ TSSpace \in Nat \ {0}
  BY SpaceAssumption DEF TypeOK, Timestamps
<1>2. delta \in 0 .. TSSpace - 1
  BY <1>1, Wraps
<1>3. d = IF delta > MaxTimestampDelta THEN 0 ELSE delta
  BY DEF TimestampStep
<1>4. OutTS(k, ts) = (lastOutputTimestamp[k] + d) % TSSpace
  BY DEF OutTS
<1> HIDE DEF delta, d
<1>5. d \in 0 .. TSSpace - 1
  BY <1>1, <1>2, <1>3
<1>6. (((lastOutputTimestamp[k] + d) % TSSpace) - lastOutputTimestamp[k]) % TSSpace = d
  BY <1>1, <1>5, AddAndTakeAway
<1> QED
  BY <1>4, <1>6 DEF d

LEMMA EmitClock ==
  ASSUME Inv, ClockInv, EmitPacket
  PROVE  ClockInv'
<1> DEFINE e == Emission
           out == emitted[cur]
           more == Append(out, e)
           ts == buf[cur][nextSeq[cur]].ts
           Steady(a, b) ==
             (b.ts - a.ts) % TSSpace =
               IF (b.inTS - a.inTS) % TSSpace <= MaxTimestampDelta
                 THEN (b.inTS - a.inTS) % TSSpace ELSE 0
<1>1. /\ cur \in Kinds /\ e \in EmittedPacket /\ out \in Seq(EmittedPacket)
      /\ emitted'[cur] = more
      /\ lastInputTimestamp'[cur] = ts /\ lastOutputTimestamp'[cur] = OutTS(cur, ts)
      /\ \A k \in Kinds \ {cur} :
           /\ emitted'[k] = emitted[k]
           /\ lastInputTimestamp'[k] = lastInputTimestamp[k]
           /\ lastOutputTimestamp'[k] = lastOutputTimestamp[k]
      /\ e.inTS = ts /\ e.ts = OutTS(cur, ts) /\ ts \in Timestamps
  <2>1. /\ lastInputTimestamp \in [Kinds -> Timestamps]
        /\ lastOutputTimestamp \in [Kinds -> Timestamps \cup {Nil}]
    BY DEF Inv, TypeOK
  <2>2. ts \in Timestamps
    BY EmitStep DEF BufferedPacket
  <2> QED
    BY <2>1, <2>2, EmitStep DEF Emission
<1>2. ASSUME out # << >> PROVE Steady(Last(out), e)
  <2>1. lastOutputTimestamp[cur] # Nil
    BY <1>1, <1>2 DEF Inv, Wellformed
  <2>2. /\ Last(out).ts = lastOutputTimestamp[cur]
        /\ Last(out).inTS = lastInputTimestamp[cur]
    BY <1>1, <1>2 DEF ClockInv, Remembers
  <2>3. (OutTS(cur, ts) - lastOutputTimestamp[cur]) % TSSpace = TimestampStep(cur, ts)
    BY <1>1, <2>1, StepTaken DEF Inv
  <2>4. (ts - lastInputTimestamp[cur]) % TSSpace \in Int /\ MaxTimestampDelta \in Int
    <3>1. ts - lastInputTimestamp[cur] \in Int
      BY <1>1, SpaceAssumption DEF Inv, TypeOK, Timestamps
    <3> QED
      BY <3>1, SpaceAssumption, Wraps
  <2> QED
    BY <1>1, <2>2, <2>3, <2>4 DEF TimestampStep
<1>3. /\ Last(more) = e
      /\ \A i \in 1 .. Len(more) - 1 :
           \/ i \in 1 .. Len(out) - 1 /\ more[i] = out[i] /\ more[i + 1] = out[i + 1]
           \/ out # << >> /\ more[i] = Last(out) /\ more[i + 1] = e
  BY <1>1, AppendPairs
<1> HIDE DEF e, out, more, ts, Steady
<1>4. ASSUME NEW k \in Kinds, NEW i \in 1 .. Len(emitted[k]) - 1
      PROVE  Steady(emitted[k][i], emitted[k][i + 1])
  BY <1>4 DEF ClockInv, SteadyClock, Steady
<1>5. ASSUME NEW k \in Kinds, NEW i \in 1 .. Len(emitted'[k]) - 1
      PROVE  Steady(emitted'[k][i], emitted'[k][i + 1])
  <2>1. CASE k = cur
    <3>1. emitted'[k] = more /\ emitted[k] = out
      BY <1>1, <2>1 DEF out
    <3> QED
      BY <1>2, <1>3, <1>4, <3>1
  <2>2. CASE k # cur
    BY <1>1, <1>4, <2>2
  <2> QED
    BY <2>1, <2>2
<1>6. SteadyClock'
  BY <1>5 DEF SteadyClock, Steady
<1>7. ASSUME NEW k \in Kinds PROVE Remembers(k)'
  BY <1>1, <1>3 DEF ClockInv, Remembers
<1> QED
  BY <1>6, <1>7 DEF ClockInv

LEMMA ClockStep == Inv /\ ClockInv /\ [Next]_vars => ClockInv'
<1> SUFFICES ASSUME Inv, ClockInv, [Next]_vars PROVE ClockInv'
  OBVIOUS
<1>1. CASE EmitPacket
  BY <1>1, EmitClock
<1>2. CASE UNCHANGED clockVars
  BY <1>2 DEF ClockInv, SteadyClock, Remembers, clockVars
<1>3. EmitPacket \/ UNCHANGED clockVars
  BY DEF Next, Write, TimePasses, Stop, Receive, Tick, Flushing, EnterFlush, SkipHole,
         EndFlush, Drain, Cleanup, vars
<1> QED
  BY <1>1, <1>2, <1>3

(***************************************************************************)
(* Places: ids are given in the order of arrival and the channel is a      *)
(* queue, so that whatever is in the buffer or has been emitted came       *)
(* before all that is in the channel; and a slot, once emptied, is empty.  *)
(***************************************************************************)
ChanApart ==
  \A i, j \in DOMAIN rtpChan :
    /\ rtpChan[i].id \in 1 .. arrived
    /\ i < j => rtpChan[i].id < rtpChan[j].id

SlotsApart ==
  \A k, l \in Kinds : \A s, t \in SeqNums :
    buf[k][s] # Nil /\ buf[l][t] # Nil /\ buf[k][s].id = buf[l][t].id => k = l /\ s = t

SlotsEarlier ==
  \A k \in Kinds : \A s \in SeqNums :
    buf[k][s] # Nil =>
      /\ buf[k][s].id \in 1 .. arrived
      /\ \A i \in DOMAIN rtpChan : buf[k][s].id < rtpChan[i].id

OutputApart ==
  \A k, l \in Kinds : \A i \in DOMAIN emitted[k] : \A j \in DOMAIN emitted[l] :
    emitted[k][i].id = emitted[l][j].id => k = l /\ i = j

OutputEarlier ==
  \A k \in Kinds : \A i \in DOMAIN emitted[k] :
    /\ emitted[k][i].id \in 1 .. arrived
    /\ \A j \in DOMAIN rtpChan : emitted[k][i].id < rtpChan[j].id
    /\ \A l \in Kinds : \A s \in SeqNums :
         buf[l][s] # Nil => buf[l][s].id # emitted[k][i].id

PlaceInv == ChanApart /\ SlotsApart /\ SlotsEarlier /\ OutputApart /\ OutputEarlier

(* Steps that move no packet between the places, or empty slots.           *)
LEMMA SlotsShrink ==
  ASSUME PlaceInv, UNCHANGED <<rtpChan, arrived, emitted>>,
         \A k \in Kinds : \A s \in SeqNums :
           buf'[k][s] # Nil => buf[k][s] # Nil /\ buf'[k][s].id = buf[k][s].id
  PROVE  PlaceInv'
<1> USE DEF PlaceInv
<1>1. ChanApart' /\ OutputApart'
  BY DEF ChanApart, OutputApart
<1>2. SlotsApart'
  BY DEF SlotsApart
<1>3. SlotsEarlier'
  BY DEF SlotsEarlier
<1>4. OutputEarlier'
  BY DEF OutputEarlier
<1> QED
  BY <1>1, <1>2, <1>3, <1>4

LEMMA TimeKeepsIds ==
  ASSUME Inv, TimePasses, NEW k \in Kinds, NEW s \in SeqNums
  PROVE  /\ buf'[k][s] = Nil <=> buf[k][s] = Nil
         /\ buf[k][s] # Nil => buf'[k][s].id = buf[k][s].id
<1>1. buf'[k][s] = Older(buf[k][s])
  BY DEF TimePasses
<1>2. buf[k][s] \in BufferedPacket \cup {Nil}
  BY DEF Inv, TypeOK
<1>3. CASE buf[k][s] = Nil \/ buf[k][s].age > StaleAge
  BY <1>1, <1>3 DEF Older
<1>4. CASE buf[k][s] # Nil /\ ~(buf[k][s].age > StaleAge)
  <2>1. buf[k][s] \in BufferedPacket /\ buf'[k][s] = [buf[k][s] EXCEPT !.age = @ + 1]
    BY <1>1, <1>2, <1>4 DEF Older
  <2>2. buf[k][s].age \in Ages /\ buf[k][s].age + 1 \in Ages
    BY <1>4, <2>1, BoundAssumption DEF BufferedPacket, Ages
  <2>3. buf'[k][s] \in BufferedPacket /\ buf'[k][s].id = buf[k][s].id
    BY <2>1, <2>2 DEF BufferedPacket
  <2> QED
    BY <1>4, <2>3, NilIsNew
<1> QED
  BY <1>3, <1>4

LEMMA WritePlaces ==
  ASSUME Inv, PlaceInv, NEW in \in Inputs, Write(in)
  PROVE  PlaceInv'
<1> USE DEF PlaceInv
<1>1. /\ arrived \in Nat /\ arrived' = arrived + 1 /\ UNCHANGED <<buf, emitted>>
      /\ rtpChan \in Seq(Packet)
  BY DEF Write, bufVars, clockVars, Inv, TypeOK
<1>2. ASSUME NEW i \in DOMAIN rtpChan'
      PROVE  \/ i \in DOMAIN rtpChan /\ rtpChan'[i] = rtpChan[i]
             \/ i = Len(rtpChan) + 1 /\ rtpChan'[i].id = arrived + 1
  <2> DEFINE p == [id |-> arrived + 1, kind |-> in.kind, seq |-> in.seq, ts |-> in.ts]
  <2>1. rtpChan' = IF Len(rtpChan) < ChanCap THEN Append(rtpChan, p) ELSE rtpChan
    BY DEF Write
  <2>2. p.id = arrived + 1
    OBVIOUS
  <2> HIDE DEF p
  <2> QED
    BY <1>1, <1>2, <2>1, <2>2
<1>3. \A i \in DOMAIN rtpChan : i \in 1 .. Len(rtpChan) /\ Len(rtpChan) \in Nat
  BY <1>1
<1>4. ChanApart'
  BY <1>1, <1>2, <1>3 DEF ChanApart
<1>5. SlotsApart' /\ OutputApart'
  BY <1>1 DEF SlotsApart, OutputApart
<1>6. SlotsEarlier'
  BY <1>1, <1>2 DEF SlotsEarlier
<1>7. OutputEarlier'
  BY <1>1, <1>2 DEF OutputEarlier
<1> QED
  BY <1>4, <1>5, <1>6, <1>7

(* What Add does to a slot: the packet's own is filled, that of the oldest *)
(* of a full buffer is emptied, the others stay.                           *)
LEMMA AddSlots ==
  ASSUME Inv, NEW p \in Packet, Add(p), NEW k \in Kinds, NEW s \in SeqNums
  PROVE  /\ k = p.kind /\ s = p.seq => buf'[k][s] = [id |-> p.id, ts |-> p.ts, age |-> 0]
         /\ ~(k = p.kind /\ s = p.seq) =>
              \/ buf'[k][s] = buf[k][s]
              \/ /\ buf'[k][s] = Nil /\ Evict(k) /\ s = Head(order[k]) /\ k = p.kind
<1> DEFINE slots == IF Evict(p.kind) THEN [buf[p.kind] EXCEPT ![Head(order[p.kind])] = Nil]
                                     ELSE buf[p.kind]
           new == [id |-> p.id, ts |-> p.ts, age |-> 0]
<1>1. buf' = [buf EXCEPT ![p.kind] = [slots EXCEPT ![p.seq] = new]]
  BY DEF Add
<1>2. /\ p.kind \in Kinds /\ p.seq \in SeqNums
      /\ buf \in [Kinds -> [SeqNums -> BufferedPacket \cup {Nil}]]
  BY DEF Packet, Inv, TypeOK
<1>3. DOMAIN slots = SeqNums
  BY <1>2
<1>4. \/ slots[s] = buf[p.kind][s]
      \/ slots[s] = Nil /\ Evict(p.kind) /\ s = Head(order[p.kind])
  BY <1>2
<1> HIDE DEF slots, new
<1>5. CASE k = p.kind
  <2>1. buf'[k] = [slots EXCEPT ![p.seq] = new]
    BY <1>1, <1>2, <1>5
  <2> QED
    BY <1>2, <1>3, <1>4, <1>5, <2>1 DEF new
<1>6. CASE k # p.kind
  BY <1>1, <1>2, <1>6
<1> QED
  BY <1>5, <1>6

LEMMA ReceivePlaces ==
  ASSUME Inv, PlaceInv, Receive
  PROVE  PlaceInv'
<1> USE DEF PlaceInv
<1> DEFINE p == Head(rtpChan)
<1>1. /\ rtpChan # << >> /\ rtpChan \in Seq(Packet) /\ rtpChan' = Tail(rtpChan)
      /\ Add(p) /\ UNCHANGED <<arrived, emitted>>
  BY DEF Receive, clockVars, Inv, TypeOK
<1>2. /\ p \in Packet /\ p = rtpChan[1] /\ 1 \in DOMAIN rtpChan
      /\ \A i \in DOMAIN rtpChan' :
           i \in Nat /\ i + 1 \in DOMAIN rtpChan /\ 1 < i + 1 /\ rtpChan'[i] = rtpChan[i + 1]
  <2>1. /\ Len(Tail(rtpChan)) = Len(rtpChan) - 1 /\ Head(rtpChan) = rtpChan[1]
        /\ Tail(rtpChan) \in Seq(Packet) /\ Head(rtpChan) \in Packet
        /\ Len(rtpChan) \in Nat \ {0}
        /\ \A i \in 1 .. Len(rtpChan) - 1 : Tail(rtpChan)[i] = rtpChan[i + 1]
    BY <1>1, TailIndex
  <2> DEFINE q == Tail(rtpChan)
  <2>2. DOMAIN q = 1 .. Len(rtpChan) - 1 /\ DOMAIN rtpChan = 1 .. Len(rtpChan)
    BY <1>1, <2>1
  <2> HIDE DEF q
  <2>3. DOMAIN rtpChan' = 1 .. Len(rtpChan) - 1
    BY <1>1, <2>2 DEF q
  <2> QED
    BY <1>1, <2>1, <2>2, <2>3
<1> HIDE DEF p
<1>3. /\ p.id \in 1 .. arrived /\ arrived \in Nat
      /\ \A i \in DOMAIN rtpChan' : p.id < rtpChan'[i].id
  BY <1>2 DEF ChanApart, Inv, TypeOK
<1>4. ASSUME NEW k \in Kinds, NEW s \in SeqNums, buf'[k][s] # Nil
      PROVE  \/ k = p.kind /\ s = p.seq /\ buf'[k][s].id = p.id
             \/ buf[k][s] # Nil /\ buf'[k][s].id = buf[k][s].id
  <2>1. /\ k = p.kind /\ s = p.seq => buf'[k][s] = [id |-> p.id, ts |-> p.ts, age |-> 0]
        /\ ~(k = p.kind /\ s = p.seq) => buf'[k][s] = buf[k][s]
    BY <1>1, <1>2, <1>4, AddSlots
  <2>2. CASE k = p.kind /\ s = p.seq
    <3>1. buf'[k][s] = [id |-> p.id, ts |-> p.ts, age |-> 0]
      BY <2>1, <2>2
    <3>2. buf'[k][s].id = p.id
      BY <3>1
    <3> QED
      BY <2>2, <3>2
  <2>3. CASE ~(k = p.kind /\ s = p.seq)
    BY <1>4, <2>1, <2>3
  <2> QED
    BY <2>2, <2>3
<1>5. \A k \in Kinds : \A s \in SeqNums :
        buf[k][s] # Nil => buf[k][s].id < p.id /\ buf[k][s].id \in Int
  BY <1>2 DEF SlotsEarlier
<1>6. \A k \in Kinds : \A i \in DOMAIN emitted[k] :
        emitted[k][i].id < p.id /\ emitted[k][i].id \in Int
  BY <1>2 DEF OutputEarlier
<1>7. ChanApart'
  BY <1>1, <1>2 DEF ChanApart
<1>8. SlotsApart'
  <2> SUFFICES ASSUME NEW k \in Kinds, NEW l \in Kinds, NEW s \in SeqNums, NEW t \in SeqNums,
                      buf'[k][s] # Nil, buf'[l][t] # Nil, buf'[k][s].id = buf'[l][t].id
               PROVE  k = l /\ s = t
    BY DEF SlotsApart
  <2>1. p.id \in Int
    BY <1>3
  <2> QED
    BY <1>4, <1>5, <2>1 DEF SlotsApart
<1>9. SlotsEarlier'
  BY <1>1, <1>2, <1>3, <1>4 DEF SlotsEarlier
<1>10. OutputApart'
  BY <1>1 DEF OutputApart
<1>11. OutputEarlier'
  <2> SUFFICES ASSUME NEW k \in Kinds, NEW i \in DOMAIN emitted[k]
               PROVE  /\ emitted[k][i].id \in 1 .. arrived
                      /\ \A j \in DOMAIN rtpChan' : emitted[k][i].id < rtpChan'[j].id
                      /\ \A l \in Kinds : \A s \in SeqNums :
                           buf'[l][s] # Nil => buf'[l][s].id # emitted[k][i].id
    BY <1>1 DEF OutputEarlier
  <2>1. /\ emitted[k][i].id \in 1 .. arrived
        /\ \A j \in DOMAIN rtpChan' : emitted[k][i].id < rtpChan'[j].id
    BY <1>2 DEF OutputEarlier
  <2>2. ASSUME NEW l \in Kinds, NEW s \in SeqNums, buf'[l][s] # Nil
        PROVE  buf'[l][s].id # emitted[k][i].id
    BY <1>3, <1>4, <1>6, <2>2 DEF OutputEarlier
  <2> QED
    BY <2>1, <2>2
<1> QED
  BY <1>7, <1>8, <1>9, <1>10, <1>11

(* What was in the slot is the last packet of the output.                  *)
LEMMA EmitPlaces ==
  ASSUME Inv, PlaceInv, EmitPacket
  PROVE  /\ PlaceInv'
         /\ \A k \in Kinds : \A s \in SeqNums :
              \/ buf'[k][s] = buf[k][s]
              \/ /\ emitted'[k] # emitted[k]
                 /\ Last(emitted'[k]).id = buf[k][s].id
<1> USE DEF PlaceInv
<1> DEFINE e == Emission
           out == emitted[cur]
           n == nextSeq[cur]
           more == Append(out, e)
<1>1. /\ cur \in Kinds /\ n \in SeqNums /\ buf[cur][n] # Nil
      /\ e \in EmittedPacket /\ out \in Seq(EmittedPacket)
      /\ e.id = buf[cur][n].id
      /\ emitted' = [emitted EXCEPT ![cur] = more]
      /\ emitted \in [Kinds -> Seq(EmittedPacket)]
      /\ buf' = [buf EXCEPT ![cur] = Vacated(buf[cur], n)]
      /\ buf \in [Kinds -> [SeqNums -> BufferedPacket \cup {Nil}]]
  BY EmitStep DEF Emission
<1>2. UNCHANGED <<rtpChan, arrived>>
  BY DEF EmitPacket, chanVars
<1>3. \A k \in Kinds : \A s \in SeqNums :
        buf'[k][s] = IF k = cur /\ s = n THEN Nil ELSE buf[k][s]
  BY <1>1 DEF Vacated
<1>4. /\ more \in Seq(EmittedPacket) /\ Last(more) = e /\ Len(more) = Len(out) + 1
      /\ Len(out) \in Nat /\ more[Len(out) + 1] = e
      /\ \A i \in 1 .. Len(out) : more[i] = out[i]
  BY <1>1, AppendPairs
<1>5. DOMAIN more = 1 .. Len(out) + 1 /\ DOMAIN out = 1 .. Len(out)
  BY <1>1, <1>4
<1> HIDE DEF e, more
<1>6. emitted'[cur] = more /\ \A k \in Kinds \ {cur} : emitted'[k] = emitted[k]
  BY <1>1
<1>7. \A k \in Kinds : \A i \in DOMAIN emitted'[k] :
        \/ i \in DOMAIN emitted[k] /\ emitted'[k][i] = emitted[k][i]
        \/ k = cur /\ i = Len(out) + 1 /\ emitted'[k][i] = e
  BY <1>4, <1>5, <1>6
<1> HIDE DEF n
<1>8. ChanApart' /\ SlotsApart' /\ SlotsEarlier'
  <2>1. ChanApart'
    BY <1>2 DEF ChanApart
  <2>2. SlotsApart'
    BY <1>3 DEF SlotsApart
  <2>3. SlotsEarlier'
    BY <1>2, <1>3 DEF SlotsEarlier
  <2> QED
    BY <2>1, <2>2, <2>3
<1>9. \A k \in Kinds : \A i \in DOMAIN emitted[k] : emitted[k][i].id # e.id
  BY <1>1 DEF OutputEarlier
<1>10. OutputApart'
  <2> SUFFICES ASSUME NEW k \in Kinds, NEW l \in Kinds, NEW i \in DOMAIN emitted'[k],
                      NEW j \in DOMAIN emitted'[l], emitted'[k][i].id = emitted'[l][j].id
               PROVE  k = l /\ i = j
    BY DEF OutputApart
  <2> QED
    BY <1>7, <1>9 DEF OutputApart
<1>11. OutputEarlier'
  <2> SUFFICES ASSUME NEW k \in Kinds, NEW i \in DOMAIN emitted'[k]
               PROVE  /\ emitted'[k][i].id \in 1 .. arrived
                      /\ \A j \in DOMAIN rtpChan : emitted'[k][i].id < rtpChan[j].id
                      /\ \A l \in Kinds : \A s \in SeqNums :
                           buf'[l][s] # Nil => buf'[l][s].id # emitted'[k][i].id
    BY <1>2 DEF OutputEarlier
  <2>1. CASE emitted'[k][i] = e
    <3>1. e.id \in 1 .. arrived /\ \A j \in DOMAIN rtpChan : e.id < rtpChan[j].id
      BY <1>1 DEF SlotsEarlier
    <3>2. \A l \in Kinds : \A s \in SeqNums : buf'[l][s] # Nil => buf'[l][s].id # e.id
      BY <1>1, <1>3 DEF SlotsApart
    <3> QED
      BY <2>1, <3>1, <3>2
  <2>2. CASE i \in DOMAIN emitted[k] /\ emitted'[k][i] = emitted[k][i]
    BY <1>3, <2>2 DEF OutputEarlier
  <2> QED
    BY <1>7, <2>1, <2>2
<1>12. more # out
  BY <1>4
<1>13. \A k \in Kinds : \A s \in SeqNums :
         \/ buf'[k][s] = buf[k][s]
         \/ emitted'[k] # emitted[k] /\ Last(emitted'[k]).id = buf[k][s].id
  BY <1>1, <1>3, <1>4, <1>6, <1>12
<1> QED
  BY <1>8, <1>10, <1>11, <1>13

LEMMA CleanupEmpties ==
  ASSUME Inv, Cleanup
  PROVE  \A k \in Kinds : \A s \in SeqNums : buf'[k][s] = Nil
BY DEF Cleanup, CleanupSlots, Inv, OrderIndexesBuffer

LEMMA PlaceStep == Inv /\ PlaceInv /\ [Next]_vars => PlaceInv'
<1> SUFFICES ASSUME Inv, PlaceInv, [Next]_vars PROVE PlaceInv'
  OBVIOUS
<1>1. ASSUME NEW in \in Inputs, Write(in) PROVE PlaceInv'
  BY <1>1, WritePlaces
<1>2. CASE Receive
  BY <1>2, ReceivePlaces
<1>3. CASE EmitPacket
  BY <1>3, EmitPlaces
<1>4. CASE TimePasses
  BY <1>4, SlotsShrink, TimeKeepsIds DEF TimePasses, chanVars, clockVars
<1>5. CASE Cleanup
  BY <1>5, SlotsShrink, CleanupEmpties DEF Cleanup, chanVars, clockVars
<1>6. CASE Stop \/ Tick \/ EnterFlush \/ SkipHole \/ EndFlush \/ Drain \/ UNCHANGED vars
  <2>1. UNCHANGED <<rtpChan, arrived, emitted, buf>>
    BY <1>6 DEF Stop, Tick, EnterFlush, SkipHole, EndFlush, Drain, vars,
                chanVars, clockVars, bufVars
  <2> QED
    BY <2>1, SlotsShrink
<1> QED
  BY <1>1, <1>2, <1>3, <1>4, <1>5, <1>6 DEF Next, Flushing

(* A set none of whose elements differ has at most one.                    *)
LEMMA AtMostOne ==
  ASSUME NEW S, \A x, y \in S : x = y
  PROVE  Cardinality(S) = IF S = {} THEN 0 ELSE 1
<1>1. CASE S = {}
  BY <1>1, FS_EmptySet
<1>2. CASE S # {}
  <2>1. PICK x : x \in S
    BY <1>2
  <2>2. S = {x}
    BY <2>1
  <2> QED
    BY <1>2, <2>2, FS_Singleton
<1> QED
  BY <1>1, <1>2

LEMMA PlacesApart == Inv /\ PlaceInv => AtMostOnce
<1> SUFFICES ASSUME Inv, PlaceInv, NEW id \in 1 .. arrived
             PROVE  Copies(id) <= 1
  BY DEF AtMostOnce
<1> DEFINE A == {i \in DOMAIN rtpChan : rtpChan[i].id = id}
           B == {x \in Kinds \X SeqNums : buf[x[1]][x[2]] # Nil /\ buf[x[1]][x[2]].id = id}
           C == {x \in Kinds \X (1 .. arrived) :
                   x[2] \in DOMAIN emitted[x[1]] /\ emitted[x[1]][x[2]].id = id}
<1>1. rtpChan \in Seq(Packet) /\ arrived \in Nat /\ id \in Int
  BY DEF Inv, TypeOK
<1>2. \A i, j \in A : i = j
  <2>1. \A i, j \in DOMAIN rtpChan : i \in Nat /\ (i < j \/ j < i \/ i = j)
    BY <1>1
  <2>2. \A i \in A : i \in DOMAIN rtpChan /\ rtpChan[i].id = id
    OBVIOUS
  <2> HIDE DEF A
  <2> QED
    BY <1>1, <2>1, <2>2 DEF PlaceInv, ChanApart
<1>3. \A x, y \in B : x = y
  BY DEF PlaceInv, SlotsApart
<1>4. \A x, y \in C : x = y
  BY DEF PlaceInv, OutputApart
<1>5. A = {} \/ B = {} 
  BY <1>1 DEF PlaceInv, SlotsEarlier
<1>6. A = {} \/ C = {}
  BY <1>1 DEF PlaceInv, OutputEarlier
<1>7. B = {} \/ C = {}
  BY DEF PlaceInv, OutputEarlier
<1>8. Copies(id) = Cardinality(A) + Cardinality(B) + Cardinality(C)
  BY DEF Copies
<1> HIDE DEF A, B, C
<1>9. /\ Cardinality(A) = IF A = {} THEN 0 ELSE 1
      /\ Cardinality(B) = IF B = {} THEN 0 ELSE 1
      /\ Cardinality(C) = IF C = {} THEN 0 ELSE 1
  BY <1>2, <1>3, <1>4, AtMostOne
<1> QED
  BY <1>5, <1>6, <1>7, <1>8, <1>9

-----------------------------------------------------------------------------
(* What a step may do.                                                     *)

Accounted(k, s) ==
  (buf[k][s] # Nil /\ (buf'[k][s] = Nil \/ buf'[k][s].id # buf[k][s].id))
  => \/ emitted'[k] # emitted[k] /\ Last(emitted'[k]).id = buf[k][s].id
     \/ buf'[k][s] # Nil /\ buf'[k][s].id > buf[k][s].id
     \/ Len(order[k]) = MaxBufferSize /\ Head(order[k]) = s /\ pc = "select"
     \/ pc = "cleanup"

LEMMA ReceiveAccounts ==
  ASSUME Inv, PlaceInv, Receive, NEW k \in Kinds, NEW s \in SeqNums
  PROVE  Accounted(k, s)
<1> DEFINE p == Head(rtpChan)
<1>1. /\ rtpChan # << >> /\ rtpChan \in Seq(Packet) /\ Add(p) /\ pc = "select"
  BY DEF Receive, Inv, TypeOK
<1>2. p \in Packet /\ p = rtpChan[1] /\ 1 \in DOMAIN rtpChan
  BY <1>1
<1> HIDE DEF p
<1>3. CASE k = p.kind /\ s = p.seq
  <2>1. buf'[k][s] = [id |-> p.id, ts |-> p.ts, age |-> 0]
    BY <1>1, <1>2, <1>3, AddSlots
  <2>2. p.id \in Nat /\ p.ts \in Timestamps /\ 0 \in Ages
    BY <1>2, BoundAssumption DEF Packet, Ages
  <2>3. buf'[k][s] \in BufferedPacket /\ buf'[k][s].id = p.id
    BY <2>1, <2>2 DEF BufferedPacket
  <2>4. buf[k][s] # Nil => buf[k][s].id < p.id /\ buf[k][s].id \in Int
    BY <1>2 DEF PlaceInv, SlotsEarlier
  <2> QED
    BY <2>2, <2>3, <2>4, NilIsNew DEF Accounted
<1>4. CASE ~(k = p.kind /\ s = p.seq)
  <2>1. \/ buf'[k][s] = buf[k][s]
        \/ Evict(k) /\ s = Head(order[k])
    BY <1>1, <1>2, <1>4, AddSlots
  <2>2. Evict(k) => Len(order[k]) = MaxBufferSize
    BY BoundAssumption DEF Evict, Inv, BufferBounded, TypeOK
  <2> QED
    BY <1>1, <2>1, <2>2 DEF Accounted
<1> QED
  BY <1>3, <1>4

LEMMA StepAccounts ==
  ASSUME Inv, PlaceInv, [Next]_vars, NEW k \in Kinds, NEW s \in SeqNums
  PROVE  Accounted(k, s)
<1>1. CASE Receive
  BY <1>1, ReceiveAccounts
<1>2. CASE EmitPacket
  BY <1>2, EmitPlaces DEF Accounted
<1>3. CASE TimePasses
  BY <1>3, TimeKeepsIds DEF Accounted
<1>4. CASE Cleanup
  BY <1>4 DEF Cleanup, Accounted
<1>5. CASE UNCHANGED buf
  BY <1>5 DEF Accounted
<1> QED
  BY <1>1, <1>2, <1>3, <1>4, <1>5 DEF Next, Write, Stop, Tick, Flushing, EnterFlush, SkipHole,
     EndFlush, Drain, vars, bufVars

(* The oldest packet is there whenever the order is not empty.             *)
LEMMA OldestIsThere ==
  ASSUME Inv, NEW k \in Kinds, order[k] # << >>
  PROVE  Head(order[k]) \in SeqNums /\ buf[k][Head(order[k])] \in BufferedPacket
<1>1. order[k] \in Seq(SeqNums) /\ buf[k] \in [SeqNums -> BufferedPacket \cup {Nil}]
  BY DEF Inv, TypeOK
<1>2. Head(order[k]) \in SeqNums /\ Head(order[k]) = order[k][1] /\ 1 \in DOMAIN order[k]
  BY <1>1
<1>3. buf[k][Head(order[k])] # Nil
  BY <1>2 DEF Inv, OrderIndexesBuffer, ToSet
<1> QED
  BY <1>1, <1>2, <1>3

-----------------------------------------------------------------------------
(* The loop of flushBufferSet.                                             *)

(* What FlushComesDown says of a step.                                     *)
LoopComesDown ==
  pc = "flush" =>
    /\ RoundsLeft \in Nat
    /\ pc' = "flush" => RoundsLeft' <= RoundsLeft
    /\ SkipHole \/ EmitPacket => RoundsLeft' < RoundsLeft

(* What is skipped to is there, so that a packet follows each skip.        *)
LEMMA SkipComesDown ==
  ASSUME Inv, OrderInv, SkipHole
  PROVE  RoundsLeft' < RoundsLeft
<1>1. cur \in Kinds /\ order[cur] # << >> /\ Hole
  BY DEF SkipHole, LoopGoesOn, Inv, TypeOK
<1>2. /\ nextSeq'[cur] = Head(order[cur])
      /\ UNCHANGED <<buf, cur, sentInBatch>>
  BY <1>1 DEF SkipHole, bufVars, loopVars, Inv, TypeOK
<1>3. buf[cur][Head(order[cur])] # Nil
  BY <1>1, OldestIsThere, NilIsNew
<1>4. ~Hole'
  BY <1>2, <1>3 DEF Hole
<1>5. sentInBatch \in Int /\ MaxFlushBatch \in Int
  BY BoundAssumption DEF Inv, TypeOK
<1> QED
  BY <1>1, <1>2, <1>4, <1>5 DEF RoundsLeft

LEMMA EmitComesDown ==
  ASSUME Inv, OrderInv, EmitPacket
  PROVE  RoundsLeft' < RoundsLeft
<1>1. sentInBatch' = sentInBatch + 1 /\ ~Hole
  BY DEF EmitPacket
<1>2. sentInBatch \in Int /\ MaxFlushBatch \in Int
  BY BoundAssumption DEF Inv, TypeOK
<1> HIDE DEF Hole
<1> QED
  BY <1>1, <1>2 DEF RoundsLeft

LEMMA StepComesDown ==
  ASSUME Inv, OrderInv, [Next]_vars
  PROVE  LoopComesDown
<1> SUFFICES ASSUME pc = "flush"
             PROVE  /\ RoundsLeft \in Nat
                    /\ pc' = "flush" => RoundsLeft' <= RoundsLeft
                    /\ SkipHole \/ EmitPacket => RoundsLeft' < RoundsLeft
  BY DEF LoopComesDown
<1>1. RoundsLeft \in Nat
  BY BoundAssumption DEF RoundsLeft, OrderInv, Inv, TypeOK
<1>2. RoundsLeft' \in Int
  <2>1. sentInBatch' \in Int /\ MaxFlushBatch \in Int
    BY NextInv, BoundAssumption DEF Inv, TypeOK
  <2> HIDE DEF Hole
  <2> QED
    BY <2>1 DEF RoundsLeft
<1>3. SkipHole \/ EmitPacket => RoundsLeft' < RoundsLeft
  BY SkipComesDown, EmitComesDown
<1>4. ASSUME pc' = "flush", ~SkipHole, ~EmitPacket
      PROVE  RoundsLeft' = RoundsLeft
  <2>1. CASE TimePasses
    <3>1. cur \in Kinds /\ nextSeq[cur] \in SeqNums
      BY DEF Inv, TypeOK, Wellformed
    <3>2. buf'[cur][nextSeq[cur]] = Nil <=> buf[cur][nextSeq[cur]] = Nil
      BY <2>1, <3>1, TimeKeepsIds
    <3>3. UNCHANGED <<cur, nextSeq, sentInBatch>>
      BY <2>1 DEF TimePasses, loopVars
    <3> QED
      BY <3>2, <3>3 DEF RoundsLeft, Hole
  <2>2. CASE UNCHANGED <<buf, cur, nextSeq, sentInBatch>>
    BY <2>2 DEF RoundsLeft, Hole
  <2> QED
    BY <1>4, <2>1, <2>2 DEF Next, Write, Stop, Receive, Tick, Flushing, EnterFlush, EndFlush,
       LeaveFlush, Drain, Cleanup, vars, bufVars, loopVars
<1> QED
  BY <1>1, <1>2, <1>3, <1>4

(* The constructor establishes all of it.                                  *)
LEMMA InitFull == Init => OrderInv /\ ClockInv /\ PlaceInv
<1> SUFFICES ASSUME Init PROVE OrderInv /\ ClockInv /\ PlaceInv
  OBVIOUS
<1>1. /\ rtpChan = << >> /\ sentInBatch = 0
      /\ \A k \in Kinds : emitted[k] = << >> /\ \A s \in SeqNums : buf[k][s] = Nil
  BY DEF Init
<1>2. OrderInv
  BY <1>1, BoundAssumption DEF OrderInv, InOrderOrStale, Waits
<1>3. ClockInv
  BY <1>1 DEF ClockInv, SteadyClock, Remembers
<1>4. PlaceInv
  BY <1>1 DEF PlaceInv, ChanApart, SlotsApart, SlotsEarlier, OutputApart, OutputEarlier
<1> QED
  BY <1>2, <1>3, <1>4

-----------------------------------------------------------------------------
(* The buffer implements Resequencer.                                      *)

(* The packet in a slot, as Resequencer sees it.                           *)
Item(k, s) == [id |-> buf[k][s].id, kind |-> k, seq |-> s, ts |-> buf[k][s].ts]

InChannelOrSlot ==
  \A p : p \in Waiting <=>
    \/ \E i \in DOMAIN rtpChan : p = rtpChan[i]
    \/ \E k \in Kinds : \E s \in SeqNums : buf[k][s] # Nil /\ p = Item(k, s)

LEMMA WaitingIs == InChannelOrSlot
<1>1. \A p : p \in ToSet(rtpChan) <=> \E i \in DOMAIN rtpChan : p = rtpChan[i]
  BY DEF ToSet
<1> DEFINE slots == {[id |-> buf[x[1]][x[2]].id, kind |-> x[1], seq |-> x[2],
                      ts |-> buf[x[1]][x[2]].ts] :
                        x \in {y \in Kinds \X SeqNums : buf[y[1]][y[2]] # Nil}}
<1>2. ASSUME NEW p \in slots
      PROVE  \E k \in Kinds : \E s \in SeqNums : buf[k][s] # Nil /\ p = Item(k, s)
  <2>1. PICK x \in Kinds \X SeqNums : buf[x[1]][x[2]] # Nil /\ p = Item(x[1], x[2])
    BY DEF Item
  <2> QED
    BY <2>1
<1>3. ASSUME NEW k \in Kinds, NEW s \in SeqNums, buf[k][s] # Nil
      PROVE  Item(k, s) \in slots
  <2> DEFINE x == <<k, s>>
  <2>1. x \in {y \in Kinds \X SeqNums : buf[y[1]][y[2]] # Nil} /\ x[1] = k /\ x[2] = s
    BY <1>3
  <2> HIDE DEF x
  <2> QED
    BY <2>1 DEF Item
<1>4. Waiting = ToSet(rtpChan) \cup slots
  BY DEF Waiting
<1> HIDE DEF slots
<1> QED
  BY <1>1, <1>2, <1>3, <1>4 DEF InChannelOrSlot

LEMMA WaitingNext == InChannelOrSlot'
  BY WaitingIs, PTL

LEMMA InitResequencer == Init => RS!Init
<1> SUFFICES ASSUME Init PROVE RS!Init
  OBVIOUS
<1>1. rtpChan = << >> /\ \A k \in Kinds : \A s \in SeqNums : buf[k][s] = Nil
  BY DEF Init
<1>2. Waiting = {}
  BY <1>1, WaitingIs DEF InChannelOrSlot
<1> QED
  BY <1>2 DEF Init, RS!Init

LEMMA WriteTakes ==
  ASSUME Inv, NEW in \in Inputs, Write(in)
  PROVE  RS!Next
<1> DEFINE p == [id |-> arrived + 1, kind |-> in.kind, seq |-> in.seq, ts |-> in.ts]
<1>1. /\ arrived' = arrived + 1 /\ UNCHANGED <<buf, emitted>> /\ rtpChan \in Seq(Packet)
      /\ rtpChan' = IF Len(rtpChan) < ChanCap THEN Append(rtpChan, p) ELSE rtpChan
  BY DEF Write, bufVars, clockVars, Inv, TypeOK
<1>2. CASE Len(rtpChan) < ChanCap
  <2>1. ToSet(rtpChan') = ToSet(rtpChan) \cup {p}
    <3>1. p \in Packet
      BY InputAssumption DEF Packet, Inv, TypeOK
    <3> HIDE DEF p
    <3>2. /\ rtpChan' = Append(rtpChan, p)
          /\ DOMAIN rtpChan' = DOMAIN rtpChan \cup {Len(rtpChan) + 1}
          /\ \A i \in DOMAIN rtpChan : rtpChan'[i] = rtpChan[i]
          /\ rtpChan'[Len(rtpChan) + 1] = p
      BY <1>1, <1>2, <3>1
    <3> QED
      BY <3>2 DEF ToSet
  <2>2. Waiting' = Waiting \cup {p}
    BY <1>1, <2>1 DEF Waiting
  <2>3. p.id = arrived + 1
    OBVIOUS
  <2> HIDE DEF p
  <2> QED
    BY <1>1, <2>2, <2>3 DEF RS!Next, RS!Take
<1>3. CASE ~(Len(rtpChan) < ChanCap)
  <2>1. Waiting' = Waiting
    BY <1>1, <1>3 DEF Waiting
  <2> QED
    BY <1>1, <2>1 DEF RS!Next, RS!Refuse
<1> QED
  BY <1>2, <1>3

(* Time changes the ages only.                                             *)
LEMMA TimeKeepsItems ==
  ASSUME Inv, TimePasses, NEW k \in Kinds, NEW s \in SeqNums
  PROVE  /\ buf'[k][s] = Nil <=> buf[k][s] = Nil
         /\ buf[k][s] # Nil => buf'[k][s].id = buf[k][s].id /\ buf'[k][s].ts = buf[k][s].ts
<1>1. buf'[k][s] = Older(buf[k][s]) /\ buf[k][s] \in BufferedPacket \cup {Nil}
  BY DEF TimePasses, Inv, TypeOK
<1>2. \/ buf'[k][s] = buf[k][s]
      \/ buf[k][s] \in BufferedPacket /\ buf'[k][s] = [buf[k][s] EXCEPT !.age = @ + 1]
  BY <1>1 DEF Older
<1>3. ASSUME buf[k][s] \in BufferedPacket, buf'[k][s] = [buf[k][s] EXCEPT !.age = @ + 1]
      PROVE  buf'[k][s].ts = buf[k][s].ts
  BY <1>3 DEF BufferedPacket
<1> QED
  BY <1>2, <1>3, TimeKeepsIds

LEMMA TimeStutters ==
  ASSUME Inv, TimePasses
  PROVE  UNCHANGED RS!streamVars
<1>1. UNCHANGED <<rtpChan, arrived, emitted>>
  BY DEF TimePasses, chanVars, clockVars
<1>2. ASSUME NEW k \in Kinds, NEW s \in SeqNums
      PROVE  /\ buf'[k][s] = Nil <=> buf[k][s] = Nil
             /\ buf[k][s] # Nil => Item(k, s)' = Item(k, s)
  BY TimeKeepsItems DEF Item
<1>3. \A p : p \in Waiting' <=> p \in Waiting
  BY <1>1, <1>2, WaitingIs, WaitingNext DEF InChannelOrSlot
<1> QED
  BY <1>1, <1>3 DEF RS!streamVars

(* A packet goes from the channel to a slot; the one it replaces and the   *)
(* oldest of a full buffer are lost.                                       *)
LEMMA ReceiveLoses ==
  ASSUME Inv, Receive
  PROVE  RS!Lose
<1> DEFINE p == Head(rtpChan)
<1>1. /\ rtpChan # << >> /\ rtpChan \in Seq(Packet) /\ rtpChan' = Tail(rtpChan)
      /\ Add(p) /\ UNCHANGED <<arrived, emitted>>
  BY DEF Receive, clockVars, Inv, TypeOK
<1>2. /\ p \in Packet /\ p = rtpChan[1] /\ 1 \in DOMAIN rtpChan
      /\ \A i \in DOMAIN rtpChan' : i + 1 \in DOMAIN rtpChan /\ rtpChan'[i] = rtpChan[i + 1]
  BY <1>1
<1> HIDE DEF p
<1>3. ASSUME NEW k \in Kinds, NEW s \in SeqNums, buf'[k][s] # Nil
      PROVE  Item(k, s)' \in Waiting
  <2>1. CASE k = p.kind /\ s = p.seq
    <3>1. buf'[k][s] = [id |-> p.id, ts |-> p.ts, age |-> 0]
      BY <1>1, <1>2, <2>1, AddSlots
    <3>2. buf'[k][s].id = p.id /\ buf'[k][s].ts = p.ts
      BY <3>1
    <3>3. Item(k, s)' = [id |-> p.id, kind |-> p.kind, seq |-> p.seq, ts |-> p.ts]
      BY <2>1, <3>2 DEF Item
    <3>4. p = [id |-> p.id, kind |-> p.kind, seq |-> p.seq, ts |-> p.ts]
      BY <1>2 DEF Packet
    <3> QED
      BY <1>2, <3>3, <3>4, WaitingIs DEF InChannelOrSlot
  <2>2. CASE ~(k = p.kind /\ s = p.seq)
    <3>1. buf'[k][s] = buf[k][s]
      BY <1>1, <1>2, <1>3, <2>2, AddSlots
    <3>2. buf[k][s] # Nil /\ Item(k, s)' = Item(k, s)
      BY <1>3, <3>1 DEF Item
    <3> QED
      BY <3>2, WaitingIs DEF InChannelOrSlot
  <2> QED
    BY <2>1, <2>2
<1>4. ASSUME NEW i \in DOMAIN rtpChan' PROVE rtpChan'[i] \in Waiting
  BY <1>2, WaitingIs DEF InChannelOrSlot
<1>5. Waiting' \subseteq Waiting
  BY <1>3, <1>4, WaitingNext DEF InChannelOrSlot
<1> QED
  BY <1>1, <1>5 DEF RS!Lose

LEMMA CleanupLoses ==
  ASSUME Inv, Cleanup
  PROVE  RS!Lose
<1>1. UNCHANGED <<rtpChan, arrived, emitted>>
  BY DEF Cleanup, chanVars, clockVars
<1>2. ASSUME NEW k \in Kinds, NEW s \in SeqNums, buf'[k][s] # Nil
      PROVE  buf'[k][s] = buf[k][s]
  BY <1>2 DEF Cleanup, CleanupSlots
<1>3. Waiting' \subseteq Waiting
  BY <1>1, <1>2, WaitingIs, WaitingNext DEF InChannelOrSlot, Item
<1> QED
  BY <1>1, <1>3 DEF RS!Lose

(* What is emitted continues what was: see OrderInv and ClockInv.          *)
LEMMA EmissionContinues ==
  ASSUME Inv, OrderInv, ClockInv, EmitPacket, emitted[cur] # << >>
  PROVE  RS!Continues(Last(emitted[cur]), Emission)
<1> DEFINE out == emitted[cur]
           more == Append(out, Emission)
           n == Len(out)
<1>1. /\ cur \in Kinds /\ out \in Seq(EmittedPacket) /\ Emission \in EmittedPacket
      /\ emitted'[cur] = more
  BY EmitStep
<1>2. n \in Nat /\ n # 0 /\ Len(more) = n + 1 /\ more[n] = Last(out) /\ more[n + 1] = Emission
  <2>1. n # 0
    BY <1>1
  <2> HIDE DEF out
  <2> QED
    BY <1>1, <2>1, AppendPairs DEF Last
<1>3. GaplessOutput' /\ SteadyClock' /\ InOrderOrStale'
  <2>1. [Next]_vars
    BY DEF Next, Flushing
  <2> QED
    BY <2>1, NextInv, OrderStep, ClockStep DEF Inv, OrderInv, ClockInv
<1> DEFINE a == Last(out)
           b == Emission
<1> HIDE DEF out, more, n, a, b
<1>4. n \in 1 .. Len(emitted'[cur]) - 1 /\ emitted'[cur][n] = a /\ emitted'[cur][n + 1] = b
  BY <1>1, <1>2 DEF a, b
<1>5. b.seq = (a.seq + 1) % SeqSpace
  BY <1>1, <1>3, <1>4 DEF GaplessOutput, Consecutive
<1>6. b.orig = (a.orig + 1) % SeqSpace \/ b.stale
  BY <1>1, <1>3, <1>4 DEF InOrderOrStale
<1>7. (b.ts - a.ts) % TSSpace =
        IF (b.inTS - a.inTS) % TSSpace <= MaxTimestampDelta
          THEN (b.inTS - a.inTS) % TSSpace ELSE 0
  BY <1>1, <1>3, <1>4 DEF SteadyClock
<1> QED
  BY <1>5, <1>6, <1>7 DEF RS!Continues, a, b, out

LEMMA EmitSends ==
  ASSUME Inv, OrderInv, ClockInv, PlaceInv, EmitPacket
  PROVE  RS!Next
<1> DEFINE s == nextSeq[cur]
           p == Item(cur, s)
<1>1. /\ cur \in Kinds /\ s \in SeqNums /\ buf[cur][s] # Nil
      /\ emitted' = [emitted EXCEPT ![cur] = Append(emitted[cur], Emission)]
      /\ emitted \in [Kinds -> Seq(EmittedPacket)] /\ Emission \in EmittedPacket
      /\ buf' = [buf EXCEPT ![cur] = [buf[cur] EXCEPT ![s] = Nil]]
      /\ buf \in [Kinds -> [SeqNums -> BufferedPacket \cup {Nil}]]
      /\ UNCHANGED <<rtpChan, arrived>>
  BY EmitStep DEF Vacated, EmitPacket, chanVars
<1>2. p.id = buf[cur][s].id /\ p.kind = cur /\ p.seq = s /\ p.ts = buf[cur][s].ts
  BY DEF Item
<1>3. Emission.id = p.id /\ Emission.orig = p.seq /\ Emission.inTS = p.ts
  BY DEF Emission, Item
<1> HIDE DEF s, p
<1>4. p \in Waiting
  BY <1>1, WaitingIs DEF InChannelOrSlot, p
<1>5. Waiting' = Waiting \ {p}
  <2>1. ASSUME NEW k \in Kinds, NEW t \in SeqNums
        PROVE  IF k = cur /\ t = s THEN buf'[k][t] = Nil ELSE buf'[k][t] = buf[k][t]
    BY <1>1
  <2>2. ASSUME NEW k \in Kinds, NEW t \in SeqNums, Item(k, t) = p
        PROVE  k = cur /\ t = s
    <3>1. Item(k, t).kind = k /\ Item(k, t).seq = t
      BY DEF Item
    <3> QED
      BY <1>2, <2>2, <3>1
  <2>3. \A i \in DOMAIN rtpChan : rtpChan[i] # p
    <3>1. \A i \in DOMAIN rtpChan : p.id < rtpChan[i].id /\ p.id \in Int
      BY <1>1, <1>2 DEF PlaceInv, SlotsEarlier
    <3> QED
      BY <3>1
  <2>4. ASSUME NEW k \in Kinds, NEW t \in SeqNums, buf'[k][t] # Nil
        PROVE  buf[k][t] # Nil /\ Item(k, t)' = Item(k, t) /\ Item(k, t) # p
    BY <2>1, <2>2, <2>4 DEF Item
  <2>5. ASSUME NEW k \in Kinds, NEW t \in SeqNums, buf[k][t] # Nil, Item(k, t) # p
        PROVE  buf'[k][t] # Nil /\ Item(k, t)' = Item(k, t)
    BY <2>1, <2>5 DEF Item, p
  <2>6. ASSUME NEW q \in Waiting' PROVE q \in Waiting /\ q # p
    <3>1. \/ \E i \in DOMAIN rtpChan : q = rtpChan[i]
          \/ \E k \in Kinds : \E t \in SeqNums : buf'[k][t] # Nil /\ q = Item(k, t)'
      BY <1>1, WaitingNext DEF InChannelOrSlot
    <3>2. ASSUME NEW i \in DOMAIN rtpChan, q = rtpChan[i] PROVE q \in Waiting /\ q # p
      BY <2>3, <3>2, WaitingIs DEF InChannelOrSlot
    <3>3. ASSUME NEW k \in Kinds, NEW t \in SeqNums, buf'[k][t] # Nil, q = Item(k, t)'
          PROVE  q \in Waiting /\ q # p
      <4>1. buf[k][t] # Nil /\ q = Item(k, t) /\ q # p
        BY <2>4, <3>3
      <4> QED
        BY <4>1, WaitingIs DEF InChannelOrSlot
    <3> QED
      BY <3>1, <3>2, <3>3
  <2>7. ASSUME NEW q \in Waiting, q # p PROVE q \in Waiting'
    <3>1. \/ \E i \in DOMAIN rtpChan : q = rtpChan[i]
          \/ \E k \in Kinds : \E t \in SeqNums : buf[k][t] # Nil /\ q = Item(k, t)
      BY WaitingIs DEF InChannelOrSlot
    <3>2. ASSUME NEW i \in DOMAIN rtpChan, q = rtpChan[i] PROVE q \in Waiting'
      BY <1>1, <3>2, WaitingNext DEF InChannelOrSlot
    <3>3. ASSUME NEW k \in Kinds, NEW t \in SeqNums, buf[k][t] # Nil, q = Item(k, t)
          PROVE  q \in Waiting'
      <4>1. buf'[k][t] # Nil /\ q = Item(k, t)'
        BY <2>5, <2>7, <3>3
      <4> QED
        BY <4>1, WaitingNext DEF InChannelOrSlot
    <3> QED
      BY <3>1, <3>2, <3>3
  <2> QED
    BY <2>6, <2>7
<1>6. emitted'[cur] # << >> /\ Last(emitted'[cur]) = Emission
  BY <1>1, AppendPairs
<1>7. RS!Send(p, Last(emitted'[cur]))
  <2>1. emitted[cur] # << >> => RS!Continues(Last(emitted[cur]), Emission)
    BY EmissionContinues
  <2>2. RS!Send(p, Emission)
    BY <1>1, <1>2, <1>3, <1>4, <1>5, <2>1 DEF RS!Send, RS!Last, Last
  <2> QED
    BY <1>6, <2>2
<1> QED
  BY <1>1, <1>2, <1>4, <1>6, <1>7 DEF RS!Next, RS!Last, Last

LEMMA StepResequences ==
  ASSUME Inv, OrderInv, ClockInv, PlaceInv, [Next]_vars
  PROVE  [RS!Next]_(RS!streamVars)
<1>1. CASE \E in \in Inputs : Write(in)
  BY <1>1, WriteTakes
<1>2. CASE TimePasses
  BY <1>2, TimeStutters
<1>3. CASE Receive \/ Cleanup
  BY <1>3, ReceiveLoses, CleanupLoses DEF RS!Next
<1>4. CASE EmitPacket
  BY <1>4, EmitSends
<1>5. CASE Stop \/ Tick \/ EnterFlush \/ SkipHole \/ EndFlush \/ Drain \/ UNCHANGED vars
  <2>1. UNCHANGED <<rtpChan, arrived, buf, emitted>>
    BY <1>5 DEF Stop, Tick, EnterFlush, SkipHole, EndFlush, Drain, vars, chanVars, bufVars, clockVars
  <2>2. Waiting' = Waiting
    BY <2>1 DEF Waiting
  <2> QED
    BY <2>1, <2>2 DEF RS!streamVars
<1> QED
  BY <1>1, <1>2, <1>3, <1>4, <1>5 DEF Next, Flushing

-----------------------------------------------------------------------------
(* Theorems.                                                               *)

(* The inductive invariant holds in every behaviour of the sender.         *)
THEOREM InvHolds == Spec => []Inv
<1>1. Init => Inv
  BY InitInv
<1>2. Inv /\ [Next]_vars => Inv'
  BY NextInv
<1>3. QED
  BY <1>1, <1>2, PTL DEF Spec

(* Every variable of the sender keeps its type: the rewritten sequence     *)
(* numbers and timestamps of flushBufferSet stay in uint16 and uint32.     *)
THEOREM TypeCorrect == Spec => []TypeOK
<1>1. Inv => TypeOK
  BY DEF Inv
<1>2. QED
  BY <1>1, InvHolds, PTL

(* The order lists of RTSPBuffer always index exactly its filled slots.    *)
THEOREM OrderIsIndex == Spec => []OrderIndexesBuffer
<1>1. Inv => OrderIndexesBuffer
  BY DEF Inv
<1>2. QED
  BY <1>1, InvHolds, PTL

(* RTSPBuffer.Add never lets a buffer exceed its bound.                    *)
THEOREM BufferIsBounded == Spec => []BufferBounded
<1>1. Inv => BufferBounded
  BY DEF Inv
<1>2. QED
  BY <1>1, InvHolds, PTL

(* flushBufferSet hands out sequence numbers without gap or repeat,        *)
(* whatever the sources send and in whatever order it arrives.             *)
THEOREM OutputIsGapless == Spec => []GaplessOutput
<1>1. Inv => GaplessOutput
  BY DEF Inv
<1>2. QED
  BY <1>1, InvHolds, PTL

(* Order, clock and places hold together with the invariant.               *)
THEOREM FullInvHolds == Spec => [](Inv /\ OrderInv /\ ClockInv /\ PlaceInv)
<1> DEFINE Full == Inv /\ OrderInv /\ ClockInv /\ PlaceInv
<1>1. Init => Full
  BY InitInv, InitFull
<1>2. Full /\ [Next]_vars => Full'
  BY NextInv, OrderStep, ClockStep, PlaceStep
<1>3. QED
  BY <1>1, <1>2, PTL DEF Spec

(* A packet overtakes a missing one only when it has grown stale.          *)
THEOREM OutputInOrder == Spec => []InOrderOrStale
<1>1. OrderInv => InOrderOrStale
  BY DEF OrderInv
<1>2. QED
  BY <1>1, FullInvHolds, PTL

(* The rewritten timestamps advance as those of the source do, or not at   *)
(* all, across flushes, wrap-around and a change of source.                *)
THEOREM ClockIsSteady == Spec => []SteadyClock
<1>1. ClockInv => SteadyClock
  BY DEF ClockInv
<1>2. QED
  BY <1>1, FullInvHolds, PTL

(* A packet is in the channel, in a slot or in the output, and only once.  *)
THEOREM SentAtMostOnce == Spec => []AtMostOnce
<1>1. Inv /\ PlaceInv => AtMostOnce
  BY PlacesApart
<1>2. QED
  BY <1>1, FullInvHolds, PTL

(* Add, flushBufferSet and Cleanup lose a packet only for a reason.        *)
THEOREM EveryLossAccounted == Spec => LossIsAccounted
<1>1. Inv /\ PlaceInv /\ [Next]_vars =>
        [\A k \in Kinds : \A s \in SeqNums : Accounted(k, s)]_vars
  BY StepAccounts
<1>2. Spec => [][\A k \in Kinds : \A s \in SeqNums : Accounted(k, s)]_vars
  BY <1>1, FullInvHolds, PTL DEF Spec
<1>3. QED
  BY <1>2 DEF LossIsAccounted, Accounted

(* Each flush ends: after 2 * MaxFlushBatch + 1 rounds of its loop at most, *)
(* whatever is written meanwhile.                                          *)
THEOREM FlushesComeDown == Spec => FlushComesDown
<1>1. Inv /\ OrderInv /\ [Next]_vars => [LoopComesDown]_vars
  BY StepComesDown
<1>2. Spec => [][LoopComesDown]_vars
  BY <1>1, FullInvHolds, PTL DEF Spec
<1>3. QED
  BY <1>2 DEF FlushComesDown, LoopComesDown

(* RTSPBuffer implements Resequencer: whatever arrives, is evicted, skipped *)
(* or dropped at shutdown, each packet is sent once or lost, and what is   *)
(* sent of a kind is one stream.                                           *)
THEOREM BufferImplementsResequencer == Spec => ImplementsResequencer
<1>1. Init => RS!Init
  BY InitResequencer
<1>2. Inv /\ OrderInv /\ ClockInv /\ PlaceInv /\ [Next]_vars => [RS!Next]_(RS!streamVars)
  BY StepResequences
<1>3. QED
  BY <1>1, <1>2, FullInvHolds, PTL DEF Spec, RS!Spec, ImplementsResequencer
=============================================================================
