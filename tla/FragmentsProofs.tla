--------------------------- MODULE FragmentsProofs ---------------------------
(***************************************************************************)
(* What the proofs about the modules that compose Fragments with a         *)
(* receiver share: the frames a message is cut into, the job of a sender,  *)
(* and what it means for the messages that something is put into the       *)
(* queues.  Then, for both builds of enqueue(): the invariant that relates *)
(* what is assembled of the messages of a sender to the promises of        *)
(* MessageDelivery, what the actions do to it, and the steps of            *)
(* MessageDelivery they are.  A receiver has to show of its enqueue() only *)
(* that it does with each frame what Handled() says.                       *)
(***************************************************************************)
EXTENDS Fragments, TLAPS, FiniteSetTheorems

\* The offset of a frame in its message, and the id of the p-th message since a restart.
At(q) == q * max_frame_payload_size
Id(p) == p % IdSpace

\* Offsets.
LEMMA Offsets ==
  /\ At(0) = 0
  /\ \A q \in Nat : At(q) \in Nat /\ At(q + 1) = At(q) + max_frame_payload_size
  /\ \A q, p \in Nat : q <= p => At(q) <= At(p)
<1>1. max_frame_payload_size \in Nat \ {0}
  BY FragmentsAssumption
<1>2. PICK F : F = max_frame_payload_size
  OBVIOUS
<1>3. F \in Nat \ {0}
  BY <1>1, <1>2
<1>4. 0 * F = 0
  BY <1>3
<1>5. \A q \in Nat : q * F \in Nat /\ (q + 1) * F = q * F + F
  BY <1>3
<1>6. \A q, p \in Nat : q <= p => q * F <= p * F
  BY <1>3
<1> QED BY <1>2, <1>4, <1>5, <1>6 DEF At

\* How many frames a message takes.
LEMMA FramesOfMessage ==
  ASSUME NEW len \in Nat \ {0}
  PROVE  /\ FrameCount(len) \in Nat \ {0}
         /\ At(FrameCount(len) - 1) < len /\ len <= At(FrameCount(len))
         /\ FrameCount(len) = 1 <=> len <= max_frame_payload_size
<1>1. PICK F : F = max_frame_payload_size
  OBVIOUS
<1>2. F \in Nat \ {0}
  BY <1>1, FragmentsAssumption
<1>3. PICK d, r : d = len \div F /\ r = len % F
  OBVIOUS
<1>4. d \in Nat /\ r \in 0..(F - 1) /\ len = d * F + r
  BY <1>2, <1>3
<1>5. /\ \A q \in Nat : At(q) \in Nat /\ At(q + 1) = At(q) + F
      /\ At(d) = d * F /\ At(0) = 0
  BY <1>1, <1>4, Offsets DEF At
<1>6. PICK N : N = FrameCount(len)
  OBVIOUS
<1>7. N = d + (IF r # 0 THEN 1 ELSE 0)
  BY <1>1, <1>3, <1>6 DEF FrameCount
<1>8. N \in Nat \ {0} /\ At(N - 1) < len /\ len <= At(N)
  <2>1. CASE r # 0
    <3>1. N = d + 1 /\ N - 1 = d
      BY <1>4, <1>7, <2>1
    <3> QED BY <1>2, <1>4, <1>5, <2>1, <3>1
  <2>2. CASE r = 0
    <3>1. N = d /\ len = At(d)
      BY <1>4, <1>5, <1>7, <2>2
    <3>2. d # 0
      BY <1>5, <3>1
    <3>3. d - 1 \in Nat /\ At(d - 1) + F = At((d - 1) + 1) /\ (d - 1) + 1 = d
      BY <1>4, <1>5, <3>2
    <3> QED BY <1>2, <1>4, <1>5, <3>1, <3>2, <3>3
  <2> QED BY <2>1, <2>2
<1>9. N = 1 <=> len <= F
  <2>1. At(1) = F /\ At(0 + 1) = At(0) + F
    BY <1>2, <1>5
  <2>2. N # 1 => At(1) <= At(N - 1) /\ At(N - 1) \in Nat
    <3>1. N # 1 => N - 1 \in Nat /\ 1 <= N - 1
      BY <1>8
    <3> QED BY <3>1, Offsets
  <2> QED BY <1>2, <1>8, <2>1, <2>2
<1> QED BY <1>1, <1>6, <1>8, <1>9

\* The remainder of a number that is given as a multiple and a rest.
LEMMA Remainders ==
  ASSUME NEW I \in Nat \ {0}, NEW d \in Nat, NEW r \in 0..(I - 1)
  PROVE  (d * I + r) % I = r
<1>1. PICK x : x = d * I + r
  OBVIOUS
<1>2. PICK e, t : e = x \div I /\ t = x % I
  OBVIOUS
<1>3. x \in Nat
  BY <1>1
<1>4. e \in Nat /\ t \in 0..(I - 1) /\ x = e * I + t
  BY <1>2, <1>3
<1>5. \A a, b \in Nat : a + 1 <= b => a * I + I <= b * I
  <2> TAKE a \in Nat, b \in Nat
  <2>1. (a + 1) * I = a * I + I
    OBVIOUS
  <2>2. a + 1 <= b => (a + 1) * I <= b * I
    OBVIOUS
  <2> QED BY <2>1, <2>2
<1>6. d * I \in Nat /\ e * I \in Nat
  BY <1>4
<1>7. ~(d + 1 <= e) /\ ~(e + 1 <= d)
  BY <1>1, <1>4, <1>5, <1>6
<1>8. d = e
  BY <1>4, <1>7
<1> QED BY <1>1, <1>2, <1>4, <1>6, <1>8

\* The ids of the first IdSpace messages differ.
LEMMA Ids ==
  /\ IdSpace \in Nat \ {0}
  /\ \A p \in Nat : Id(p) \in 0..(IdSpace - 1) /\ (Id(p) + 1) % IdSpace = Id(p + 1)
  /\ \A p, q \in 1..IdSpace : Id(p) = Id(q) => p = q
<1>1. PICK I : I = IdSpace
  OBVIOUS
<1>2. I \in Nat \ {0}
  BY <1>1, FragmentsAssumption
<1>3. \A p \in Nat : p % I \in 0..(I - 1) /\ ((p % I) + 1) % I = (p + 1) % I
  <2> TAKE p \in Nat
  <2>1. PICK d, r : d = p \div I /\ r = p % I
    OBVIOUS
  <2>2. d \in Nat /\ r \in 0..(I - 1) /\ p = d * I + r
    BY <1>2, <2>1
  <2>3. (r + 1) % I = (p + 1) % I
    <3>1. CASE r + 1 < I
      <4>1. p + 1 = d * I + (r + 1) /\ r + 1 \in 0..(I - 1)
        BY <1>2, <2>2, <3>1
      <4>2. p + 1 = d * I + (r + 1) => (p + 1) % I = r + 1
        BY <1>2, <2>2, <4>1, Remainders
      <4>3. (r + 1) % I = r + 1
        BY <1>2, <2>2, <3>1
      <4> QED BY <4>1, <4>2, <4>3
    <3>2. CASE r + 1 = I
      <4>1. p + 1 = (d + 1) * I + 0 /\ d + 1 \in Nat /\ 0 \in 0..(I - 1)
        BY <1>2, <2>2, <3>2
      <4>2. p + 1 = (d + 1) * I + 0 => (p + 1) % I = 0
        BY <1>2, <4>1, Remainders
      <4>3. (r + 1) % I = 0
        BY <1>2, <3>2
      <4> QED BY <4>1, <4>2, <4>3
    <3> QED BY <1>2, <2>2, <3>1, <3>2
  <2> QED BY <2>1, <2>2, <2>3
<1>4. \A p \in 1..I : p % I = IF p = I THEN 0 ELSE p
  BY <1>2
<1>5. ASSUME NEW p \in 1..I, NEW q \in 1..I, p % I = q % I PROVE p = q
  BY <1>2, <1>4, <1>5
<1>6. \A p \in Nat : Id(p) = p % I
  BY <1>1 DEF Id
<1>7. /\ \A p \in Nat : Id(p) \in 0..(I - 1) /\ (Id(p) + 1) % I = Id(p + 1)
      /\ \A p, q \in 1..I : Id(p) = Id(q) => p = q
  <2>1. \A p \in Nat : p + 1 \in Nat /\ Id(p + 1) = (p + 1) % I
    BY <1>6
  <2>2. \A p, q \in 1..I : Id(p) = Id(q) => p = q
    <3>1. 1..I \subseteq Nat
      BY <1>2
    <3> QED BY <1>5, <1>6, <3>1
  <2> QED BY <1>3, <1>6, <2>1, <2>2
<1> QED BY <1>1, <1>2, <1>7

\* Two consecutive parts of a sequence make one.
LEMMA PartsJoin ==
  ASSUME NEW S, NEW w \in Seq(S), NEW a \in Nat, NEW e \in Nat, a <= e, e <= Len(w)
  PROVE  /\ SubSeq(w, 1, a) \o SubSeq(w, a + 1, e) = SubSeq(w, 1, e)
         /\ SubSeq(w, 1, e) \in Seq(S) /\ Len(SubSeq(w, 1, e)) = e
         /\ Len(SubSeq(w, a + 1, e)) = e - a /\ SubSeq(w, a + 1, e) \in Seq(S)
         /\ \A i \in DOMAIN SubSeq(w, a + 1, e) : \E j \in 1..Len(w) : SubSeq(w, a + 1, e)[i] = w[j]
<1> DEFINE x == SubSeq(w, 1, a)
           y == SubSeq(w, a + 1, e)
           z == SubSeq(w, 1, e)
<1>1. x \in Seq(S) /\ y \in Seq(S) /\ z \in Seq(S)
  OBVIOUS
<1>2. Len(x) = a /\ Len(y) = e - a /\ Len(z) = e
  OBVIOUS
<1>3. /\ \A i \in 1..a : x[i] = w[i]
      /\ \A i \in 1..(e - a) : y[i] = w[a + i]
      /\ \A i \in 1..e : z[i] = w[i]
  OBVIOUS
<1> HIDE DEF x, y, z
<1>4. PICK c : c = x \o y
  OBVIOUS
<1>5. /\ c \in Seq(S) /\ Len(c) = Len(x) + Len(y)
      /\ \A i \in 1..Len(x) : c[i] = x[i]
      /\ \A i \in 1..Len(y) : c[Len(x) + i] = y[i]
  BY <1>1, <1>4
<1>6. c = z
  <2>1. Len(c) = e
    BY <1>2, <1>5
  <2>2. ASSUME NEW i \in 1..e PROVE c[i] = z[i]
    <3>1. CASE i <= a
      BY <1>2, <1>3, <1>5, <3>1
    <3>2. CASE i > a
      <4>1. PICK k \in 1..(e - a) : i = a + k
        <5>1. i - a \in 1..(e - a) /\ i = a + (i - a)
          BY <3>2
        <5> QED BY <5>1
      <4>2. c[a + k] = y[k] /\ y[k] = w[a + k] /\ z[a + k] = w[a + k]
        BY <1>2, <1>3, <1>5, <4>1
      <4> QED BY <4>1, <4>2
    <3> QED BY <3>1, <3>2
  <2> QED BY <1>1, <1>2, <1>5, <2>1, <2>2
<1>7. \A i \in DOMAIN y : \E j \in 1..Len(w) : y[i] = w[j]
  <2> TAKE i \in DOMAIN y
  <2>1. i \in 1..(e - a) /\ a + i \in 1..Len(w)
    BY <1>1, <1>2
  <2> QED BY <1>3, <2>1
<1> QED BY <1>1, <1>2, <1>4, <1>6, <1>7 DEF x, y, z

-----------------------------------------------------------------------------
(***************************************************************************)
(* Types, what the present job of a sender is, and the frames it sends.    *)
(***************************************************************************)
Byte     == Nat \X Nat
Job      == [ phase : { "idle", "sending", "failed" }, msg : Nat, fragment_id : Nat,
              msgCount : Nat, retries : Nat ]
Header   == [ from : Senders, id : 0..(IdSpace - 1), type : MsgTypes, len : Lens ]
Delivery == [ from : Senders, msg : Nat, parts : SUBSET Nat ]
Results  == { "none", "pending", "true", "false" }

Types == /\ next_id \in [ Senders -> 0..(IdSpace - 1) ]
         /\ job \in [ Senders -> Job ]
         /\ written \in Seq(Header) /\ Len(written) <= MaxMsgs
         /\ attempts \in [ Msg -> Nat ]
         /\ outcome \in [ Msg -> Results ]
         /\ restarts \in Seq(Senders)
         /\ delivered \in Seq(Delivery)
         /\ swallowed \in SUBSET Nat

\* The frames of message m; the part of it after the first a bytes and up to byte e.
N(m)          == FrameCount(written[m].len)
Part(m, a, e) == SubSeq(Whole(m), a + 1, e)

\* Where frame q, counted from 0, of message m ends.
End(m, q) == IF q = N(m) - 1 THEN written[m].len ELSE At(q + 1)

\* m is a message of sender s with that id.
Of(m, s, id) == m \in 1..Len(written) /\ written[m].from = s /\ written[m].id = id

\* The job of sender s is about its last message.
JobInv(s) ==
  LET m == job[s].msg
  IN  /\ m # 0 => /\ m \in 1..Len(written) /\ written[m].from = s
                  /\ \A k \in 1..Len(written) : written[k].from = s => k <= m
      /\ job[s].phase # "idle" => m # 0 /\ written[m].len <= MAX_PAYLOAD_SIZE
      /\ job[s].phase = "sending" => /\ job[s].fragment_id \in 1..N(m)
                                     /\ job[s].msgCount = N(m) - job[s].fragment_id

\* f is frame q of message m of sender s.
FrameIs(f, s, m, q) ==
  /\ f.from = s /\ f.id = written[m].id
  /\ f.data = Part(m, At(q), End(m, q))
  /\ IF N(m) = 1 THEN f.type = written[m].type
     ELSE IF q = N(m) - 1
     THEN f.type = NETWORK_LAST_FRAGMENT /\ f.reserved = written[m].type
     ELSE /\ f.type = IF q = 0 THEN NETWORK_FIRST_FRAGMENT ELSE NETWORK_MORE_FRAGMENTS
          /\ f.reserved = N(m) - q

\* The types of messages are none of those of fragments.
LEMMA PlainTypes ==
  \A type \in MsgTypes : type \in Nat /\ type \notin FragmentTypes
BY FragmentsAssumption DEF FragmentTypes, NETWORK_FIRST_FRAGMENT, NETWORK_MORE_FRAGMENTS,
   NETWORK_LAST_FRAGMENT, EXTERNAL_DATA_TYPE

\* A message that was written.
LEMMA WrittenMessage ==
  ASSUME Types, NEW m \in 1..Len(written)
  PROVE  /\ written[m] \in Header /\ m \in Msg /\ m \in Nat /\ m # 0
         /\ written[m].len \in Nat \ {0} /\ written[m].type \in MsgTypes
         /\ written[m].from \in Senders /\ written[m].id \in 0..(IdSpace - 1)
         /\ N(m) \in Nat \ {0}
         /\ Whole(m) \in Seq(Byte) /\ Len(Whole(m)) = written[m].len
         /\ \A i \in 1..written[m].len : Whole(m)[i] = << m, i >>
<1>1. written[m] \in Header /\ Len(written) \in Nat
  BY DEF Types
<1>2. MaxMsgs \in Nat
  BY FragmentsAssumption
<1>3. m \in Msg /\ m \in Nat /\ m # 0
  BY <1>1, <1>2 DEF Types, Msg
<1>4. Lens \subseteq Nat \ {0}
  BY FragmentsAssumption
<1>5. /\ written[m].len \in Nat \ {0} /\ written[m].type \in MsgTypes
      /\ written[m].from \in Senders /\ written[m].id \in 0..(IdSpace - 1)
  BY <1>1, <1>4 DEF Header
<1>6. N(m) \in Nat \ {0}
  BY <1>5, FramesOfMessage DEF N
<1>7. PICK len \in Nat : len = written[m].len
  BY <1>5
<1>8. /\ [ i \in 1..len |-> << m, i >> ] \in Seq(Byte)
      /\ Len([ i \in 1..len |-> << m, i >> ]) = len
      /\ \A i \in 1..len : [ j \in 1..len |-> << m, j >> ][i] = << m, i >>
  BY <1>3 DEF Byte
<1>9. Whole(m) = [ i \in 1..len |-> << m, i >> ]
  BY <1>7 DEF Whole
<1> QED BY <1>1, <1>3, <1>5, <1>6, <1>7, <1>8, <1>9

\* Where the frames of a message end.
LEMMA FrameEnds ==
  ASSUME Types, NEW m \in 1..Len(written), NEW q \in 0..(N(m) - 1)
  PROVE  /\ At(q) \in Nat /\ At(q) < End(m, q) /\ End(m, q) \in Nat
         /\ End(m, q) <= written[m].len
         /\ q < N(m) - 1 => End(m, q) = At(q + 1)
<1>1. written[m].len \in Nat \ {0} /\ N(m) \in Nat \ {0} /\ q \in Nat /\ N(m) - 1 \in Nat
  BY WrittenMessage
<1>2. max_frame_payload_size \in Nat \ {0}
  BY FragmentsAssumption
<1>3. At(N(m) - 1) < written[m].len
  BY <1>1, FramesOfMessage DEF N
<1>4. At(q) \in Nat /\ At(q + 1) = At(q) + max_frame_payload_size /\ At(N(m) - 1) \in Nat
  BY <1>1, Offsets
<1>5. CASE q = N(m) - 1
  BY <1>1, <1>3, <1>4, <1>5 DEF End
<1>6. CASE q # N(m) - 1
  <2>1. q + 1 \in Nat /\ q + 1 <= N(m) - 1
    BY <1>1, <1>6
  <2>2. At(q + 1) <= At(N(m) - 1)
    BY <1>1, <2>1, Offsets
  <2> QED BY <1>1, <1>2, <1>3, <1>4, <1>6, <2>2 DEF End
<1> QED BY <1>5, <1>6

\* The bytes of a frame.
LEMMA FrameBytes ==
  ASSUME Types, NEW m \in 1..Len(written), NEW q \in 0..(N(m) - 1), NEW f, NEW s,
         FrameIs(f, s, m, q)
  PROVE  /\ f.data \in Seq(Byte) /\ f.data # << >> /\ Len(f.data) = End(m, q) - At(q)
         /\ \A i \in DOMAIN f.data : f.data[i][1] = m
         /\ MsgOf(f) = m
         /\ f.id \in 0..(IdSpace - 1) /\ f.type \in Nat
<1>1. /\ Whole(m) \in Seq(Byte) /\ Len(Whole(m)) = written[m].len
      /\ \A i \in 1..written[m].len : Whole(m)[i] = << m, i >>
      /\ written[m].len \in Nat
      /\ written[m].id \in 0..(IdSpace - 1)
  BY WrittenMessage
<1>2. PICK a, e, d : a = At(q) /\ e = End(m, q) /\ d = f.data
  OBVIOUS
<1>3. a \in Nat /\ e \in Nat /\ a < e /\ e <= Len(Whole(m))
  BY <1>1, <1>2, FrameEnds
<1>4. d = SubSeq(Whole(m), a + 1, e)
  BY <1>2 DEF FrameIs, Part
<1>5. /\ d \in Seq(Byte) /\ Len(d) = e - a
      /\ \A i \in DOMAIN d : \E j \in 1..Len(Whole(m)) : d[i] = Whole(m)[j]
  <2>1. PICK w \in Seq(Byte) : w = Whole(m)
    BY <1>1
  <2>2. /\ SubSeq(w, a + 1, e) \in Seq(Byte) /\ Len(SubSeq(w, a + 1, e)) = e - a
        /\ \A i \in DOMAIN SubSeq(w, a + 1, e) :
             \E j \in 1..Len(w) : SubSeq(w, a + 1, e)[i] = w[j]
    BY <1>3, <2>1, PartsJoin
  <2> QED BY <1>4, <2>1, <2>2, Zenon
<1>6. \A i \in DOMAIN d : d[i][1] = m
  BY <1>1, <1>5
<1>7. d # << >> /\ Head(d) = d[1] /\ 1 \in DOMAIN d
  BY <1>3, <1>5
<1>8. f.type \in Nat /\ f.id \in 0..(IdSpace - 1)
  <2>1. written[m].type \in Nat
    BY WrittenMessage, PlainTypes
  <2> QED BY <1>1, <2>1 DEF FrameIs, NETWORK_FIRST_FRAGMENT, NETWORK_MORE_FRAGMENTS,
                            NETWORK_LAST_FRAGMENT
<1> QED BY <1>2, <1>5, <1>6, <1>7, <1>8 DEF MsgOf

\* The frame main_write() builds is the next one of its message.
LEMMA FrameSent ==
  ASSUME Types, NEW s \in Senders, JobInv(s), job[s].phase = "sending",
         NEW garbage, NEW f, f = Frame(s, garbage)
  PROVE  LET m == job[s].msg
         IN  /\ m \in 1..Len(written) /\ Of(m, s, written[m].id)
             /\ job[s].msgCount \in 0..(N(m) - 1) /\ job[s].fragment_id = N(m) - job[s].msgCount
             /\ written[m].len <= MAX_PAYLOAD_SIZE
             /\ FrameIs(f, s, m, job[s].msgCount)
             /\ N(m) = 1 => f.reserved = garbage
<1>1. PICK m, q, id, len : /\ m = job[s].msg /\ q = job[s].msgCount /\ id = job[s].fragment_id
                           /\ len = written[m].len
  OBVIOUS
<1>2. /\ m \in 1..Len(written) /\ written[m].from = s /\ len <= MAX_PAYLOAD_SIZE
      /\ id \in 1..N(m) /\ q = N(m) - id
  BY <1>1 DEF JobInv
<1>3. len \in Nat \ {0} /\ N(m) \in Nat \ {0} /\ q \in 0..(N(m) - 1) /\ id = N(m) - q
  BY <1>1, <1>2, WrittenMessage
<1>4. /\ N(m) = 1 <=> len <= max_frame_payload_size
      /\ At(N(m) - 1) < len /\ len <= At(N(m))
  BY <1>1, <1>3, FramesOfMessage DEF N
<1>5. End(m, q) = smaller(len, At(q) + max_frame_payload_size)
  <2>1. At(q) \in Nat /\ At(q + 1) = At(q) + max_frame_payload_size
    BY <1>3, Offsets
  <2>2. CASE q = N(m) - 1
    <3>1. q + 1 = N(m)
      BY <1>3, <2>2
    <3>2. len <= At(q) + max_frame_payload_size
      BY <1>4, <2>1, <3>1
    <3>3. At(q) + max_frame_payload_size \in Nat
      BY <2>1, FragmentsAssumption
    <3>4. smaller(len, At(q) + max_frame_payload_size) = len
      BY <1>3, <3>2, <3>3 DEF smaller
    <3> QED BY <1>1, <2>2, <3>4 DEF End
  <2>3. CASE q # N(m) - 1
    <3>1. End(m, q) = At(q) + max_frame_payload_size
      BY <2>1, <2>3 DEF End
    <3>2. q + 1 \in Nat /\ N(m) - 1 \in Nat /\ q + 1 <= N(m) - 1
      BY <1>3, <2>3
    <3>3. At(q + 1) <= At(N(m) - 1) /\ At(q + 1) \in Nat /\ At(N(m) - 1) \in Nat
      BY <3>2, Offsets
    <3>4. At(q) + max_frame_payload_size < len
      BY <1>3, <1>4, <2>1, <3>3
    <3>5. smaller(len, At(q) + max_frame_payload_size) = At(q) + max_frame_payload_size
      BY <1>3, <2>1, <3>3, <3>4 DEF smaller
    <3> QED BY <3>1, <3>5
  <2> QED BY <2>2, <2>3
<1>6. f = [ from     |-> s,
            id       |-> written[m].id,
            type     |-> IF len <= max_frame_payload_size THEN written[m].type
                         ELSE IF id = 1 THEN NETWORK_LAST_FRAGMENT
                         ELSE IF q = 0 THEN NETWORK_FIRST_FRAGMENT
                         ELSE NETWORK_MORE_FRAGMENTS,
            reserved |-> IF len <= max_frame_payload_size THEN garbage
                         ELSE IF id = 1 THEN written[m].type ELSE id,
            data     |-> Part(m, At(q), End(m, q)) ]
  BY <1>1, <1>5 DEF Frame, Part, At
<1>7. id = 1 <=> q = N(m) - 1
  BY <1>3
<1>8. FrameIs(f, s, m, q)
  <2>1. /\ f.from = s /\ f.id = written[m].id /\ f.data = Part(m, At(q), End(m, q))
        /\ len <= max_frame_payload_size => f.type = written[m].type
        /\ ~(len <= max_frame_payload_size) =>
             IF id = 1 THEN f.type = NETWORK_LAST_FRAGMENT /\ f.reserved = written[m].type
             ELSE /\ f.type = IF q = 0 THEN NETWORK_FIRST_FRAGMENT ELSE NETWORK_MORE_FRAGMENTS
                  /\ f.reserved = id
    BY <1>6
  <2> QED BY <1>3, <1>4, <1>7, <2>1 DEF FrameIs
<1>9. N(m) = 1 => f.reserved = garbage
  BY <1>4, <1>6
<1> QED BY <1>1, <1>2, <1>3, <1>8, <1>9 DEF Of

\* What SendFrame() makes of the job of sender s, whose frame q of message m had outcome o.
JobAfter(s, m, q, o) ==
  /\ job' \in [ Senders -> Job ] /\ job'[s].msg = m
  /\ \A t \in Senders \ {s} : job'[t] = job[t]
  /\ \/ /\ o \in Believed /\ q = N(m) - 1
        /\ job'[s].phase = "idle"
        /\ outcome' = [ outcome EXCEPT ![m] = "true" ]
     \/ /\ o \in Believed /\ q # N(m) - 1
        /\ job'[s].phase = "sending" /\ job'[s].msgCount = q + 1
        /\ job'[s].fragment_id = N(m) - (q + 1)
        /\ outcome' = outcome
     \/ /\ o \notin Believed /\ N(m) # 1
        /\ job'[s].phase = "sending" /\ job'[s].msgCount = q
        /\ job'[s].fragment_id = N(m) - q
        /\ outcome' = outcome
     \/ /\ o \notin Believed
        /\ job'[s].phase = "failed"
        /\ outcome' = [ outcome EXCEPT ![m] = "false" ]

\* One round of the loop of main_write().
LEMMA SendStep ==
  ASSUME Types, NEW s \in Senders, JobInv(s), NEW o, SendFrame(s, o)
  PROVE  /\ JobAfter(s, job[s].msg, job[s].msgCount, o)
         /\ job[s].phase = "sending" /\ o \in Outcomes
         /\ o = "queued" => /\ N(job[s].msg) > 1
                            /\ job[s].msgCount < N(job[s].msg) - 1
         /\ UNCHANGED << next_id, written, attempts, restarts >>
<1>1. PICK f, m, q, j, len : /\ f = Frame(s, 0) /\ m = job[s].msg /\ q = job[s].msgCount
                             /\ j = job[s] /\ len = written[m].len
  OBVIOUS
<1>2. job[s].phase = "sending" /\ o \in Outcomes
  BY DEF SendFrame
<1>3. /\ m \in 1..Len(written) /\ q \in 0..(N(m) - 1) /\ j.fragment_id = N(m) - q
  BY <1>1, <1>2, FrameSent
<1>4. /\ j \in Job /\ len \in Nat \ {0} /\ N(m) \in Nat \ {0} /\ m \in Msg
      /\ N(m) = 1 <=> len <= max_frame_payload_size
  <2>1. j \in Job
    BY <1>1 DEF Types
  <2>2. len \in Nat \ {0} /\ N(m) \in Nat \ {0} /\ m \in Msg
    BY <1>1, <1>3, WrittenMessage
  <2> QED BY <1>1, <2>1, <2>2, FramesOfMessage DEF N
<1>5. PICK a : a = AfterFrame(j, o \in Believed)
  OBVIOUS
<1>6. /\ IF a.fragment_id = 0
         THEN /\ job' = [ job EXCEPT ![s] = [ Idle EXCEPT !.msg = m ] ]
              /\ outcome' = [ outcome EXCEPT ![m] = "true" ]
         ELSE IF GivesUp(len, a.retries)
         THEN /\ job' = [ job EXCEPT ![s] = [ a EXCEPT !.phase = "failed" ] ]
              /\ outcome' = [ outcome EXCEPT ![m] = "false" ]
         ELSE job' = [ job EXCEPT ![s] = a ] /\ UNCHANGED outcome
      /\ o = "queued" => len > max_frame_payload_size /\ j.fragment_id > 1
      /\ UNCHANGED << next_id, written, attempts, restarts >>
  BY <1>1, <1>5 DEF SendFrame
<1>7. \A t \in Senders \ {s} : job'[t] = job[t]
  BY <1>6 DEF Types
<1>8. max_frame_payload_size \in Nat \ {0}
  BY FragmentsAssumption
<1>9. CASE o \in Believed
  <2>1. /\ a \in Job /\ a.phase = "sending" /\ a.msg = m /\ a.retries = 0
        /\ a.fragment_id = N(m) - q - 1 /\ a.msgCount = q + 1
    <3>1. a = [ j EXCEPT !.retries = 0, !.fragment_id = @ - 1, !.msgCount = @ + 1 ]
      BY <1>5, <1>9 DEF AfterFrame
    <3>2. j.fragment_id - 1 \in Nat /\ j.msgCount + 1 \in Nat
      BY <1>1, <1>3, <1>4
    <3> QED BY <1>1, <1>2, <1>3, <1>4, <3>1, <3>2 DEF Job
  <2>2. ~GivesUp(len, 0)
    BY <1>4, <1>8 DEF GivesUp
  <2>3. CASE q = N(m) - 1
    <3>1. a.fragment_id = 0
      BY <1>4, <2>1, <2>3
    <3>2. [ Idle EXCEPT !.msg = m ] \in Job
      BY <1>3, <1>4, WrittenMessage DEF Idle, Job
    <3>3. [ Idle EXCEPT !.msg = m ].phase = "idle" /\ [ Idle EXCEPT !.msg = m ].msg = m
      BY DEF Idle
    <3>4. job' \in [ Senders -> Job ] /\ job'[s] = [ Idle EXCEPT !.msg = m ]
      BY <1>6, <3>1, <3>2 DEF Types
    <3>5. outcome' = [ outcome EXCEPT ![m] = "true" ]
      BY <1>6, <3>1
    <3> QED BY <1>1, <1>2, <1>3, <1>4, <1>6, <1>7, <1>9, <2>3, <3>3, <3>4, <3>5 DEF JobAfter
  <2>4. CASE q # N(m) - 1
    <3>1. a.fragment_id # 0
      BY <1>3, <1>4, <2>1, <2>4
    <3>2. job' = [ job EXCEPT ![s] = a ] /\ outcome' = outcome
      BY <1>6, <2>1, <2>2, <3>1
    <3>3. job' \in [ Senders -> Job ] /\ job'[s] = a
      BY <2>1, <3>2 DEF Types
    <3>4. a.fragment_id = N(m) - (q + 1)
      BY <1>3, <1>4, <2>1
    <3>5. o = "queued" => N(m) > 1 /\ q < N(m) - 1
      BY <1>3, <1>4, <2>4, <1>6
    <3> QED BY <1>1, <1>2, <1>6, <1>7, <1>9, <2>1, <2>4, <3>2, <3>3, <3>4, <3>5 DEF JobAfter
  <2> QED BY <2>3, <2>4
<1>10. CASE o \notin Believed
  <2>1. /\ a \in Job /\ a.phase = "sending" /\ a.msg = m /\ a.retries >= 1
        /\ a.fragment_id = N(m) - q /\ a.msgCount = q
    <3>1. a = [ j EXCEPT !.retries = @ + 1 ]
      BY <1>5, <1>10 DEF AfterFrame
    <3>2. j.retries \in Nat /\ j.retries + 1 \in Nat /\ j.retries + 1 >= 1
      BY <1>4 DEF Job
    <3>3. a \in Job
      BY <1>4, <3>1, <3>2 DEF Job
    <3>4. /\ a.phase = j.phase /\ a.msg = j.msg /\ a.retries = j.retries + 1
          /\ a.fragment_id = j.fragment_id /\ a.msgCount = j.msgCount
      BY <1>4, <3>1 DEF Job
    <3> QED BY <1>1, <1>2, <1>3, <3>2, <3>3, <3>4
  <2>2. a.fragment_id # 0
    BY <1>3, <1>4, <2>1
  <2>3. o # "queued"
    BY <1>10 DEF Believed
  <2>4. CASE GivesUp(len, a.retries)
    <3>1. PICK b : b = [ a EXCEPT !.phase = "failed" ]
      OBVIOUS
    <3>2. b \in Job /\ b.phase = "failed" /\ b.msg = m
      BY <2>1, <3>1 DEF Job
    <3>3. job' = [ job EXCEPT ![s] = b ] /\ outcome' = [ outcome EXCEPT ![m] = "false" ]
      BY <1>6, <2>2, <2>4, <3>1
    <3>4. job' \in [ Senders -> Job ] /\ job'[s] = b
      BY <3>2, <3>3 DEF Types
    <3> QED BY <1>1, <1>2, <1>6, <1>7, <1>10, <2>3, <3>2, <3>3, <3>4 DEF JobAfter
  <2>5. CASE ~GivesUp(len, a.retries)
    <3>1. job' = [ job EXCEPT ![s] = a ] /\ outcome' = outcome
      BY <1>6, <2>2, <2>5
    <3>2. job' \in [ Senders -> Job ] /\ job'[s] = a
      BY <2>1, <3>1 DEF Types
    <3>3. a.retries \in Nat
      BY <2>1 DEF Job
    <3>4. N(m) # 1
      BY <1>4, <1>8, <2>1, <2>5, <3>3 DEF GivesUp
    <3> QED BY <1>1, <1>2, <1>6, <1>7, <1>10, <2>1, <2>3, <3>1, <3>2, <3>4 DEF JobAfter
  <2> QED BY <2>4, <2>5
<1> QED BY <1>9, <1>10

\* The job stays about the last message of its sender.
LEMMA JobKept ==
  ASSUME Types, NEW s \in Senders, JobInv(s), NEW o, SendFrame(s, o)
  PROVE  JobInv(s)'
<1>1. PICK f, m, q : f = Frame(s, 0) /\ m = job[s].msg /\ q = job[s].msgCount
  OBVIOUS
<1>2. JobAfter(s, m, q, o) /\ job[s].phase = "sending" /\ written' = written
  BY <1>1, SendStep
<1>3. /\ m \in 1..Len(written) /\ q \in 0..(N(m) - 1) /\ written[m].len <= MAX_PAYLOAD_SIZE
  BY <1>1, <1>2, FrameSent
<1>4. N(m) \in Nat \ {0} /\ N(m)' = N(m) /\ m # 0
  <2>1. N(m) \in Nat \ {0} /\ m # 0
    BY <1>3, WrittenMessage
  <2> QED BY <1>2, <2>1 DEF N
<1>5. job'[s].msg = m
  BY <1>2 DEF JobAfter
<1>6. job'[s].phase = "sending" =>
        job'[s].fragment_id \in 1..N(m) /\ job'[s].msgCount = N(m) - job'[s].fragment_id
  BY <1>2, <1>3, <1>4 DEF JobAfter
<1> QED BY <1>1, <1>2, <1>3, <1>4, <1>5, <1>6 DEF JobInv

\* The bytes are of messages of sender s with that id.
AllOf(data, s, id) == \A i \in DOMAIN data : Of(data[i][1], s, id)

\* A job that begins.
LEMMA BeginJob ==
  ASSUME NEW m \in Nat, NEW len \in Nat \ {0}, NEW b, b = Begin(m, len)
  PROVE  /\ b \in Job /\ b.phase = "sending" /\ b.msg = m /\ b.msgCount = 0
         /\ b.fragment_id = FrameCount(len)
<1>1. FrameCount(len) \in Nat
  BY FramesOfMessage
<1> QED BY <1>1 DEF Begin, Job

\* Write() appends a message.
LEMMA WriteAppends ==
  ASSUME Types, NEW s \in Senders, NEW len \in Lens, NEW type \in MsgTypes, Write(s, len, type)
  PROVE  /\ Len(written) \in Nat /\ Len(written)' = Len(written) + 1 /\ Len(written) + 1 \in Msg
         /\ written' \in Seq(Header) /\ Len(written)' <= MaxMsgs
         /\ \A m \in 1..Len(written) : written'[m] = written[m]
         /\ LET w == written'[Len(written) + 1]
            IN  w.from = s /\ w.id = next_id[s] /\ w.type = type /\ w.len = len
<1>1. PICK w : w = [ from |-> s, id |-> next_id[s], type |-> type, len |-> len ]
  OBVIOUS
<1>2. w \in Header
  BY <1>1 DEF Types, Header
<1>3. written' = Append(written, w) /\ Len(written) + 1 \in Msg
  BY <1>1 DEF Write
<1>4. written \in Seq(Header) /\ Len(written) \in Nat /\ MaxMsgs \in Nat
  BY FragmentsAssumption DEF Types
<1>5. /\ written' \in Seq(Header) /\ Len(written') = Len(written) + 1
      /\ \A m \in 1..Len(written) : written'[m] = written[m]
      /\ written'[Len(written) + 1] = w
  BY <1>2, <1>3, <1>4
<1>6. Len(written) + 1 <= MaxMsgs
  BY <1>3, <1>4 DEF Msg
<1> QED BY <1>1, <1>3, <1>4, <1>5, <1>6

\* The job of the sender that writes a new message; the jobs of others.
LEMMA WriteJobs ==
  ASSUME Types, NEW s \in Senders, NEW len \in Lens, NEW type \in MsgTypes,
         Write(s, len, type)
  PROVE  /\ job' \in [ Senders -> Job ] /\ job'[s].msg = Len(written) + 1
         /\ \A t \in Senders \ {s} : job'[t] = job[t]
         /\ \/ /\ len <= MAX_PAYLOAD_SIZE /\ job'[s] = Begin(Len(written) + 1, len)
               /\ outcome' = [ outcome EXCEPT ![Len(written) + 1] = "pending" ]
            \/ /\ job'[s].phase = "idle"
               /\ outcome' = [ outcome EXCEPT ![Len(written) + 1] = "false" ]
<1>1. PICK m, b, i : m = Len(written) + 1 /\ b = Begin(m, len) /\ i = [ Idle EXCEPT !.msg = m ]
  OBVIOUS
<1>2. Types /\ job \in [ Senders -> Job ]
  BY DEF Types
<1>3. m \in Nat /\ len \in Nat \ {0}
  BY <1>1, <1>2, WriteAppends, FragmentsAssumption
<1>4. b \in Job /\ b.msg = m /\ i \in Job /\ i.phase = "idle" /\ i.msg = m
  BY <1>1, <1>3, BeginJob DEF Idle, Job
<1>5. \/ /\ len <= MAX_PAYLOAD_SIZE /\ job' = [ job EXCEPT ![s] = b ]
         /\ outcome' = [ outcome EXCEPT ![m] = "pending" ]
      \/ /\ job' = [ job EXCEPT ![s] = i ]
         /\ outcome' = [ outcome EXCEPT ![m] = "false" ]
  BY <1>1 DEF Write
<1> QED BY <1>1, <1>2, <1>4, <1>5

\* The places of messages and the restarts of a sender are finite sets.
LEMMA UpTo == ASSUME NEW n \in Nat PROVE IsFiniteSet(1..n)
<1>1. 1 \in Int /\ n \in Int
  OBVIOUS
<1> QED BY <1>1, FS_Interval, Zenon

LEMMA RestartsFinite ==
  ASSUME Types, NEW s
  PROVE  /\ IsFiniteSet({ i \in DOMAIN restarts : restarts[i] = s })
         /\ Cardinality({ i \in DOMAIN restarts : restarts[i] = s }) \in Nat
         /\ { i \in DOMAIN restarts : restarts[i] = s } \subseteq 1..Len(restarts)
<1>1. DOMAIN restarts = 1..Len(restarts) /\ Len(restarts) \in Nat
  BY DEF Types
<1>2. PICK R : R = { i \in DOMAIN restarts : restarts[i] = s }
  OBVIOUS
<1>3. R \subseteq 1..Len(restarts)
  BY <1>1, <1>2
<1>4. IsFiniteSet(1..Len(restarts))
  BY <1>1, UpTo
<1>5. IsFiniteSet(R) /\ Cardinality(R) \in Nat
  BY <1>3, <1>4, FS_Subset, FS_CardinalityType
<1> QED BY <1>2, <1>3, <1>5

\* What Deliver() notes.
Noted(from, type, data, e) ==
  /\ delivered' = Append(delivered, e)
  /\ e.from = from /\ e.parts = { data[i][1] : i \in DOMAIN data }
  /\ e.msg \in 0..Len(written)
  /\ e.msg # 0 <=> \E m \in 1..Len(written) : IsMessage(from, type, data, m)
  /\ e.msg # 0 => IsMessage(from, type, data, e.msg)

\* Deliver() puts one such note behind the others.
LEMMA DeliverNotes ==
  ASSUME Types, NEW from \in Senders, NEW type, NEW data \in Seq(Byte), Deliver(from, type, data)
  PROVE  /\ \E e \in Delivery : Noted(from, type, data, e)
         /\ delivered' \in Seq(Delivery) /\ swallowed' = swallowed
<1> DEFINE ms == { m \in 1..Len(written) : IsMessage(from, type, data, m) }
<1>1. PICK x, ps : /\ x = IF ms = {} THEN 0 ELSE CHOOSE m \in ms : TRUE
                   /\ ps = { data[i][1] : i \in DOMAIN data }
  OBVIOUS
<1>2. PICK e : e = [ from |-> from, msg |-> x, parts |-> ps ]
  OBVIOUS
<1>3. delivered' = Append(delivered, e) /\ swallowed' = swallowed
  BY <1>1, <1>2 DEF Deliver
<1>4. ps \in SUBSET Nat
  <2>1. \A i \in DOMAIN data : data[i][1] \in Nat
    BY DEF Byte
  <2> QED BY <1>1, <2>1
<1>5. /\ x \in 0..Len(written) /\ (x # 0 <=> ms # {}) /\ (x # 0 => x \in ms)
      /\ Len(written) \in Nat
  <2>1. Len(written) \in Nat
    BY DEF Types
  <2>2. CASE ms = {}
    BY <1>1, <2>1, <2>2
  <2>3. CASE ms # {}
    <3>1. x \in ms
      BY <1>1, <2>3
    <3>2. x \in 1..Len(written)
      BY <3>1
    <3> QED BY <2>1, <2>3, <3>1, <3>2
  <2> QED BY <2>2, <2>3
<1>6. e \in Delivery /\ e.from = from /\ e.msg = x /\ e.parts = ps
  BY <1>2, <1>4, <1>5 DEF Delivery
<1>7. delivered' \in Seq(Delivery)
  BY <1>3, <1>6 DEF Types
<1>8. /\ x # 0 <=> \E m \in 1..Len(written) : IsMessage(from, type, data, m)
      /\ x # 0 => IsMessage(from, type, data, x)
  BY <1>5
<1> QED BY <1>1, <1>3, <1>5, <1>6, <1>7, <1>8 DEF Noted

\* d consists of the elements of a and b.
Joined(d, a, b, S) ==
  /\ d \in Seq(S) /\ (a # << >> => d # << >>)
  /\ \A i \in DOMAIN d : (\E j \in DOMAIN a : d[i] = a[j]) \/ (\E j \in DOMAIN b : d[i] = b[j])

\* The elements of a concatenation.
LEMMA Concatenation ==
  ASSUME NEW S, NEW a \in Seq(S), NEW b \in Seq(S)
  PROVE  Joined(a \o b, a, b, S)
<1> DEFINE d == a \o b
<1>1. /\ d \in Seq(S) /\ Len(d) = Len(a) + Len(b)
      /\ \A i \in 1..Len(a) : d[i] = a[i]
      /\ \A i \in 1..Len(b) : d[Len(a) + i] = b[i]
  OBVIOUS
<1> HIDE DEF d
<1>2. a # << >> => d # << >>
  BY <1>1
<1>3. ASSUME NEW i \in DOMAIN d
      PROVE  (\E j \in DOMAIN a : d[i] = a[j]) \/ (\E j \in DOMAIN b : d[i] = b[j])
  <2>1. CASE i <= Len(a)
    BY <1>1, <2>1
  <2>2. CASE i > Len(a)
    <3>1. i - Len(a) \in 1..Len(b) /\ i = Len(a) + (i - Len(a))
      BY <1>1, <2>2
    <3> QED BY <1>1, <3>1
  <2> QED BY <1>1, <2>1, <2>2
<1>4. Joined(d, a, b, S)
  BY <1>1, <1>2, <1>3 DEF Joined
<1> QED BY <1>4 DEF d

\* Fragments have a count or a type in their field reserved, and frames that are none are
\* whole messages.
LEMMA FragmentReserved ==
  ASSUME Types, NEW m \in 1..Len(written), NEW q \in 0..(N(m) - 1), NEW f, NEW s,
         FrameIs(f, s, m, q)
  PROVE  /\ f.type \in FragmentTypes <=> N(m) # 1
         /\ f.type \in FragmentTypes => f.reserved \in Nat
<1>1. /\ written[m].type \in Nat /\ written[m].type \notin FragmentTypes
      /\ N(m) \in Nat \ {0}
  BY WrittenMessage, PlainTypes
<1> QED BY <1>1 DEF FrameIs, FragmentTypes

\* How often message m is in the queues; the restarts of sender s that no mixture has
\* used up.
Copies(m) == Cardinality(Places(m))
Stale(s)  == Cardinality({ i \in DOMAIN restarts : restarts[i] = s }) - Cardinality(Mixed(s))

LEMMA PlacesFinite ==
  ASSUME delivered \in Seq(Delivery)
  PROVE  /\ \A x : IsFiniteSet(Places(x)) /\ Copies(x) \in Nat /\ Places(x) \subseteq 1..Len(delivered)
         /\ \A t : /\ IsFiniteSet(Mixed(t)) /\ Cardinality(Mixed(t)) \in Nat
                   /\ Mixed(t) \subseteq 1..Len(delivered)
<1>1. Len(delivered) \in Nat /\ DOMAIN delivered = 1..Len(delivered)
  OBVIOUS
<1>2. IsFiniteSet(1..Len(delivered))
  BY <1>1, UpTo
<1>3. \A x : Places(x) \subseteq 1..Len(delivered)
  BY <1>1 DEF Places
<1>4. \A t : Mixed(t) \subseteq 1..Len(delivered)
  BY <1>3 DEF Mixed
<1> QED BY <1>2, <1>3, <1>4, FS_Subset, FS_CardinalityType DEF Copies

\* What a delivery adds to them.
LEMMA PlacesAppend ==
  ASSUME delivered \in Seq(Delivery), NEW e \in Delivery, delivered' = Append(delivered, e)
  PROVE  LET n == Len(delivered) + 1
         IN  /\ \A x : Places(x)' = IF e.msg = x THEN Places(x) \cup {n} ELSE Places(x)
             /\ \A t : Mixed(t)' = IF e.msg = 0 /\ e.from = t THEN Mixed(t) \cup {n} ELSE Mixed(t)
             /\ \A x : n \notin Places(x)
             /\ \A t : n \notin Mixed(t)
             /\ delivered'[n] = e
             /\ \A i \in 1..Len(delivered) : delivered'[i] = delivered[i]
<1>1. PICK n, l : n = Len(delivered) + 1 /\ l = Len(delivered)
  OBVIOUS
<1>2. /\ l \in Nat /\ n = l + 1 /\ DOMAIN delivered = 1..l /\ DOMAIN delivered' = 1..n
      /\ \A i \in 1..l : delivered'[i] = delivered[i]
      /\ delivered'[n] = e
  BY <1>1
<1>3. 1..n = (1..l) \cup {n} /\ n \notin 1..l
  BY <1>2
<1>4. \A x : Places(x)' = IF e.msg = x THEN Places(x) \cup {n} ELSE Places(x)
  BY <1>2, <1>3 DEF Places
<1>5. \A x : n \notin Places(x) /\ Places(x) \subseteq 1..l
  BY <1>2, <1>3 DEF Places
<1>6. \A t : Mixed(t)' = IF e.msg = 0 /\ e.from = t THEN Mixed(t) \cup {n} ELSE Mixed(t)
  <2> TAKE t
  <2>1. Mixed(t)' = { i \in Places(0)' : delivered'[i].from = t }
    BY DEF Mixed
  <2>2. Places(0)' = IF e.msg = 0 THEN Places(0) \cup {n} ELSE Places(0)
    BY <1>4
  <2>3. \A i \in Places(0) : delivered'[i] = delivered[i]
    BY <1>2, <1>5
  <2> QED BY <1>2, <2>1, <2>2, <2>3 DEF Mixed
<1>7. \A t : n \notin Mixed(t)
  BY <1>5 DEF Mixed
<1> QED BY <1>1, <1>2, <1>4, <1>5, <1>6, <1>7

\* What an event at the receiver means for the messages: message m is delivered; bytes of
\* it are delivered with others of sender s; some are thrown away; nothing of the kind.
Delivers(m) ==
  /\ \A x : Copies(x)' = IF x = m THEN Copies(x) + 1 ELSE Copies(x)
  /\ \A t \in Senders : Stale(t)' = Stale(t)
  /\ \A x : Spoilt(x)' <=> Spoilt(x)
  /\ \E e \in Delivery : delivered' = Append(delivered, e) /\ e.msg = m

Mixes(s, m) ==
  /\ \A x : x # 0 => Copies(x)' = Copies(x)
  /\ Stale(s)' = Stale(s) - 1
  /\ \A t \in Senders \ {s} : Stale(t)' = Stale(t)
  /\ \A x : Spoilt(x) => Spoilt(x)'
  /\ Spoilt(m)'
  /\ \A x \in 1..Len(written) : written[x].from # s => (Spoilt(x)' <=> Spoilt(x))
  /\ \E e \in Delivery : delivered' = Append(delivered, e) /\ e.msg = 0

Spoils(m) ==
  /\ \A x : Copies(x)' = Copies(x)
  /\ \A t \in Senders : Stale(t)' = Stale(t)
  /\ \A x : Spoilt(x)' <=> Spoilt(x) \/ x = m
  /\ delivered' = delivered

Leaves ==
  /\ \A x : Copies(x)' = Copies(x)
  /\ \A t \in Senders : Stale(t)' = Stale(t)
  /\ \A x : Spoilt(x)' <=> Spoilt(x)
  /\ delivered' = delivered

LEMMA SwallowSpoils ==
  ASSUME NEW f, Swallow(f), restarts' = restarts
  PROVE  Spoils(MsgOf(f))
<1>1. swallowed' = swallowed \cup { MsgOf(f) } /\ delivered' = delivered
  BY DEF Swallow
<1>2. \A x : Places(x)' = Places(x)
  BY <1>1 DEF Places
<1>3. \A t : Mixed(t)' = Mixed(t)
  BY <1>1, <1>2 DEF Mixed
<1>4. \A x : Spoilt(x)' <=> Spoilt(x) \/ x = MsgOf(f)
  BY <1>1, <1>2 DEF Spoilt
<1> QED BY <1>1, <1>2, <1>3, <1>4 DEF Spoils, Copies, Stale

LEMMA NothingLeaves ==
  ASSUME Nothing, restarts' = restarts
  PROVE  Leaves
<1>1. swallowed' = swallowed /\ delivered' = delivered
  BY DEF Nothing
<1>2. \A x : Places(x)' = Places(x)
  BY <1>1 DEF Places
<1>3. \A t : Mixed(t)' = Mixed(t)
  BY <1>1, <1>2 DEF Mixed
<1>4. \A x : Spoilt(x)' <=> Spoilt(x)
  BY <1>1, <1>2 DEF Spoilt
<1> QED BY <1>1, <1>2, <1>3, <1>4 DEF Leaves, Copies, Stale

\* A message tells which it is by its first byte.
LEMMA FirstByte ==
  ASSUME Types, NEW m \in 1..Len(written)
  PROVE  /\ Whole(m) \in Seq(Byte) /\ Whole(m) # << >> /\ Whole(m)[1] = << m, 1 >>
         /\ 1 \in DOMAIN Whole(m) /\ Head(Whole(m)) = Whole(m)[1] /\ m # 0
<1>1. PICK w, len : w = Whole(m) /\ len = written[m].len
  OBVIOUS
<1>2. /\ w \in Seq(Byte) /\ Len(w) = len /\ len \in Nat \ {0} /\ m # 0
      /\ \A i \in 1..len : w[i] = << m, i >>
  BY <1>1, WrittenMessage
<1>3. w # << >> /\ 1 \in 1..len /\ 1 \in DOMAIN w /\ Head(w) = w[1]
  BY <1>2
<1> QED BY <1>1, <1>2, <1>3

\* A whole message is delivered as what it is.
LEMMA WholeDelivers ==
  ASSUME Types, restarts' = restarts, NEW s \in Senders, NEW type,
         NEW m \in 1..Len(written), IsMessage(s, type, Whole(m), m),
         Deliver(s, type, Whole(m))
  PROVE  Delivers(m)
<1>1. PICK w : w = Whole(m)
  OBVIOUS
<1>2. w \in Seq(Byte) /\ w[1] = << m, 1 >> /\ m # 0 /\ delivered \in Seq(Delivery)
  <2>1. delivered \in Seq(Delivery)
    BY DEF Types
  <2> QED BY <1>1, <2>1, FirstByte
<1>3. PICK e \in Delivery : Noted(s, type, w, e)
  BY <1>1, <1>2, DeliverNotes
<1>4. swallowed' = swallowed
  BY DEF Deliver
<1>5. e.msg # 0 /\ e.msg \in 1..Len(written) /\ w = Whole(e.msg)
  <2>1. e.msg # 0 /\ e.msg \in 0..Len(written) /\ IsMessage(s, type, w, e.msg)
    BY <1>1, <1>3 DEF Noted
  <2>2. Len(written) \in Nat
    BY DEF Types
  <2> QED BY <2>1, <2>2 DEF IsMessage
<1>6. e.msg = m
  <2>1. Whole(e.msg)[1] = << e.msg, 1 >>
    BY <1>5, FirstByte
  <2>2. << e.msg, 1 >> = << m, 1 >>
    BY <1>2, <1>5, <2>1
  <2> QED BY <2>2
<1>7. delivered' = Append(delivered, e)
  BY <1>3 DEF Noted
<1>8. PICK n : n = Len(delivered) + 1
  OBVIOUS
<1>9. /\ \A x : Places(x)' = IF x = m THEN Places(x) \cup {n} ELSE Places(x)
      /\ \A t : Mixed(t)' = Mixed(t)
      /\ \A x : n \notin Places(x)
      /\ \A i \in 1..Len(delivered) : delivered'[i] = delivered[i]
  BY <1>2, <1>6, <1>7, <1>8, PlacesAppend
<1>10. \A x : /\ IsFiniteSet(Places(x)) /\ Copies(x) \in Nat
              /\ Places(x) \subseteq 1..Len(delivered)
  BY <1>2, PlacesFinite
<1>11. \A x : Copies(x)' = IF x = m THEN Copies(x) + 1 ELSE Copies(x)
  <2>1. Cardinality(Places(m) \cup {n}) = Cardinality(Places(m)) + 1
    BY <1>9, <1>10, FS_AddElement
  <2> QED BY <1>9, <2>1 DEF Copies
<1>12. \A x : Spoilt(x)' <=> Spoilt(x)
  BY <1>2, <1>4, <1>9, <1>10 DEF Spoilt
<1> QED BY <1>6, <1>7, <1>9, <1>11, <1>12 DEF Delivers, Stale

\* The first i frames of a message.
LEMMA BeginningBytes ==
  ASSUME Types, NEW m \in 1..Len(written), NEW i \in 1..(N(m) - 1), NEW d, d = Part(m, 0, At(i))
  PROVE  /\ d \in Seq(Byte) /\ d # << >> /\ Len(d) = At(i)
         /\ At(i) \in Nat /\ At(i) < written[m].len
         /\ Head(d) = << m, 1 >>
<1>1. /\ Whole(m) \in Seq(Byte) /\ Len(Whole(m)) = written[m].len
      /\ \A j \in 1..written[m].len : Whole(m)[j] = << m, j >>
      /\ written[m].len \in Nat \ {0} /\ N(m) \in Nat \ {0}
  BY WrittenMessage
<1>2. PICK w, a : w = Whole(m) /\ a = At(i)
  OBVIOUS
<1>3. a \in Nat /\ a # 0 /\ a < Len(w)
  <2>1. At(1) = max_frame_payload_size /\ max_frame_payload_size \in Nat \ {0}
    <3>1. At(0 + 1) = At(0) + max_frame_payload_size /\ At(0) = 0
      BY Offsets
    <3> QED BY <3>1, FragmentsAssumption
  <2>2. At(1) <= At(i) /\ At(i) <= At(N(m) - 1) /\ At(i) \in Nat /\ At(N(m) - 1) \in Nat
    <3>1. i \in Nat /\ 1 <= i /\ N(m) - 1 \in Nat /\ i <= N(m) - 1
      BY <1>1
    <3> QED BY <3>1, Offsets
  <2>3. At(N(m) - 1) < written[m].len
    BY <1>1, FramesOfMessage DEF N
  <2> QED BY <1>1, <1>2, <2>1, <2>2, <2>3
<1>4. d = SubSeq(w, 1, a)
  BY <1>2 DEF Part
<1>5. w \in Seq(Byte) /\ w[1] = << m, 1 >>
  BY <1>1, <1>2
<1>6. SubSeq(w, 1, a) \in Seq(Byte) /\ Len(SubSeq(w, 1, a)) = a /\ SubSeq(w, 1, a)[1] = w[1]
  BY <1>3, <1>5
<1>7. d \in Seq(Byte) /\ Len(d) = a /\ d[1] = << m, 1 >>
  BY <1>4, <1>5, <1>6
<1>8. d # << >> /\ Head(d) = << m, 1 >>
  BY <1>3, <1>7
<1> QED BY <1>1, <1>2, <1>3, <1>7, <1>8

\* With the next frame behind them they are one more, or the whole message.
LEMMA BeginningGrows ==
  ASSUME Types, NEW m \in 1..Len(written), NEW i \in 1..(N(m) - 1), NEW d, d = Part(m, 0, At(i)),
         NEW f, NEW s, FrameIs(f, s, m, i), NEW c, c = d \o f.data
  PROVE  /\ i < N(m) - 1 => c = Part(m, 0, At(i + 1)) /\ i + 1 \in 1..(N(m) - 1)
         /\ i = N(m) - 1 => c = Whole(m)
<1>1. /\ Whole(m) \in Seq(Byte) /\ Len(Whole(m)) = written[m].len
      /\ written[m].len \in Nat \ {0} /\ N(m) \in Nat \ {0}
  BY WrittenMessage
<1>2. PICK w, a, e : w = Whole(m) /\ a = At(i) /\ e = End(m, i)
  OBVIOUS
<1>3. i \in 0..(N(m) - 1)
  BY <1>1
<1>4. w \in Seq(Byte) /\ a \in Nat /\ e \in Nat /\ a <= e /\ e <= Len(w)
  BY <1>1, <1>2, <1>3, FrameEnds
<1>5. SubSeq(w, 1, a) \o SubSeq(w, a + 1, e) = SubSeq(w, 1, e)
  BY <1>4, PartsJoin
<1>6. d = SubSeq(w, 1, a) /\ f.data = SubSeq(w, a + 1, e)
  BY <1>2 DEF FrameIs, Part
<1>7. c = SubSeq(w, 1, e)
  BY <1>5, <1>6
<1>8. CASE i < N(m) - 1
  <2>1. i + 1 \in 1..(N(m) - 1)
    BY <1>1, <1>8
  <2>2. e = At(i + 1)
    BY <1>2, <1>3, <1>8, FrameEnds
  <2>3. Part(m, 0, e) = SubSeq(w, 1, e)
    BY <1>2 DEF Part
  <2>4. c = Part(m, 0, At(i + 1))
    BY <1>7, <2>2, <2>3, Zenon
  <2>5. i # N(m) - 1
    BY <1>1, <1>8
  <2> QED BY <2>1, <2>4, <2>5, Zenon
<1>9. CASE i = N(m) - 1
  <2>1. e = Len(w)
    BY <1>1, <1>2, <1>9 DEF End
  <2>2. SubSeq(w, 1, Len(w)) = w
    BY <1>4
  <2>3. c = Whole(m)
    BY <1>2, <1>7, <2>1, <2>2, Zenon
  <2>4. ~(i < N(m) - 1)
    BY <1>1, <1>9
  <2> QED BY <2>3, <2>4, Zenon
<1>10. i < N(m) - 1 \/ i = N(m) - 1
  BY <1>1
<1> QED BY <1>8, <1>9, <1>10, Zenon

\* The only frame of a message that is not fragmented.
LEMMA WholeFrame ==
  ASSUME Types, NEW m \in 1..Len(written), N(m) = 1, NEW q \in 0..(N(m) - 1), NEW f, NEW s,
         FrameIs(f, s, m, q)
  PROVE  q = 0 /\ f.type = written[m].type /\ f.data = Whole(m)
<1>1. q = 0
  OBVIOUS
<1>2. f.type = written[m].type /\ f.data = Part(m, At(0), End(m, 0))
  BY <1>1 DEF FrameIs
<1>3. At(0) = 0 /\ End(m, 0) = written[m].len
  BY Offsets DEF End
<1>4. PICK w : w = Whole(m)
  OBVIOUS
<1>5. w \in Seq(Byte) /\ Len(w) = written[m].len
  BY <1>4, WrittenMessage
<1>6. SubSeq(w, 0 + 1, Len(w)) = w
  BY <1>5
<1> QED BY <1>1, <1>2, <1>3, <1>4, <1>5, <1>6 DEF Part

\* The first byte of a frame.
LEMMA FrameStarts ==
  ASSUME Types, NEW m \in 1..Len(written), NEW q \in 0..(N(m) - 1), NEW f, NEW s,
         FrameIs(f, s, m, q)
  PROVE  Head(f.data) = << m, At(q) + 1 >>
<1>1. /\ Whole(m) \in Seq(Byte) /\ Len(Whole(m)) = written[m].len
      /\ \A i \in 1..written[m].len : Whole(m)[i] = << m, i >>
      /\ written[m].len \in Nat
  BY WrittenMessage
<1>2. PICK w, a, e, d : w = Whole(m) /\ a = At(q) /\ e = End(m, q) /\ d = f.data
  OBVIOUS
<1>3. w \in Seq(Byte) /\ a \in Nat /\ e \in Nat /\ a < e /\ e <= Len(w)
  BY <1>1, <1>2, FrameEnds
<1>4. d = SubSeq(w, a + 1, e)
  BY <1>2 DEF FrameIs, Part
<1>5. d # << >> /\ Head(d) = w[a + 1]
  BY <1>3, <1>4
<1>6. a + 1 \in 1..written[m].len
  BY <1>1, <1>2, <1>3
<1> QED BY <1>1, <1>2, <1>5, <1>6

-----------------------------------------------------------------------------
(***************************************************************************)
(* What the actions of the sender preserve, whatever the receiver does.    *)
(***************************************************************************)
SenderInv == Types /\ \A s \in Senders : JobInv(s)

\* The history of the queues is of its type.
Queues == delivered \in Seq(Delivery) /\ swallowed \in SUBSET Nat

\* A message is written.
LEMMA SenderWrite ==
  ASSUME SenderInv, NEW s \in Senders, NEW len \in Lens, NEW type \in MsgTypes,
         Write(s, len, type), Queues'
  PROVE  SenderInv'
<1>1. PICK m : m = Len(written) + 1
  OBVIOUS
<1>2. Types
  BY DEF SenderInv
<1>3. /\ Len(written) \in Nat /\ Len(written)' = m /\ m \in Msg /\ m \in Nat /\ m # 0
      /\ written' \in Seq(Header) /\ Len(written)' <= MaxMsgs
      /\ \A k \in 1..Len(written) : written'[k] = written[k] /\ k \in 1..m /\ k # m
      /\ written'[m].from = s /\ written'[m].id = next_id[s] /\ written'[m].len = len
  BY <1>1, <1>2, WriteAppends
<1>4. /\ next_id' = [ next_id EXCEPT ![s] = (@ + 1) % IdSpace ]
      /\ attempts' = [ attempts EXCEPT ![m] = 1 ]
      /\ outcome' = [ outcome EXCEPT ![m] = "pending" ] \/ outcome' = [ outcome EXCEPT ![m] = "false" ]
      /\ restarts' = restarts
  BY <1>1 DEF Write
<1>5. Types'
  <2>1. IdSpace \in Nat \ {0}
    BY FragmentsAssumption
  <2>2. next_id[s] \in Nat /\ (next_id[s] + 1) % IdSpace \in 0..(IdSpace - 1)
    BY <1>2, <2>1 DEF Types
  <2>3. next_id' \in [ Senders -> 0..(IdSpace - 1) ]
    BY <1>2, <1>4, <2>2 DEF Types
  <2>4. attempts' \in [ Msg -> Nat ] /\ outcome' \in [ Msg -> Results ]
    BY <1>2, <1>3, <1>4 DEF Types, Results
  <2>5. job' \in [ Senders -> Job ]
    BY <1>2, WriteJobs
  <2> QED BY <1>2, <1>3, <1>4, <2>3, <2>4, <2>5 DEF Types, Queues
<1>6. ASSUME NEW t \in Senders PROVE JobInv(t)'
  <2>1. JobInv(t)
    BY DEF SenderInv
  <2>2. CASE t # s
    <3>1. job'[t] = job[t]
      BY <1>2, <2>2, WriteJobs
    <3>2. \A k \in 1..Len(written)' : written'[k].from = t =>
            k \in 1..Len(written) /\ written[k].from = t
      BY <1>1, <1>3, <2>2
    <3>3. \A k \in 1..Len(written) : k \in 1..Len(written)' /\ written'[k] = written[k] /\ N(k)' = N(k)
      BY <1>3 DEF N
    <3> QED BY <2>1, <3>1, <3>2, <3>3 DEF JobInv
  <2>3. CASE t = s
    <3>1. /\ job'[s].msg = m
          /\ \/ /\ len <= MAX_PAYLOAD_SIZE /\ job'[s] = Begin(m, len)
             \/ job'[s].phase = "idle"
      BY <1>1, <1>2, WriteJobs
    <3>2. len \in Nat \ {0}
      BY FragmentsAssumption
    <3>3. FrameCount(len) \in Nat \ {0} /\ N(m)' = FrameCount(len)
      BY <1>3, <3>2, FramesOfMessage DEF N
    <3>4. job'[s].phase = "sending" => /\ job'[s].fragment_id \in 1..N(m)'
                                       /\ job'[s].msgCount = N(m)' - job'[s].fragment_id
      BY <1>3, <3>1, <3>2, <3>3, BeginJob
    <3>5. job'[s].phase # "idle" => len <= MAX_PAYLOAD_SIZE
      BY <3>1
    <3>6. \A k \in 1..Len(written)' : k <= m
      BY <1>3
    <3> QED BY <1>3, <2>3, <3>1, <3>4, <3>5, <3>6 DEF JobInv
  <2> QED BY <2>2, <2>3
<1> QED BY <1>5, <1>6 DEF SenderInv

\* A message that failed is written again.
LEMMA SenderRetry ==
  ASSUME SenderInv, NEW s \in Senders, Retry(s), Queues'
  PROVE  SenderInv'
<1>1. PICK m, len, b : m = job[s].msg /\ len = written[m].len /\ b = Begin(m, len)
  OBVIOUS
<1>2. Types /\ JobInv(s)
  BY DEF SenderInv
<1>3. /\ m # 0 /\ m \in 1..Len(written) /\ written[m].from = s /\ len <= MAX_PAYLOAD_SIZE
      /\ \A k \in 1..Len(written) : written[k].from = s => k <= m
  BY <1>1, <1>2 DEF Retry, JobInv
<1>4. m \in Msg /\ m \in Nat /\ len \in Nat \ {0} /\ N(m) \in Nat \ {0} /\ N(m) = FrameCount(len)
  BY <1>1, <1>2, <1>3, WrittenMessage DEF N
<1>5. /\ b \in Job /\ b.phase = "sending" /\ b.msg = m /\ b.msgCount = 0
      /\ b.fragment_id = FrameCount(len)
  BY <1>1, <1>4, BeginJob
<1>6. /\ job' = [ job EXCEPT ![s] = b ]
      /\ attempts' = [ attempts EXCEPT ![m] = @ + 1 ]
      /\ outcome' = [ outcome EXCEPT ![m] = "pending" ]
      /\ UNCHANGED << next_id, written, restarts >>
  BY <1>1 DEF Retry
<1>7. Types'
  <2>1. attempts' \in [ Msg -> Nat ] /\ outcome' \in [ Msg -> Results ]
    BY <1>2, <1>4, <1>6 DEF Types, Results
  <2>2. job' \in [ Senders -> Job ]
    BY <1>2, <1>5, <1>6 DEF Types
  <2> QED BY <1>2, <1>6, <2>1, <2>2 DEF Types, Queues
<1>8. ASSUME NEW t \in Senders PROVE JobInv(t)'
  <2>1. JobInv(t) /\ \A k : N(k)' = N(k)
    BY <1>6 DEF SenderInv, N
  <2>2. CASE t # s
    <3>1. job'[t] = job[t]
      BY <1>2, <1>6, <2>2 DEF Types
    <3> QED BY <1>6, <2>1, <3>1 DEF JobInv
  <2>3. CASE t = s
    <3>1. job'[t] = b
      BY <1>2, <1>6, <2>3 DEF Types
    <3> QED BY <1>1, <1>3, <1>4, <1>5, <1>6, <2>1, <2>3, <3>1 DEF JobInv
  <2> QED BY <2>2, <2>3
<1> QED BY <1>7, <1>8 DEF SenderInv

\* A frame is sent.
LEMMA SenderSend ==
  ASSUME SenderInv, NEW s \in Senders, NEW o, SendFrame(s, o), Queues'
  PROVE  SenderInv'
<1>1. PICK m, q : m = job[s].msg /\ q = job[s].msgCount
  OBVIOUS
<1>2. Types /\ JobInv(s)
  BY DEF SenderInv
<1>3. /\ JobAfter(s, m, q, o)
      /\ UNCHANGED << next_id, written, attempts, restarts >>
  BY <1>1, <1>2, SendStep
<1>4. Types'
  <2>1. job' \in [ Senders -> Job ]
    BY <1>3 DEF JobAfter
  <2>2. outcome' \in [ Msg -> Results ]
    BY <1>2, <1>3 DEF Types, JobAfter, Results
  <2> QED BY <1>2, <1>3, <2>1, <2>2 DEF Types, Queues
<1>5. ASSUME NEW t \in Senders PROVE JobInv(t)'
  <2>1. JobInv(t) /\ \A k : N(k)' = N(k)
    BY <1>3 DEF SenderInv, N
  <2>2. CASE t # s
    <3>1. job'[t] = job[t]
      BY <1>3, <2>2 DEF JobAfter
    <3> QED BY <1>3, <2>1, <3>1 DEF JobInv
  <2>3. CASE t = s
    BY <1>2, <2>3, JobKept
  <2> QED BY <2>2, <2>3
<1> QED BY <1>4, <1>5 DEF SenderInv

-----------------------------------------------------------------------------
(***************************************************************************)
(* What a receiver has assembled of the messages of one sender, whichever  *)
(* build it is: a record c with the id and the bytes of an unfinished      *)
(* message and the number of frames that are still missing (left); there   *)
(* are no bytes if there is none.  The invariant below says of it that it  *)
(* serves MessageDelivery: one that has nothing to do with the present     *)
(* message cannot be continued by it, because no two messages since a      *)
(* restart have the same id (Epoch), unless the sender has restarted       *)
(* since, and then Stale is positive; one of the present message is its    *)
(* beginning, unmixed (Beginning).                                         *)
(***************************************************************************)
Filled(c) == c.data # << >>

\* Its bytes are of messages of sender s with its id.
BytesInv(s, c) == c.data \in Seq(Byte) /\ (Filled(c) => AllOf(c.data, s, c.id))

\* The same of what is in the queues, each delivery with an id of its own.
DeliveredHeader ==
  \A i \in DOMAIN delivered :
    /\ delivered[i].msg \in 0..Len(written)
    /\ \E id : \A m \in delivered[i].parts : Of(m, delivered[i].from, id)

Basis == SenderInv /\ DeliveredHeader /\ swallowed \subseteq 1..Len(written)

\* The messages of sender s from number k on have the ids of the first p messages since a
\* restart, all different.
Numbered(s, k, p) ==
  /\ next_id[s] = Id(p + 1)
  /\ \A j \in k..Len(written) :
       written[j].from = s => \E r \in 1..p : written[j].id = Id(r)
  /\ \A i, j \in k..Len(written) :
       written[i].from = s /\ written[j].from = s /\ i # j => written[i].id # written[j].id
Epoch(s, k) == \E p \in 0..Len(written) : Numbered(s, k, p)

\* c holds the first i frames of message m, or at least q of them.
Beginning(c, m, i) == c.data = Part(m, 0, At(i)) /\ c.left = N(m) - i
BegunAt(c, m, q)   == \E i \in q..(N(m) - 1) : Beginning(c, m, i)

\* It does no harm to message m of sender s, of whose restarts n may still spoil one.  A
\* message of one frame takes nothing from it.
Harmless(s, m, c, n) ==
  Filled(c) => /\ n >= 1 \/ Epoch(s, MsgOf(c))
               /\ MsgOf(c) = m => N(m) = 1 \/ BegunAt(c, m, 1)

\* What main_write() relies on when the first q frames of message m were acknowledged.
Backed(m, q, c) == q > 0 => Copies(m) > 0 \/ Spoilt(m) \/ BegunAt(c, m, q)

\* A message was not delivered as often as it was written, or cannot be in this call.
Free(m, q, c) == Copies(m) < attempts[m] \/ (q > 0 /\ ~Filled(c))

EpochInv(s) == /\ Epoch(s, Len(written) + 1)
               /\ job[s].msg # 0 => Epoch(s, job[s].msg)

EntryInv(s, c) == Stale(s) >= 0 /\ Harmless(s, job[s].msg, c, Stale(s))

CallInv(s, c) ==
  LET m == job[s].msg
  IN  /\ m # 0 => Copies(m) <= attempts[m]
      /\ job[s].phase = "sending" => /\ outcome[m] = "pending"
                                     /\ Free(m, job[s].msgCount, c)
                                     /\ Backed(m, job[s].msgCount, c)
      /\ job[s].phase = "failed" => outcome[m] = "false"

DeliveryOf(s, c) == EpochInv(s) /\ EntryInv(s, c) /\ CallInv(s, c)

-----------------------------------------------------------------------------
\* What is delivered has one header, if its bytes do.
LEMMA DeliverTraces ==
  ASSUME Types, DeliveredHeader, written' = written,
         NEW from \in Senders, NEW type, NEW data \in Seq(Byte), Deliver(from, type, data),
         NEW id, AllOf(data, from, id)
  PROVE  /\ delivered' \in Seq(Delivery) /\ swallowed' = swallowed
         /\ DeliveredHeader'
<1>1. PICK e \in Delivery : Noted(from, type, data, e)
  BY DeliverNotes
<1>2. delivered' \in Seq(Delivery) /\ swallowed' = swallowed
  BY DeliverNotes
<1>3. e.from = from /\ e.msg \in 0..Len(written) /\ \A m \in e.parts : Of(m, from, id)
  BY <1>1 DEF Noted, AllOf
<1>4. /\ delivered \in Seq(Delivery)
      /\ delivered' = Append(delivered, e)
  BY <1>1 DEF Types, Noted
<1>5. \A i \in DOMAIN delivered' :
        \/ i \in DOMAIN delivered /\ delivered'[i] = delivered[i]
        \/ delivered'[i] = e
  BY <1>4
<1>6. \A m, s, d : Of(m, s, d)' <=> Of(m, s, d)
  BY DEF Of
<1>7. DeliveredHeader'
  <2> SUFFICES ASSUME NEW i \in DOMAIN delivered'
               PROVE  /\ delivered'[i].msg \in 0..Len(written)
                      /\ \E d : \A m \in delivered'[i].parts : Of(m, delivered'[i].from, d)
    BY <1>6 DEF DeliveredHeader
  <2>1. CASE i \in DOMAIN delivered /\ delivered'[i] = delivered[i]
    BY <2>1 DEF DeliveredHeader
  <2>2. CASE delivered'[i] = e
    BY <1>3, <2>2
  <2> QED BY <1>5, <2>1, <2>2
<1> QED BY <1>2, <1>7

\* Nothing is delivered.
LEMMA SameTraces ==
  ASSUME DeliveredHeader, UNCHANGED << written, delivered >>
  PROVE  DeliveredHeader' /\ \A s, c : BytesInv(s, c)' <=> BytesInv(s, c)
<1>1. \A k, t, id : Of(k, t, id)' <=> Of(k, t, id)
  BY DEF Of
<1>2. DeliveredHeader'
  BY <1>1 DEF DeliveredHeader
<1> QED BY <1>1, <1>2 DEF BytesInv, AllOf

\* The initial state of the senders.
LEMMA BasisInit == SenderInit => Basis
<1> SUFFICES ASSUME SenderInit PROVE Basis
  OBVIOUS
<1>1. IdSpace \in Nat \ {0} /\ MaxMsgs \in Nat
  BY FragmentsAssumption
<1>2. 1 % IdSpace \in 0..(IdSpace - 1)
  BY <1>1
<1>3. Idle \in Job /\ Idle.phase = "idle" /\ Idle.msg = 0
  BY DEF Idle, Job
<1>4. next_id \in [ Senders -> 0..(IdSpace - 1) ] /\ job \in [ Senders -> Job ]
  BY <1>2, <1>3 DEF SenderInit
<1>5. /\ written = << >> /\ restarts = << >> /\ delivered = << >> /\ swallowed = {}
      /\ attempts \in [ Msg -> Nat ] /\ outcome \in [ Msg -> Results ]
  BY DEF SenderInit, Results
<1>6. Types
  BY <1>1, <1>4, <1>5 DEF Types
<1>7. \A s \in Senders : JobInv(s)
  BY <1>3 DEF SenderInit, JobInv
<1>8. DeliveredHeader
  BY <1>5 DEF DeliveredHeader
<1> QED BY <1>5, <1>6, <1>7, <1>8 DEF Basis, SenderInv

\* A message is written.
LEMMA BasisWrite ==
  ASSUME Basis, NEW s \in Senders, NEW len \in Lens, NEW type \in MsgTypes,
         Write(s, len, type), Nothing
  PROVE  Basis' /\ \A t, c : BytesInv(t, c) => BytesInv(t, c)'
<1>1. PICK m : m = Len(written) + 1
  OBVIOUS
<1>2. SenderInv /\ Types /\ DeliveredHeader /\ swallowed \subseteq 1..Len(written)
  BY DEF Basis, SenderInv
<1>3. /\ Len(written) \in Nat /\ Len(written)' = m /\ m \in Nat
      /\ \A k \in 1..Len(written) : written'[k] = written[k] /\ k \in 1..m
  BY <1>1, <1>2, WriteAppends
<1>4. UNCHANGED << delivered, swallowed >>
  BY DEF Nothing
<1>5. SenderInv'
  <2>1. Queues'
    BY <1>2, <1>4 DEF Types, Queues
  <2> QED BY <1>2, <2>1, SenderWrite
<1>6. \A k, t, id : Of(k, t, id) => Of(k, t, id)'
  BY <1>3 DEF Of
<1>7. DeliveredHeader'
  <2>1. \A x : x \in 0..Len(written) => x \in 0..Len(written)'
    BY <1>1, <1>3
  <2> QED BY <1>2, <1>4, <1>6, <2>1 DEF DeliveredHeader
<1>8. \A t, c : BytesInv(t, c) => BytesInv(t, c)'
  BY <1>6 DEF BytesInv, AllOf
<1>9. swallowed' \subseteq 1..Len(written)'
  BY <1>2, <1>3, <1>4
<1> QED BY <1>5, <1>7, <1>8, <1>9 DEF Basis

\* A message that failed is written again.
LEMMA BasisRetry ==
  ASSUME Basis, NEW s \in Senders, Retry(s), Forget(job[s].msg)
  PROVE  Basis' /\ \A t, c : BytesInv(t, c)' <=> BytesInv(t, c)
<1>1. UNCHANGED << written, delivered >> /\ swallowed' \subseteq swallowed
  BY DEF Retry, Forget
<1>2. SenderInv /\ Queues' /\ DeliveredHeader /\ swallowed \subseteq 1..Len(written)
  BY <1>1 DEF Basis, SenderInv, Types, Queues
<1>3. SenderInv'
  BY <1>2, SenderRetry
<1> QED BY <1>1, <1>2, <1>3, SameTraces DEF Basis

\* A sender restarts.
LEMMA BasisReboot ==
  ASSUME Basis, NEW s \in Senders, Reboot(s), Nothing
  PROVE  Basis' /\ \A t, c : BytesInv(t, c)' <=> BytesInv(t, c)
<1>1. Types /\ DeliveredHeader /\ swallowed \subseteq 1..Len(written)
  BY DEF Basis, SenderInv
<1>2. /\ restarts' = Append(restarts, s)
      /\ next_id' = [ next_id EXCEPT ![s] = 1 % IdSpace ]
      /\ job' = [ job EXCEPT ![s] = Idle ]
      /\ UNCHANGED << written, attempts, outcome, delivered, swallowed >>
  BY DEF Reboot, Nothing
<1>3. Idle \in Job /\ Idle.phase = "idle" /\ Idle.msg = 0
  BY DEF Idle, Job
<1>4. Types'
  <2>1. IdSpace \in Nat \ {0}
    BY FragmentsAssumption
  <2>2. 1 % IdSpace \in 0..(IdSpace - 1)
    BY <2>1
  <2>3. next_id' \in [ Senders -> 0..(IdSpace - 1) ]
    BY <1>1, <1>2, <2>2 DEF Types
  <2>4. job' \in [ Senders -> Job ] /\ restarts' \in Seq(Senders)
    BY <1>1, <1>2, <1>3 DEF Types
  <2> QED BY <1>1, <1>2, <2>3, <2>4 DEF Types
<1>5. ASSUME NEW t \in Senders PROVE JobInv(t)'
  <2>1. JobInv(t) /\ \A k : N(k)' = N(k)
    BY <1>2 DEF Basis, SenderInv, N
  <2>2. CASE t # s
    <3>1. job'[t] = job[t]
      BY <1>1, <1>2, <2>2 DEF Types
    <3> QED BY <1>2, <2>1, <3>1 DEF JobInv
  <2>3. CASE t = s
    <3>1. job'[t] = Idle
      BY <1>1, <1>2, <2>3 DEF Types
    <3> QED BY <1>3, <3>1 DEF JobInv
  <2> QED BY <2>2, <2>3
<1> QED BY <1>1, <1>2, <1>4, <1>5, SameTraces DEF Basis, SenderInv

\* A frame is sent.
LEMMA BasisSend ==
  ASSUME Basis, NEW s \in Senders, NEW o, SendFrame(s, o),
         delivered' \in Seq(Delivery), swallowed' \subseteq 1..Len(written), DeliveredHeader'
  PROVE  Basis' /\ \A t, c : BytesInv(t, c)' <=> BytesInv(t, c)
<1>1. SenderInv /\ Types /\ written' = written /\ Len(written) \in Nat
  BY DEF Basis, SenderInv, SendFrame, Types
<1>2. Queues'
  BY <1>1 DEF Queues
<1>3. SenderInv'
  BY <1>1, <1>2, SenderSend
<1>4. \A t, c : BytesInv(t, c)' <=> BytesInv(t, c)
  BY <1>1 DEF BytesInv, AllOf, Of
<1> QED BY <1>1, <1>3, <1>4 DEF Basis

\* Nothing happens.
LEMMA BasisStays ==
  ASSUME Basis, UNCHANGED << senderVars, delivered, swallowed >>
  PROVE  Basis' /\ \A t, c : BytesInv(t, c)' <=> BytesInv(t, c)
<1>1. /\ Types /\ \A s \in Senders : JobInv(s)
      /\ DeliveredHeader /\ swallowed \subseteq 1..Len(written)
  BY DEF Basis, SenderInv
<1>2. UNCHANGED << next_id, job, written, attempts, outcome, restarts, delivered, swallowed >>
  BY DEF senderVars
<1>3. Types' /\ \A s \in Senders : JobInv(s)'
  BY <1>1, <1>2 DEF Types, JobInv, N
<1> QED BY <1>1, <1>2, <1>3, SameTraces DEF Basis, SenderInv

\* Epochs while nothing is written.
LEMMA EpochKept ==
  ASSUME written' = written, NEW s, next_id'[s] = next_id[s]
  PROVE  /\ \A k : Epoch(s, k)' <=> Epoch(s, k)
         /\ Epoch(s, Len(written) + 1)' <=> Epoch(s, Len(written) + 1)
<1>1. \A k, p : Numbered(s, k, p)' <=> Numbered(s, k, p)
  BY DEF Numbered
<1>2. \A p : Numbered(s, Len(written) + 1, p)' <=> Numbered(s, Len(written) + 1, p)
  BY DEF Numbered
<1> QED BY <1>1, <1>2 DEF Epoch

\* A message that is written gets an id no message of the epoch has.
LEMMA EpochWrite ==
  ASSUME Types, MaxMsgs <= IdSpace, NEW s \in Senders, NEW len \in Lens,
         NEW type \in MsgTypes, Write(s, len, type),
         NEW t \in Senders, NEW k \in 1..(Len(written) + 1), Epoch(t, k)
  PROVE  Epoch(t, k)'
<1>1. PICK l, m : l = Len(written) /\ m = l + 1
  OBVIOUS
<1>2. Types /\ IdSpace \in Nat \ {0} /\ MaxMsgs \in Nat
  BY FragmentsAssumption
<1>3. /\ l \in Nat /\ Len(written)' = m /\ m <= MaxMsgs
      /\ \A j \in 1..l : written'[j] = written[j]
      /\ written'[m].from = s /\ written'[m].id = next_id[s]
  BY <1>1, <1>2, WriteAppends
<1>4. next_id' = [ next_id EXCEPT ![s] = (@ + 1) % IdSpace ] /\ next_id \in [ Senders -> 0..(IdSpace - 1) ]
  BY <1>2 DEF Write, Types
<1>5. PICK p \in 0..l : Numbered(t, k, p)
  BY <1>1 DEF Epoch
<1>6. /\ next_id[t] = Id(p + 1)
      /\ \A j \in k..l : written[j].from = t => \E r \in 1..p : written[j].id = Id(r)
      /\ \A i, j \in k..l :
           written[i].from = t /\ written[j].from = t /\ i # j => written[i].id # written[j].id
  BY <1>1, <1>5 DEF Numbered
<1>7. \A j \in k..m : (j \in k..l /\ j \in 1..l /\ written'[j] = written[j]) \/ j = m
  BY <1>1, <1>3
<1>8. CASE t # s
  <2>1. next_id'[t] = next_id[t]
    BY <1>4, <1>8
  <2>2. Numbered(t, k, p)'
    BY <1>3, <1>6, <1>7, <1>8, <2>1 DEF Numbered
  <2>3. p \in 0..m
    BY <1>1, <1>3, <1>5
  <2> QED BY <1>3, <2>2, <2>3 DEF Epoch
<1>9. CASE t = s
  <2>1. next_id'[s] = Id((p + 1) + 1)
    <3>1. p + 1 \in Nat
      BY <1>3, <1>5
    <3>2. (Id(p + 1) + 1) % IdSpace = Id((p + 1) + 1)
      BY <3>1, Ids
    <3> QED BY <1>4, <1>6, <1>9, <3>2
  <2>2. p + 1 \in 0..m /\ p + 1 \in 1..IdSpace /\ p + 1 \in 1..(p + 1)
    BY <1>1, <1>2, <1>3, <1>5
  <2>3. \A r \in 1..p : r \in 1..(p + 1) /\ Id(r) # Id(p + 1)
    <3>1. \A r \in 1..p : r \in 1..IdSpace /\ r # p + 1 /\ r \in 1..(p + 1)
      BY <1>1, <1>2, <1>3, <1>5
    <3> QED BY <2>2, <3>1, Ids
  <2>4. written'[m].id = Id(p + 1)
    BY <1>3, <1>6, <1>9
  <2>5. \A j \in k..m : written'[j].from = s => \E r \in 1..(p + 1) : written'[j].id = Id(r)
    BY <1>6, <1>7, <1>9, <2>2, <2>3, <2>4
  <2>6. \A j \in k..l : written'[j].from = s => written'[j].id # written'[m].id
    BY <1>1, <1>3, <1>6, <1>7, <1>9, <2>3, <2>4
  <2>7. \A i, j \in k..m :
           written'[i].from = s /\ written'[j].from = s /\ i # j => written'[i].id # written'[j].id
    BY <1>6, <1>7, <1>9, <2>6
  <2>8. Numbered(s, k, p + 1)'
    BY <1>3, <2>1, <2>5, <2>7 DEF Numbered
  <2> QED BY <1>3, <1>9, <2>2, <2>8 DEF Epoch
<1> QED BY <1>8, <1>9

\* Stale is a number.
LEMMA StaleInt ==
  ASSUME Types
  PROVE  \A s : Stale(s) \in Int /\ Cardinality({ i \in DOMAIN restarts : restarts[i] = s }) \in Nat
<1> TAKE s
<1>1. Cardinality({ i \in DOMAIN restarts : restarts[i] = s }) \in Nat
  BY RestartsFinite
<1>2. Cardinality(Mixed(s)) \in Nat
  BY PlacesFinite DEF Types
<1> QED BY <1>1, <1>2 DEF Stale

\* Where nothing is delivered, nothing changes there.
LEMMA SameQueues ==
  ASSUME UNCHANGED delivered
  PROVE  /\ \A x : Places(x)' = Places(x) /\ Copies(x)' = Copies(x)
         /\ \A t : Mixed(t)' = Mixed(t)
         /\ restarts' = restarts => \A t : Stale(t)' = Stale(t)
         /\ \A x : (x \in swallowed' <=> x \in swallowed) => (Spoilt(x)' <=> Spoilt(x))
<1>1. \A x : Places(x)' = Places(x)
  BY DEF Places
<1>2. \A t : Mixed(t)' = Mixed(t)
  BY <1>1 DEF Mixed
<1> QED BY <1>1, <1>2 DEF Copies, Stale, Spoilt

\* A restart counts.
LEMMA RestartStale ==
  ASSUME Types, NEW s \in Senders, restarts' = Append(restarts, s),
         \A t : Mixed(t)' = Mixed(t)
  PROVE  Stale(s)' = Stale(s) + 1 /\ \A t \in Senders \ {s} : Stale(t)' = Stale(t)
<1>1. PICK n, l : n = Len(restarts) + 1 /\ l = Len(restarts)
  OBVIOUS
<1>2. restarts \in Seq(Senders)
  BY DEF Types
<1>3. /\ l \in Nat /\ n = l + 1 /\ DOMAIN restarts = 1..l /\ DOMAIN restarts' = 1..n
      /\ \A i \in 1..l : restarts'[i] = restarts[i]
      /\ restarts'[n] = s
  BY <1>1, <1>2
<1>4. 1..n = (1..l) \cup {n} /\ n \notin 1..l
  BY <1>3
<1>5. \A t : { i \in DOMAIN restarts : restarts[i] = t }' =
               { i \in DOMAIN restarts : restarts[i] = t } \cup (IF t = s THEN {n} ELSE {})
  BY <1>3, <1>4
<1>6. PICK R : R = { i \in DOMAIN restarts : restarts[i] = s }
  OBVIOUS
<1>7. IsFiniteSet(R) /\ n \notin R
  <2>1. IsFiniteSet(R) /\ R \subseteq 1..l
    BY <1>1, <1>6, RestartsFinite
  <2> QED BY <1>4, <2>1
<1>8. Cardinality(R \cup {n}) = Cardinality(R) + 1 /\ Cardinality(R) \in Nat
  BY <1>7, FS_AddElement, FS_CardinalityType
<1>9. Stale(s)' = Stale(s) + 1
  <2>1. Stale(s) = Cardinality(R) - Cardinality(Mixed(s))
    BY <1>6 DEF Stale
  <2>2. { i \in DOMAIN restarts : restarts[i] = s }' = R \cup {n}
    BY <1>5, <1>6
  <2>3. Stale(s)' = Cardinality(R \cup {n}) - Cardinality(Mixed(s))
    BY <2>2 DEF Stale
  <2>4. Cardinality(Mixed(s)) \in Nat
    BY PlacesFinite DEF Types
  <2> QED BY <1>8, <2>1, <2>3, <2>4
<1>10. ASSUME NEW t \in Senders \ {s} PROVE Stale(t)' = Stale(t)
  <2>1. { i \in DOMAIN restarts : restarts[i] = t }' = { i \in DOMAIN restarts : restarts[i] = t }
    BY <1>5, <1>10
  <2> QED BY <2>1 DEF Stale
<1> QED BY <1>9, <1>10

\* A message that was not written yet has left no trace.
LEMMA NewMessage ==
  ASSUME Basis, NEW m, m = Len(written) + 1
  PROVE  Copies(m) = 0 /\ ~Spoilt(m) /\ Places(m) = {}
<1>1. Len(written) \in Nat /\ DeliveredHeader /\ swallowed \subseteq 1..Len(written)
  BY DEF Basis, SenderInv, Types
<1>2. m \notin 0..Len(written) /\ m \notin 1..Len(written)
  BY <1>1
<1>3. Places(m) = {}
  BY <1>1, <1>2 DEF Places, DeliveredHeader
<1>4. ~Spoilt(m)
  <2>1. \A i \in Places(0) : m \notin delivered[i].parts
    BY <1>1, <1>2 DEF Places, DeliveredHeader, Of
  <2> QED BY <1>1, <1>2, <2>1 DEF Spoilt
<1> QED BY <1>3, <1>4, FS_EmptySet DEF Copies

\* The frames of a message stay what they are.
LEMMA SameMessage ==
  ASSUME NEW m, written'[m] = written[m]
  PROVE  /\ N(m)' = N(m) /\ Whole(m)' = Whole(m)
         /\ \A c, q : BegunAt(c, m, q)' <=> BegunAt(c, m, q)
<1>1. N(m)' = N(m) /\ Whole(m)' = Whole(m)
  BY DEF N, Whole
<1>2. \A c, i : Beginning(c, m, i)' <=> Beginning(c, m, i)
  BY <1>1 DEF Beginning, Part
<1> QED BY <1>1, <1>2 DEF BegunAt

\* Bytes that are no message are delivered as a mixture.
LEMMA OthersMix ==
  ASSUME Types, restarts' = restarts, written' = written, NEW s \in Senders, NEW type,
         NEW data \in Seq(Byte), NEW id, AllOf(data, s, id),
         \A k \in 1..Len(written) : ~IsMessage(s, type, data, k),
         NEW m, \E i \in DOMAIN data : data[i][1] = m,
         Deliver(s, type, data)
  PROVE  Mixes(s, m)
<1>1. PICK e \in Delivery : Noted(s, type, data, e)
  BY DeliverNotes
<1>2. swallowed' = swallowed /\ delivered \in Seq(Delivery)
  BY DEF Deliver, Types
<1>3. /\ delivered' = Append(delivered, e) /\ e.msg = 0 /\ e.from = s /\ m \in e.parts
      /\ \A x \in e.parts : Of(x, s, id)
  BY <1>1 DEF Noted, AllOf
<1>4. PICK n : n = Len(delivered) + 1
  OBVIOUS
<1>5. /\ \A x : Places(x)' = IF x = 0 THEN Places(x) \cup {n} ELSE Places(x)
      /\ \A t : Mixed(t)' = IF t = s THEN Mixed(t) \cup {n} ELSE Mixed(t)
      /\ \A t : n \notin Mixed(t)
      /\ delivered'[n] = e
      /\ \A i \in 1..Len(delivered) : delivered'[i] = delivered[i]
  BY <1>2, <1>3, <1>4, PlacesAppend, SMTT(30)
<1>6. /\ \A t : IsFiniteSet(Mixed(t)) /\ Cardinality(Mixed(t)) \in Nat
      /\ \A x : Places(x) \subseteq 1..Len(delivered)
  BY <1>2, PlacesFinite
<1>7. \A x : x # 0 => Copies(x)' = Copies(x)
  BY <1>5 DEF Copies
<1>8. Stale(s)' = Stale(s) - 1
  <2>1. Cardinality(Mixed(s) \cup {n}) = Cardinality(Mixed(s)) + 1
    BY <1>5, <1>6, FS_AddElement
  <2>2. PICK r : r = Cardinality({ i \in DOMAIN restarts : restarts[i] = s })
    OBVIOUS
  <2>3. r \in Nat
    BY <2>2, RestartsFinite
  <2>4. Stale(s) = r - Cardinality(Mixed(s)) /\ Stale(s)' = r - Cardinality(Mixed(s)')
    BY <2>2 DEF Stale
  <2>5. Mixed(s)' = Mixed(s) \cup {n}
    BY <1>5
  <2> QED BY <1>6, <2>1, <2>3, <2>4, <2>5
<1>9. \A t \in Senders \ {s} : Stale(t)' = Stale(t)
  BY <1>5 DEF Stale
<1>10. \A x : Spoilt(x)' <=> Spoilt(x) \/ x \in e.parts
  <2>1. Places(0)' = Places(0) \cup {n}
    BY <1>5
  <2>2. \A i \in Places(0) : delivered'[i] = delivered[i]
    BY <1>5, <1>6
  <2>3. \A x : (\E i \in Places(0)' : x \in delivered'[i].parts)
                 <=> (\E i \in Places(0) : x \in delivered[i].parts) \/ x \in e.parts
    BY <1>5, <2>1, <2>2
  <2> QED BY <1>2, <2>3 DEF Spoilt
<1>11. \A x \in 1..Len(written) : written[x].from # s => (Spoilt(x)' <=> Spoilt(x))
  BY <1>3, <1>10 DEF Of
<1> QED BY <1>3, <1>7, <1>8, <1>9, <1>10, <1>11 DEF Mixes

\* What is delivered is at the end of the inbox.
LEMMA InboxGrows ==
  ASSUME delivered \in Seq(Delivery), NEW e \in Delivery, delivered' = Append(delivered, e)
  PROVE  inbox' = Append(inbox, e.msg)
<1>1. PICK n, l, v : n = Len(delivered) + 1 /\ l = Len(delivered) /\ v = e.msg
  OBVIOUS
<1>2. /\ l \in Nat /\ n = l + 1 /\ DOMAIN delivered = 1..l /\ DOMAIN delivered' = 1..n
      /\ \A i \in 1..l : delivered'[i] = delivered[i] /\ delivered[i].msg \in Nat
      /\ delivered'[n] = e
  <2>1. \A x \in Delivery : x.msg \in Nat
    BY DEF Delivery
  <2> QED BY <1>1, <2>1
<1>3. PICK a, b : a = inbox /\ b = inbox'
  OBVIOUS
<1>4. a = [ i \in 1..l |-> delivered[i].msg ] /\ b = [ i \in 1..n |-> delivered'[i].msg ]
  BY <1>2, <1>3 DEF inbox
<1>5. a \in Seq(Nat) /\ Len(a) = l /\ \A i \in 1..l : a[i] = delivered[i].msg
  BY <1>2, <1>4
<1>6. v \in Nat
  BY <1>1 DEF Delivery
<1>7. PICK x : x = Append(a, v)
  OBVIOUS
<1>8. x \in Seq(Nat) /\ Len(x) = n /\ \A i \in 1..n : x[i] = IF i = n THEN v ELSE a[i]
  BY <1>2, <1>5, <1>6, <1>7
<1>9. b \in Seq(Nat) /\ Len(b) = n /\ \A i \in 1..n : b[i] = x[i]
  <2>1. \A i \in 1..n : i = n \/ i \in 1..l
    BY <1>2
  <2>2. \A i \in 1..n : b[i] = x[i] /\ delivered'[i].msg \in Nat
    BY <1>1, <1>2, <1>4, <1>5, <1>6, <1>8, <2>1
  <2> QED BY <1>2, <1>4, <2>2
<1>10. x = b
  BY <1>8, <1>9
<1> QED BY <1>1, <1>3, <1>7, <1>10

-----------------------------------------------------------------------------
\* The beginning of a message.
LEMMA BeginningFrame ==
  ASSUME Types, NEW m \in 1..Len(written), NEW i \in 1..(N(m) - 1), NEW c, Beginning(c, m, i)
  PROVE  /\ c.data \in Seq(Byte) /\ Filled(c) /\ Len(c.data) = At(i)
         /\ At(i) \in Nat /\ At(i) < written[m].len
         /\ MsgOf(c) = m
<1>1. PICK d : d = c.data
  OBVIOUS
<1>2. d = Part(m, 0, At(i))
  BY <1>1 DEF Beginning
<1> QED BY <1>1, <1>2, BeginningBytes DEF MsgOf, Filled

\* The message it began with is one of its sender, with its id.
LEMMA HeldMessage ==
  ASSUME NEW s, NEW c, BytesInv(s, c), Filled(c), NEW k, k = MsgOf(c)
  PROVE  Of(k, s, c.id)
<1>1. PICK d : d = c.data
  OBVIOUS
<1>2. d \in Seq(Byte) /\ d # << >> /\ AllOf(d, s, c.id)
  BY <1>1 DEF BytesInv, Filled
<1>3. 1 \in DOMAIN d /\ Head(d) = d[1]
  BY <1>2
<1> QED BY <1>1, <1>2, <1>3 DEF AllOf, MsgOf

\* It is not after the present one.
LEMMA BegunWith ==
  ASSUME Basis, NEW s \in Senders, job[s].msg # 0, NEW c, BytesInv(s, c), Filled(c),
         NEW k, k = MsgOf(c)
  PROVE  /\ k \in 1..job[s].msg /\ job[s].msg \in 1..Len(written)
         /\ written[k].from = s /\ written[k].id = c.id
<1>1. Types /\ JobInv(s)
  BY DEF Basis, SenderInv
<1>2. k \in 1..Len(written) /\ written[k].from = s /\ written[k].id = c.id
  BY HeldMessage DEF Of
<1>3. job[s].msg \in 1..Len(written) /\ k <= job[s].msg
  BY <1>1, <1>2 DEF JobInv
<1>4. Len(written) \in Nat
  BY <1>1 DEF Types
<1> QED BY <1>2, <1>3, <1>4

\* If it is another message with the id of the present one, the sender has restarted.
LEMMA OtherMessage ==
  ASSUME Basis, NEW s \in Senders, job[s].msg # 0, NEW c, BytesInv(s, c), EntryInv(s, c),
         Filled(c), c.id = written[job[s].msg].id, MsgOf(c) # job[s].msg
  PROVE  Stale(s) >= 1
<1>1. PICK k, m : k = MsgOf(c) /\ m = job[s].msg
  OBVIOUS
<1>2. (Stale(s) >= 1 \/ Epoch(s, k)) /\ JobInv(s) /\ Types
  BY <1>1 DEF Basis, SenderInv, EntryInv, Harmless
<1>3. /\ k \in 1..m /\ m \in 1..Len(written) /\ k # m
      /\ written[k].from = s /\ written[k].id = written[m].id
  BY <1>1, BegunWith
<1>4. written[m].from = s
  BY <1>1, <1>2 DEF JobInv
<1>5. Len(written) \in Nat
  BY <1>2 DEF Types
<1>6. k \in k..Len(written) /\ m \in k..Len(written)
  BY <1>3, <1>5
<1>7. ~Epoch(s, k)
  BY <1>3, <1>4, <1>6 DEF Epoch, Numbered
<1> QED BY <1>2, <1>7

-----------------------------------------------------------------------------
(***************************************************************************)
(* What enqueue() may do with f, frame q of the present message m of       *)
(* sender s, when c is what is assembled.                                  *)
(***************************************************************************)
Sends(s, m, q, f) ==
  /\ s \in Senders /\ m = job[s].msg /\ q = job[s].msgCount /\ job[s].phase = "sending"
  /\ m \in 1..Len(written) /\ q \in 0..(N(m) - 1) /\ N(m) \in Nat \ {0}
  /\ FrameIs(f, s, m, q) /\ written[m].from = s /\ written[m].len <= MAX_PAYLOAD_SIZE
  /\ UNCHANGED << written, next_id, attempts, restarts >>

Comes(s, m, q, f, c) == Sends(s, m, q, f) /\ Basis /\ BytesInv(s, c) /\ DeliveryOf(s, c)

\* It leaves d.
Handled(s, m, q, d) ==
  /\ Harmless(s, m, d, Stale(s)')
  /\ \/ Delivers(m) /\ Copies(m) < attempts[m]
     \/ Mixes(s, m) /\ Stale(s) >= 1
     \/ Spoils(m)
     \/ Leaves
  /\ Copies(m)' <= attempts[m]
  /\ Copies(m)' < attempts[m] \/ N(m) = 1 \/ (q > 0 /\ ~Filled(d))
  /\ Copies(m)' > 0 \/ Spoilt(m)' \/ (q < N(m) - 1 /\ BegunAt(d, m, q + 1))

\* The invariant, for the message that is sent.
LEMMA SendsInv ==
  ASSUME NEW s, NEW m, NEW q, NEW f, NEW c, Comes(s, m, q, f, c)
  PROVE  /\ Types /\ s \in Senders /\ m \in 1..Len(written) /\ q \in 0..(N(m) - 1) /\ N(m) \in Nat \ {0}
         /\ FrameIs(f, s, m, q) /\ written[m].from = s /\ written[m].len <= MAX_PAYLOAD_SIZE
         /\ m = job[s].msg /\ m # 0 /\ m \in Nat /\ q \in Nat /\ m \in Msg
         /\ written' = written /\ restarts' = restarts
         /\ Copies(m) \in Nat /\ attempts[m] \in Nat /\ Copies(m) <= attempts[m]
         /\ Free(m, q, c) /\ Backed(m, q, c)
         /\ Harmless(s, m, c, Stale(s)) /\ Epoch(s, m) /\ Stale(s) >= 0
         /\ MsgOf(f) = m /\ f.from = s /\ f.id = written[m].id
         /\ f.data \in Seq(Byte) /\ Filled(f) /\ \A i \in DOMAIN f.data : f.data[i][1] = m
<1>1. /\ Types /\ EpochInv(s) /\ EntryInv(s, c) /\ CallInv(s, c)
      /\ s \in Senders /\ m \in 1..Len(written) /\ q \in 0..(N(m) - 1) /\ N(m) \in Nat \ {0}
      /\ FrameIs(f, s, m, q) /\ written[m].from = s /\ written[m].len <= MAX_PAYLOAD_SIZE
      /\ m = job[s].msg /\ q = job[s].msgCount /\ job[s].phase = "sending"
      /\ written' = written /\ restarts' = restarts
  BY DEF Comes, Sends, Basis, SenderInv, DeliveryOf
<1>2. m # 0 /\ m \in Nat /\ q \in Nat /\ m \in Msg
  BY <1>1, WrittenMessage
<1>3. Copies(m) \in Nat /\ attempts[m] \in Nat
  BY <1>1, <1>2, PlacesFinite DEF Types
<1>4. /\ Copies(m) <= attempts[m] /\ Free(m, q, c) /\ Backed(m, q, c) /\ Epoch(s, m)
  BY <1>1, <1>2 DEF CallInv, EpochInv
<1>5. Harmless(s, m, c, Stale(s)) /\ Stale(s) >= 0
  BY <1>1 DEF EntryInv
<1>6. /\ MsgOf(f) = m /\ f.from = s /\ f.id = written[m].id
      /\ f.data \in Seq(Byte) /\ Filled(f) /\ \A i \in DOMAIN f.data : f.data[i][1] = m
  BY <1>1, FrameBytes DEF FrameIs, Filled
<1> QED BY <1>1, <1>2, <1>3, <1>4, <1>5, <1>6

\* A whole message is delivered, or thrown away.
LEMMA WholeHandled ==
  ASSUME NEW s, NEW m, NEW q, NEW f, NEW c, Comes(s, m, q, f, c), N(m) = 1,
         Deliver(s, f.type, f.data) \/ Swallow(f),
         NEW d, d = c \/ (Filled(d) => MsgOf(d) = m)
  PROVE  Handled(s, m, q, d)
<1>1. /\ Types /\ Copies(m) \in Nat /\ attempts[m] \in Nat /\ Free(m, q, c) /\ f.from = s
      /\ Harmless(s, m, c, Stale(s)) /\ Epoch(s, m) /\ s \in Senders /\ MsgOf(f) = m
      /\ m \in 1..Len(written) /\ q \in 0..(N(m) - 1) /\ FrameIs(f, s, m, q)
      /\ written[m].from = s /\ restarts' = restarts
  BY SendsInv
<1>2. q = 0 /\ f.type = written[m].type /\ f.data = Whole(m)
  BY <1>1, WholeFrame
<1>3. Copies(m) < attempts[m]
  BY <1>1, <1>2 DEF Free
<1>4. Stale(s)' = Stale(s) => Harmless(s, m, d, Stale(s)')
  BY <1>1 DEF Harmless
<1>5. CASE Deliver(s, f.type, f.data)
  <2>1. IsMessage(s, f.type, Whole(m), m)
    BY <1>1, <1>2 DEF IsMessage
  <2>2. Delivers(m)
    BY <1>1, <1>2, <1>5, <2>1, WholeDelivers
  <2>3. Copies(m)' = Copies(m) + 1 /\ Stale(s)' = Stale(s)
    BY <1>1, <2>2 DEF Delivers
  <2>4. Copies(m)' <= attempts[m] /\ Copies(m)' > 0
    BY <1>1, <1>3, <2>3
  <2> QED BY <1>3, <1>4, <2>2, <2>3, <2>4 DEF Handled
<1>6. CASE Swallow(f)
  <2>1. Spoils(m)
    BY <1>1, <1>6, SwallowSpoils
  <2>2. Copies(m)' = Copies(m) /\ Stale(s)' = Stale(s) /\ Spoilt(m)'
    BY <1>1, <2>1 DEF Spoils
  <2> QED BY <1>1, <1>3, <1>4, <2>1, <2>2 DEF Handled
<1> QED BY <1>5, <1>6

\* A fragment has one of the three types.
LEMMA FragmentKinds ==
  ASSUME NEW s, NEW m, NEW q, NEW f, NEW c, Comes(s, m, q, f, c), f.type \in FragmentTypes
  PROVE  /\ N(m) # 1
         /\ f.type = NETWORK_FIRST_FRAGMENT <=> q = 0
         /\ f.type = NETWORK_LAST_FRAGMENT <=> q = N(m) - 1
         /\ f.reserved = IF q = N(m) - 1 THEN written[m].type ELSE N(m) - q
<1>1. /\ Types /\ m \in 1..Len(written) /\ q \in 0..(N(m) - 1) /\ FrameIs(f, s, m, q)
      /\ N(m) \in Nat \ {0}
  BY SendsInv
<1>2. N(m) # 1
  BY <1>1, FragmentReserved
<1>3. CASE q = N(m) - 1
  BY <1>1, <1>2, <1>3 DEF FrameIs, NETWORK_FIRST_FRAGMENT, NETWORK_LAST_FRAGMENT
<1>4. CASE q # N(m) - 1
  BY <1>1, <1>2, <1>4 DEF FrameIs, NETWORK_FIRST_FRAGMENT, NETWORK_MORE_FRAGMENTS, NETWORK_LAST_FRAGMENT
<1> QED BY <1>2, <1>3, <1>4

\* The first fragment of a message begins an assembly.
LEMMA FirstHandled ==
  ASSUME NEW s, NEW m, NEW q, NEW f, NEW c, Comes(s, m, q, f, c),
         f.type = NETWORK_FIRST_FRAGMENT, Nothing,
         NEW d, d.data = f.data, d.left = f.reserved - 1
  PROVE  Handled(s, m, q, d)
<1>1. /\ Types /\ Copies(m) \in Nat /\ attempts[m] \in Nat
      /\ Free(m, q, c) /\ Epoch(s, m) /\ s \in Senders
      /\ m \in 1..Len(written) /\ q \in 0..(N(m) - 1) /\ FrameIs(f, s, m, q)
      /\ N(m) \in Nat \ {0} /\ restarts' = restarts
  BY SendsInv
<1>2. f.type \in FragmentTypes
  BY DEF FragmentTypes
<1>3. N(m) # 1 /\ q = 0 /\ f.reserved = N(m)
  BY <1>1, <1>2, FragmentKinds
<1>4. f.data = Part(m, At(0), End(m, 0))
  BY <1>1, <1>3 DEF FrameIs
<1>5. At(0) = 0 /\ End(m, 0) = At(1)
  BY <1>1, <1>3, Offsets DEF End
<1>6. 1 \in 1..(N(m) - 1)
  BY <1>1, <1>3
<1>7. Beginning(d, m, 1)
  BY <1>3, <1>4, <1>5 DEF Beginning
<1>8. BegunAt(d, m, 1) /\ MsgOf(d) = m
  BY <1>1, <1>6, <1>7, BeginningFrame DEF BegunAt
<1>9. Leaves
  BY <1>1, NothingLeaves
<1>10. Copies(m)' = Copies(m) /\ Copies(m) < attempts[m]
  BY <1>1, <1>3, <1>9 DEF Leaves, Free
<1>11. Harmless(s, m, d, Stale(s)')
  BY <1>1, <1>8 DEF Harmless
<1>12. q < N(m) - 1 /\ q + 1 = 1
  BY <1>1, <1>3
<1> QED BY <1>1, <1>8, <1>9, <1>10, <1>11, <1>12 DEF Handled

\* A fragment continues an assembly with its id if its count is the next one.
Continues(c, f) == /\ Filled(c) /\ c.id = f.id
                   /\ c.left = IF f.type = NETWORK_LAST_FRAGMENT THEN 1 ELSE f.reserved

\* Of the later frames of a message just the next one continues a beginning of it.
LEMMA NextContinues ==
  ASSUME NEW s, NEW m, NEW q, NEW f, NEW c, Comes(s, m, q, f, c),
         f.type \in FragmentTypes, f.type # NETWORK_FIRST_FRAGMENT,
         NEW i \in 1..(N(m) - 1), Beginning(c, m, i)
  PROVE  /\ q \in 1..(N(m) - 1) /\ c.id = f.id
         /\ Continues(c, f) <=> i = q
<1>1. /\ Types /\ m \in 1..Len(written) /\ q \in 0..(N(m) - 1)
      /\ N(m) \in Nat \ {0} /\ s \in Senders /\ m = job[s].msg /\ m # 0 /\ f.id = written[m].id
  BY SendsInv
<1>2. /\ q # 0
      /\ f.type = NETWORK_LAST_FRAGMENT <=> q = N(m) - 1
      /\ q # N(m) - 1 => f.reserved = N(m) - q
  BY FragmentKinds
<1>3. Filled(c) /\ MsgOf(c) = m
  BY <1>1, BeginningFrame
<1>4. Basis /\ BytesInv(s, c)
  BY DEF Comes
<1>5. c.id = f.id
  BY <1>1, <1>3, <1>4, BegunWith
<1>6. c.left = N(m) - i
  BY DEF Beginning
<1>7. (c.left = IF f.type = NETWORK_LAST_FRAGMENT THEN 1 ELSE f.reserved) <=> i = q
  <2>1. CASE q = N(m) - 1
    BY <1>1, <1>2, <1>6, <2>1
  <2>2. CASE q # N(m) - 1
    BY <1>1, <1>2, <1>6, <2>2
  <2> QED BY <2>1, <2>2
<1>8. q \in 1..(N(m) - 1)
  BY <1>1, <1>2
<1> QED BY <1>3, <1>5, <1>7, <1>8 DEF Continues

\* An assembly that is continued: it is of the same message and this is the next frame, or
\* it is of another and the sender has restarted.
LEMMA TakesFragment ==
  ASSUME NEW s, NEW m, NEW q, NEW f, NEW c, Comes(s, m, q, f, c),
         f.type \in FragmentTypes, f.type # NETWORK_FIRST_FRAGMENT, Continues(c, f)
  PROVE  /\ q \in 1..(N(m) - 1)
         /\ Copies(m) < attempts[m]
         /\ \/ MsgOf(c) = m /\ Beginning(c, m, q)
            \/ /\ MsgOf(c) # m /\ Stale(s) >= 1
               /\ Copies(m) > 0 \/ Spoilt(m)
<1>1. /\ Types /\ Copies(m) \in Nat /\ attempts[m] \in Nat
      /\ Free(m, q, c) /\ Backed(m, q, c) /\ f.id = written[m].id
      /\ Harmless(s, m, c, Stale(s)) /\ s \in Senders /\ m # 0 /\ m = job[s].msg
      /\ m \in 1..Len(written) /\ q \in 0..(N(m) - 1) /\ N(m) \in Nat \ {0}
  BY SendsInv
<1>2. Filled(c) /\ c.id = f.id
  BY DEF Continues
<1>3. N(m) # 1 /\ q # 0
  BY FragmentKinds
<1>4. q \in 1..(N(m) - 1)
  BY <1>1, <1>3
<1>5. Copies(m) < attempts[m]
  BY <1>1, <1>2 DEF Free
<1>6. CASE MsgOf(c) = m
  <2>1. PICK i \in 1..(N(m) - 1) : Beginning(c, m, i)
    BY <1>1, <1>2, <1>3, <1>6 DEF Harmless, BegunAt
  <2>2. i = q
    BY <2>1, NextContinues
  <2> QED BY <1>4, <1>5, <1>6, <2>1, <2>2
<1>7. CASE MsgOf(c) # m
  <2>1. Stale(s) >= 1
    <3>1. Basis /\ BytesInv(s, c) /\ EntryInv(s, c)
      BY DEF Comes, DeliveryOf
    <3> QED BY <1>1, <1>2, <1>7, <3>1, OtherMessage
  <2>2. ~BegunAt(c, m, q)
    <3>1. ASSUME NEW i \in q..(N(m) - 1), Beginning(c, m, i) PROVE FALSE
      <4>1. i \in 1..(N(m) - 1)
        BY <1>1, <1>4
      <4> QED BY <1>1, <1>7, <3>1, <4>1, BeginningFrame
    <3> QED BY <3>1 DEF BegunAt
  <2>3. q > 0
    BY <1>4
  <2> QED BY <1>1, <1>4, <1>5, <1>7, <2>1, <2>2, <2>3 DEF Backed
<1> QED BY <1>6, <1>7

\* An assembly with a fragment at its end begins as before and ends with the fragment.
LEMMA GrownEnds ==
  ASSUME NEW c, c.data \in Seq(Byte), Filled(c), NEW f, f.data \in Seq(Byte), Filled(f),
         NEW d, d = c.data \o f.data
  PROVE  /\ d \in Seq(Byte) /\ d # << >> /\ 1 \in DOMAIN d
         /\ Head(d)[1] = MsgOf(c) /\ d[1][1] = MsgOf(c)
         /\ \E i \in DOMAIN d : d[i] = f.data[Len(f.data)]
         /\ Len(f.data) \in DOMAIN f.data
<1>1. PICK x, y : x = c.data /\ y = f.data
  OBVIOUS
<1>2. x \in Seq(Byte) /\ y \in Seq(Byte) /\ x # << >> /\ y # << >> /\ d = x \o y
  BY <1>1 DEF Filled
<1>3. /\ d \in Seq(Byte) /\ Len(d) = Len(x) + Len(y) /\ Len(x) \in Nat \ {0} /\ Len(y) \in Nat \ {0}
      /\ \A i \in 1..Len(x) : d[i] = x[i]
      /\ \A i \in 1..Len(y) : d[Len(x) + i] = y[i]
  BY <1>2
<1>4. d # << >> /\ Head(d) = d[1] /\ 1 \in DOMAIN d /\ d[1] = x[1] /\ Head(x) = x[1]
  BY <1>2, <1>3
<1>5. Len(y) \in 1..Len(y) /\ Len(x) + Len(y) \in DOMAIN d /\ d[Len(x) + Len(y)] = y[Len(y)]
      /\ Len(y) \in DOMAIN y
  BY <1>2, <1>3
<1> QED BY <1>1, <1>3, <1>4, <1>5 DEF MsgOf

\* A fragment that is neither the first nor the last is added.
LEMMA MoreHandled ==
  ASSUME NEW s, NEW m, NEW q, NEW f, NEW c, Comes(s, m, q, f, c),
         f.type = NETWORK_MORE_FRAGMENTS, Continues(c, f), Nothing,
         NEW d, d.data = c.data \o f.data, d.left = c.left - 1
  PROVE  Handled(s, m, q, d)
<1>1. /\ Types /\ Copies(m) \in Nat /\ attempts[m] \in Nat /\ s \in Senders
      /\ f.data \in Seq(Byte) /\ Filled(f) /\ Epoch(s, m)
      /\ m \in 1..Len(written) /\ q \in 0..(N(m) - 1) /\ FrameIs(f, s, m, q)
      /\ N(m) \in Nat \ {0} /\ restarts' = restarts
  BY SendsInv
<1>2. /\ f.type \in FragmentTypes /\ f.type # NETWORK_FIRST_FRAGMENT
      /\ f.type # NETWORK_LAST_FRAGMENT
  BY DEF FragmentTypes, NETWORK_FIRST_FRAGMENT, NETWORK_MORE_FRAGMENTS, NETWORK_LAST_FRAGMENT
<1>3. /\ q \in 1..(N(m) - 1)
      /\ Copies(m) < attempts[m]
      /\ \/ MsgOf(c) = m /\ Beginning(c, m, q)
         \/ /\ MsgOf(c) # m /\ Stale(s) >= 1
            /\ Copies(m) > 0 \/ Spoilt(m)
  BY <1>2, TakesFragment
<1>4. q < N(m) - 1
  <2>1. q # N(m) - 1
    BY <1>2, FragmentKinds
  <2>2. q \in 0..(N(m) - 1) /\ N(m) \in Nat \ {0}
    BY <1>1
  <2> QED BY <2>1, <2>2
<1>5. Leaves /\ Copies(m)' = Copies(m) /\ Stale(s)' = Stale(s)
  BY <1>1, NothingLeaves DEF Leaves
<1>6. c.data \in Seq(Byte) /\ Filled(c)
  BY DEF Comes, BytesInv, Continues
<1>7. Head(d.data)[1] = MsgOf(c)
  <2>1. PICK x : x = d.data
    OBVIOUS
  <2>2. Head(x)[1] = MsgOf(c)
    BY <1>1, <1>6, <2>1, GrownEnds
  <2> QED BY <2>1, <2>2
<1>8. MsgOf(d) = MsgOf(c)
  BY <1>7 DEF MsgOf
<1>9. CASE MsgOf(c) = m /\ Beginning(c, m, q)
  <2>1. PICK x, y : x = c.data /\ y = d.data
    OBVIOUS
  <2>2. x = Part(m, 0, At(q)) /\ c.left = N(m) - q
    BY <1>9, <2>1 DEF Beginning
  <2>3. y = x \o f.data
    BY <2>1
  <2>4. y = Part(m, 0, At(q + 1)) /\ q + 1 \in 1..(N(m) - 1)
    BY <1>1, <1>3, <1>4, <2>2, <2>3, BeginningGrows
  <2>5. d.left = N(m) - (q + 1)
    BY <1>1, <2>2
  <2>6. Beginning(d, m, q + 1)
    BY <2>1, <2>4, <2>5 DEF Beginning
  <2>7. q + 1 \in 1..(N(m) - 1) /\ q + 1 \in (q + 1)..(N(m) - 1)
    BY <1>1, <1>4
  <2>8. BegunAt(d, m, 1) /\ BegunAt(d, m, q + 1)
    BY <2>6, <2>7 DEF BegunAt
  <2>9. Harmless(s, m, d, Stale(s)')
    BY <1>1, <1>8, <1>9, <2>8 DEF Harmless
  <2> QED BY <1>1, <1>3, <1>4, <1>5, <2>8, <2>9 DEF Handled
<1>10. CASE /\ MsgOf(c) # m /\ Stale(s) >= 1
            /\ Copies(m) > 0 \/ Spoilt(m)
  <2>1. Harmless(s, m, d, Stale(s)')
    BY <1>5, <1>8, <1>10 DEF Harmless
  <2>2. Copies(m)' > 0 \/ Spoilt(m)'
    BY <1>5, <1>10 DEF Leaves
  <2> QED BY <1>1, <1>3, <1>5, <2>1, <2>2 DEF Handled
<1> QED BY <1>3, <1>9, <1>10

\* The last fragment ends an assembly.
LEMMA LastHandled ==
  ASSUME NEW s, NEW m, NEW q, NEW f, NEW c, Comes(s, m, q, f, c),
         f.type = NETWORK_LAST_FRAGMENT, Continues(c, f),
         Deliver(s, f.reserved, c.data \o f.data) \/ Swallow(f),
         NEW d, ~Filled(d)
  PROVE  Handled(s, m, q, d)
<1>1. /\ Types /\ Copies(m) \in Nat /\ attempts[m] \in Nat /\ s \in Senders /\ MsgOf(f) = m
      /\ f.data \in Seq(Byte) /\ Filled(f) /\ \A i \in DOMAIN f.data : f.data[i][1] = m
      /\ m \in 1..Len(written) /\ q \in 0..(N(m) - 1) /\ FrameIs(f, s, m, q) /\ m # 0
      /\ N(m) \in Nat \ {0} /\ restarts' = restarts /\ written' = written
      /\ written[m].from = s /\ f.id = written[m].id
  BY SendsInv
<1>2. f.type \in FragmentTypes /\ f.type # NETWORK_FIRST_FRAGMENT
  BY DEF FragmentTypes, NETWORK_FIRST_FRAGMENT, NETWORK_LAST_FRAGMENT
<1>3. /\ q \in 1..(N(m) - 1)
      /\ Copies(m) < attempts[m]
      /\ \/ MsgOf(c) = m /\ Beginning(c, m, q)
         \/ /\ MsgOf(c) # m /\ Stale(s) >= 1
            /\ Copies(m) > 0 \/ Spoilt(m)
  BY <1>2, TakesFragment
<1>4. q = N(m) - 1 /\ f.reserved = written[m].type
  BY <1>2, FragmentKinds
<1>5. c.data \in Seq(Byte) /\ Filled(c) /\ AllOf(c.data, s, c.id) /\ c.id = f.id
  BY DEF Comes, BytesInv, Continues
<1>6. Harmless(s, m, d, Stale(s)')
  BY DEF Harmless
<1>7. q > 0
  BY <1>3
<1>8. PICK x, y : x = c.data /\ y = x \o f.data
  OBVIOUS
<1>9. CASE Swallow(f)
  <2>1. Spoils(m)
    BY <1>1, <1>9, SwallowSpoils
  <2>2. Copies(m)' = Copies(m) /\ Spoilt(m)'
    BY <2>1 DEF Spoils
  <2> QED BY <1>1, <1>3, <1>6, <1>7, <2>1, <2>2 DEF Handled
<1>10. CASE Deliver(s, f.reserved, y) /\ MsgOf(c) = m /\ Beginning(c, m, q)
  <2>1. x = Part(m, 0, At(q))
    BY <1>8, <1>10 DEF Beginning
  <2>2. y = Whole(m)
    <3>1. Types /\ m \in 1..Len(written) /\ FrameIs(f, s, m, q) /\ y = x \o f.data
      BY <1>1, <1>8
    <3>2. q \in 1..(N(m) - 1) /\ q = N(m) - 1
      BY <1>3, <1>4
    <3> QED BY <2>1, <3>1, <3>2, BeginningGrows
  <2>3. IsMessage(s, f.reserved, Whole(m), m)
    BY <1>1, <1>4 DEF IsMessage
  <2>4. Delivers(m)
    BY <1>1, <1>10, <2>2, <2>3, WholeDelivers
  <2>5. Copies(m)' = Copies(m) + 1
    BY <2>4 DEF Delivers
  <2>6. Copies(m)' <= attempts[m] /\ Copies(m)' > 0
    BY <1>1, <1>3, <2>5
  <2> QED BY <1>1, <1>3, <1>6, <1>7, <2>4, <2>6 DEF Handled
<1>11. CASE /\ Deliver(s, f.reserved, y) /\ MsgOf(c) # m /\ Stale(s) >= 1
            /\ Copies(m) > 0 \/ Spoilt(m)
  <2>1. /\ y \in Seq(Byte) /\ 1 \in DOMAIN y /\ y[1][1] = MsgOf(c)
        /\ \E i \in DOMAIN y : y[i] = f.data[Len(f.data)]
        /\ Len(f.data) \in DOMAIN f.data
    <3>1. y = c.data \o f.data /\ c.data \in Seq(Byte) /\ Filled(c)
      BY <1>5, <1>8
    <3>2. f.data \in Seq(Byte) /\ Filled(f)
      BY <1>1
    <3> QED BY <3>1, <3>2, GrownEnds
  <2>2. \E i \in DOMAIN y : y[i][1] = m
    BY <1>1, <2>1
  <2>3. AllOf(y, s, f.id)
    <3>1. AllOf(f.data, s, f.id)
      BY <1>1 DEF AllOf, Of
    <3>2. Joined(x \o f.data, x, f.data, Byte)
      BY <1>1, <1>5, <1>8, Concatenation
    <3>3. Joined(y, x, f.data, Byte)
      BY <1>8, <3>2
    <3> QED BY <1>5, <1>8, <3>1, <3>3 DEF Joined, AllOf
  <2>4. ASSUME NEW k \in 1..Len(written), IsMessage(s, f.reserved, y, k) PROVE FALSE
    <3>1. y = Whole(k)
      BY <2>4 DEF IsMessage
    <3>2. \A i \in DOMAIN y : y[i][1] = k
      <4>1. PICK len : len = written[k].len
        OBVIOUS
      <4>2. Len(y) = len /\ DOMAIN y = 1..len /\ \A i \in 1..len : y[i] = << k, i >>
        <5>1. /\ Len(Whole(k)) = len /\ Whole(k) \in Seq(Byte)
              /\ \A i \in 1..len : Whole(k)[i] = << k, i >>
          BY <1>1, <4>1, WrittenMessage
        <5> QED BY <3>1, <5>1
      <4> QED BY <4>2
    <3> QED BY <1>11, <2>1, <2>2, <3>2
  <2>5. Mixes(s, m)
    BY <1>1, <1>11, <2>1, <2>2, <2>3, <2>4, OthersMix
  <2>6. Copies(m)' = Copies(m) /\ Spoilt(m)'
    BY <1>1, <2>5 DEF Mixes
  <2> QED BY <1>1, <1>3, <1>6, <1>7, <1>11, <2>5, <2>6 DEF Handled
<1> QED BY <1>3, <1>8, <1>9, <1>10, <1>11

\* A later fragment is dropped; the assembly of another message may be given up then.
LEMMA LaterHandled ==
  ASSUME NEW s, NEW m, NEW q, NEW f, NEW c, Comes(s, m, q, f, c),
         f.type \in FragmentTypes, f.type # NETWORK_FIRST_FRAGMENT, Nothing,
         NEW d, d = c \/ ~Filled(d),
         Filled(c) /\ MsgOf(c) = m => d = c /\ ~Continues(c, f)
  PROVE  Handled(s, m, q, d)
<1>1. /\ Types /\ Copies(m) \in Nat /\ attempts[m] \in Nat /\ Copies(m) <= attempts[m]
      /\ Free(m, q, c) /\ Backed(m, q, c) /\ Harmless(s, m, c, Stale(s)) /\ s \in Senders
      /\ m \in 1..Len(written) /\ q \in 0..(N(m) - 1) /\ N(m) \in Nat \ {0}
      /\ restarts' = restarts
  BY SendsInv
<1>2. q # 0
  BY FragmentKinds
<1>3. q > 0 /\ q \in 1..(N(m) - 1)
  BY <1>1, <1>2
<1>4. Leaves
  BY <1>1, NothingLeaves
<1>5. Copies(m)' = Copies(m) /\ Stale(s)' = Stale(s) /\ (Spoilt(m) => Spoilt(m)')
  BY <1>1, <1>4 DEF Leaves
<1>6. Harmless(s, m, d, Stale(s)')
  BY <1>1, <1>5 DEF Harmless
<1>7. Copies(m)' < attempts[m] \/ (q > 0 /\ ~Filled(d))
  BY <1>1, <1>3, <1>5 DEF Free
<1>8. Copies(m)' > 0 \/ Spoilt(m)' \/ (q < N(m) - 1 /\ BegunAt(d, m, q + 1))
  <2>1. CASE Copies(m) > 0 \/ Spoilt(m)
    BY <1>5, <2>1
  <2>2. CASE BegunAt(c, m, q)
    <3>1. PICK i \in q..(N(m) - 1) : Beginning(c, m, i)
      BY <2>2 DEF BegunAt
    <3>2. i \in 1..(N(m) - 1)
      BY <1>1, <1>3
    <3>3. MsgOf(c) = m /\ Filled(c)
      BY <1>1, <3>1, <3>2, BeginningFrame
    <3>4. i # q
      BY <3>1, <3>2, <3>3, NextContinues
    <3>5. i \in (q + 1)..(N(m) - 1) /\ q < N(m) - 1
      BY <1>1, <3>4
    <3> QED BY <3>1, <3>3, <3>5 DEF BegunAt
  <2> QED BY <1>1, <1>3, <2>1, <2>2 DEF Backed
<1> QED BY <1>1, <1>4, <1>5, <1>6, <1>7, <1>8 DEF Handled

\* A first fragment is dropped, of a message that has the id of what is assembled.
LEMMA RepeatHandled ==
  ASSUME NEW s, NEW m, NEW q, NEW f, NEW c, Comes(s, m, q, f, c),
         f.type = NETWORK_FIRST_FRAGMENT, Filled(c),
         IF MsgOf(c) # m THEN Swallow(f) ELSE Nothing
  PROVE  Handled(s, m, q, c)
<1>1. /\ Types /\ Copies(m) \in Nat /\ attempts[m] \in Nat /\ Copies(m) <= attempts[m]
      /\ Free(m, q, c) /\ Harmless(s, m, c, Stale(s)) /\ s \in Senders /\ MsgOf(f) = m
      /\ m \in 1..Len(written) /\ q \in 0..(N(m) - 1) /\ N(m) \in Nat \ {0}
      /\ restarts' = restarts
  BY SendsInv
<1>2. f.type \in FragmentTypes
  BY DEF FragmentTypes
<1>3. N(m) # 1 /\ q = 0
  BY <1>2, FragmentKinds
<1>4. Spoils(m) \/ Leaves
  BY <1>1, SwallowSpoils, NothingLeaves
<1>5. Copies(m)' = Copies(m) /\ Stale(s)' = Stale(s)
  BY <1>1, <1>4 DEF Spoils, Leaves
<1>6. Copies(m)' > 0 \/ Spoilt(m)' \/ (q < N(m) - 1 /\ BegunAt(c, m, q + 1))
  <2>1. CASE MsgOf(c) # m
    BY <1>1, <2>1, SwallowSpoils DEF Spoils
  <2>2. CASE MsgOf(c) = m
    <3>1. BegunAt(c, m, 1)
      BY <1>1, <1>3, <2>2 DEF Harmless
    <3>2. q < N(m) - 1 /\ q + 1 = 1
      BY <1>1, <1>3
    <3> QED BY <3>1, <3>2
  <2> QED BY <2>1, <2>2
<1> QED BY <1>1, <1>3, <1>4, <1>5, <1>6 DEF Handled, Free

\* A beginning of the present message has room for the frame that continues it.
LEMMA ContinuedFits ==
  ASSUME NEW s, NEW m, NEW q, NEW f, NEW c, Comes(s, m, q, f, c),
         f.type \in FragmentTypes, f.type # NETWORK_FIRST_FRAGMENT, Continues(c, f),
         MsgOf(c) = m
  PROVE  Len(c.data) + Len(f.data) <= MAX_PAYLOAD_SIZE
<1>1. /\ Types /\ m \in 1..Len(written) /\ q \in 0..(N(m) - 1) /\ FrameIs(f, s, m, q)
      /\ N(m) \in Nat \ {0} /\ written[m].len <= MAX_PAYLOAD_SIZE
  BY SendsInv
<1>2. q \in 1..(N(m) - 1) /\ Beginning(c, m, q)
  BY TakesFragment
<1>3. Len(c.data) = At(q) /\ At(q) \in Nat
  BY <1>1, <1>2, BeginningFrame
<1>4. Len(f.data) = End(m, q) - At(q) /\ End(m, q) \in Nat /\ End(m, q) <= written[m].len
  BY <1>1, FrameBytes, FrameEnds
<1>5. written[m].len \in Nat /\ MAX_PAYLOAD_SIZE \in Nat
  BY <1>1, WrittenMessage, FragmentsAssumption
<1> QED BY <1>1, <1>3, <1>4, <1>5

\* Every beginning of it has room for every frame, if frames fill the buffer exactly.
LEMMA BeginningFits ==
  ASSUME MAX_PAYLOAD_SIZE % max_frame_payload_size = 0,
         NEW s, NEW m, NEW q, NEW f, NEW c, Comes(s, m, q, f, c),
         f.type \in FragmentTypes, f.type # NETWORK_FIRST_FRAGMENT,
         Filled(c), MsgOf(c) = m
  PROVE  Len(c.data) + Len(f.data) <= MAX_PAYLOAD_SIZE
<1>1. /\ Types /\ m \in 1..Len(written) /\ q \in 0..(N(m) - 1) /\ FrameIs(f, s, m, q)
      /\ N(m) \in Nat \ {0} /\ written[m].len <= MAX_PAYLOAD_SIZE
      /\ Harmless(s, m, c, Stale(s))
  BY SendsInv
<1>2. N(m) # 1
  BY FragmentKinds
<1>3. PICK i \in 1..(N(m) - 1) : Beginning(c, m, i)
  BY <1>1, <1>2 DEF Harmless, BegunAt
<1>4. Len(c.data) = At(i) /\ At(i) \in Nat
  BY <1>1, <1>3, BeginningFrame
<1>5. PICK w : w = max_frame_payload_size
  OBVIOUS
<1>6. w \in Nat \ {0} /\ MAX_PAYLOAD_SIZE \in Nat
  BY <1>5, FragmentsAssumption
<1>7. Len(f.data) = End(m, q) - At(q) /\ End(m, q) \in Nat /\ At(q) \in Nat /\ End(m, q) <= At(q) + w
  <2>1. /\ Types /\ m \in 1..Len(written) /\ q \in 0..(N(m) - 1) /\ FrameIs(f, s, m, q)
        /\ N(m) \in Nat \ {0} /\ q \in Nat
    BY <1>1
  <2>0. Len(f.data) = End(m, q) - At(q) /\ End(m, q) \in Nat /\ At(q) \in Nat
    BY <2>1, FrameBytes, FrameEnds
  <2>2. At(q + 1) = At(q) + w
    BY <1>5, <2>1, Offsets
  <2>3. End(m, q) <= At(q + 1)
    <3>1. CASE q = N(m) - 1
      <4>1. End(m, q) = written[m].len /\ q + 1 = N(m)
        BY <2>1, <3>1 DEF End
      <4>2. written[m].len <= At(N(m))
        BY <2>1, WrittenMessage, FramesOfMessage DEF N
      <4> QED BY <4>1, <4>2
    <3>2. CASE q # N(m) - 1
      <4>1. End(m, q) = At(q + 1)
        BY <3>2 DEF End
      <4> QED BY <1>6, <2>0, <2>2, <4>1
    <3> QED BY <3>1, <3>2
  <2> QED BY <1>6, <2>0, <2>2, <2>3
<1>8. At(i) + w <= MAX_PAYLOAD_SIZE
  <2>1. At(N(m) - 1) < written[m].len /\ written[m].len \in Nat
    BY <1>1, WrittenMessage, FramesOfMessage DEF N
  <2>2. PICK k : k = N(m) - 1
    OBVIOUS
  <2>3. At(i) <= At(k) /\ k \in Nat /\ At(k) \in Nat
    <3>1. i \in Nat /\ k \in Nat /\ i <= k
      BY <1>1, <2>2
    <3> QED BY <3>1, Offsets
  <2>4. At(k) = k * w /\ k * w \in Nat
    BY <1>5, <1>6, <2>3 DEF At
  <2>5. k * w < MAX_PAYLOAD_SIZE
    BY <1>1, <1>6, <2>1, <2>2, <2>3, <2>4
  <2>6. k * w + w <= MAX_PAYLOAD_SIZE
    <3>1. PICK p \in Nat : MAX_PAYLOAD_SIZE = p * w
      <4>1. PICK d, r : d = MAX_PAYLOAD_SIZE \div w /\ r = MAX_PAYLOAD_SIZE % w
        OBVIOUS
      <4>2. d \in Nat /\ MAX_PAYLOAD_SIZE = d * w + r /\ r = 0
        BY <1>5, <1>6, <4>1
      <4> QED BY <1>6, <4>2
    <3>2. p > k
      <4>1. p <= k => p * w <= k * w
        BY <1>6, <2>3
      <4> QED BY <1>6, <2>3, <2>4, <2>5, <3>1, <4>1
    <3>3. p * w >= (k + 1) * w
      BY <1>6, <2>3, <3>1, <3>2
    <3> QED BY <1>6, <2>3, <3>1, <3>3
  <2> QED BY <1>4, <1>6, <2>3, <2>4, <2>6
<1> QED BY <1>4, <1>6, <1>7, <1>8

-----------------------------------------------------------------------------
(***************************************************************************)
(* What the receivers do with what was assembled, and with a frame.        *)
(***************************************************************************)
\* The histories after it.
Recorded == /\ delivered' \in Seq(Delivery) /\ swallowed' \subseteq 1..Len(written)
            /\ DeliveredHeader'

LEMMA Records ==
  ASSUME Basis, written' = written, NEW s \in Senders, NEW f, MsgOf(f) \in 1..Len(written),
         \/ Nothing \/ Swallow(f)
         \/ \E type, id : \E data \in Seq(Byte) : Deliver(s, type, data) /\ AllOf(data, s, id)
  PROVE  Recorded
<1>1. Types /\ DeliveredHeader /\ swallowed \subseteq 1..Len(written) /\ delivered \in Seq(Delivery)
  BY DEF Basis, SenderInv, Types
<1>2. CASE Nothing \/ Swallow(f)
  <2>1. delivered' = delivered /\ swallowed' \subseteq 1..Len(written)
    BY <1>1, <1>2 DEF Nothing, Swallow
  <2> QED BY <1>1, <2>1, SameTraces DEF Recorded
<1>3. ASSUME NEW type, NEW id, NEW data \in Seq(Byte), Deliver(s, type, data), AllOf(data, s, id)
      PROVE  Recorded
  BY <1>1, <1>3, DeliverTraces DEF Recorded
<1> QED BY <1>2, <1>3

\* The bytes of a frame are of one message.
LEMMA FrameTraces ==
  ASSUME NEW s, NEW m, NEW q, NEW f, NEW c, Comes(s, m, q, f, c)
  PROVE  /\ f.data \in Seq(Byte) /\ f.data # << >> /\ AllOf(f.data, s, f.id)
         /\ MsgOf(f) = m /\ MsgOf(f) \in 1..Len(written)
         /\ f.from = s /\ s \in Senders /\ f.id \in 0..(IdSpace - 1) /\ f.type \in Nat
         /\ N(m) # 1 => f.reserved \in Nat
         /\ f.type \in FragmentTypes <=> N(m) # 1
<1>1. /\ Types /\ s \in Senders /\ m \in 1..Len(written) /\ q \in 0..(N(m) - 1)
      /\ FrameIs(f, s, m, q) /\ written[m].from = s /\ MsgOf(f) = m /\ f.from = s
      /\ f.id = written[m].id /\ f.data \in Seq(Byte) /\ Filled(f)
      /\ \A i \in DOMAIN f.data : f.data[i][1] = m
  BY SendsInv
<1>2. f.id \in 0..(IdSpace - 1) /\ f.type \in Nat
  BY <1>1, FrameBytes
<1>3. /\ N(m) # 1 => f.reserved \in Nat
      /\ f.type \in FragmentTypes <=> N(m) # 1
  BY <1>1, FragmentReserved
<1>4. AllOf(f.data, s, f.id)
  BY <1>1 DEF AllOf, Of
<1> QED BY <1>1, <1>2, <1>3, <1>4 DEF Filled

\* So are those of an assembly with a frame of its message at its end.
LEMMA GrownTraces ==
  ASSUME NEW s, NEW c, BytesInv(s, c), Filled(c), NEW f, f.data \in Seq(Byte),
         AllOf(f.data, s, c.id), NEW d, d = c.data \o f.data
  PROVE  d \in Seq(Byte) /\ d # << >> /\ AllOf(d, s, c.id)
<1>1. PICK x, y : x = c.data /\ y = f.data
  OBVIOUS
<1>2. x \in Seq(Byte) /\ y \in Seq(Byte) /\ x # << >> /\ AllOf(x, s, c.id) /\ AllOf(y, s, c.id)
  BY <1>1 DEF BytesInv, Filled
<1>3. Joined(d, x, y, Byte)
  BY <1>1, <1>2, Concatenation
<1> QED BY <1>2, <1>3 DEF Joined, AllOf

-----------------------------------------------------------------------------
(***************************************************************************)
(* The invariant, under the steps of the senders and of the receiver.      *)
(***************************************************************************)
\* What a step leaves of sender t.
Untouched(t) ==
  LET x == job[t].msg
  IN  /\ job'[t] = job[t] /\ Stale(t)' = Stale(t)
      /\ Epoch(t, Len(written) + 1)'
      /\ \A k \in 1..Len(written) : Epoch(t, k) => Epoch(t, k)'
      /\ x # 0 => /\ Copies(x)' = Copies(x) /\ (Spoilt(x)' <=> Spoilt(x))
                  /\ attempts'[x] = attempts[x] /\ outcome'[x] = outcome[x]
                  /\ written'[x] = written[x]

\* Its part of the invariant stays with it, if what is assembled does.
LEMMA OthersKept ==
  ASSUME Basis, NEW t \in Senders, Untouched(t), Types', Len(written)' >= Len(written),
         NEW c, BytesInv(t, c), DeliveryOf(t, c)
  PROVE  DeliveryOf(t, c)'
<1>1. PICK x : x = job[t].msg
  OBVIOUS
<1>2. /\ Types /\ JobInv(t) /\ EpochInv(t) /\ EntryInv(t, c) /\ CallInv(t, c)
      /\ Types'
  BY DEF Basis, SenderInv, DeliveryOf
<1>3. x # 0 => x \in 1..Len(written)
  BY <1>1, <1>2 DEF JobInv
<1>4. Len(written) \in Nat /\ Len(written)' \in Nat
  BY <1>2 DEF Types
<1>5. EpochInv(t)'
  <2>1. Epoch(t, Len(written) + 1)'
    BY DEF Untouched
  <2>2. x # 0 => Epoch(t, x)'
    BY <1>1, <1>2, <1>3 DEF EpochInv, Untouched
  <2> QED BY <1>1, <2>1, <2>2 DEF EpochInv, Untouched
<1>6. x # 0 => (\A d, q : BegunAt(d, x, q)' <=> BegunAt(d, x, q)) /\ N(x)' = N(x)
  BY <1>1, SameMessage DEF Untouched
<1>7. EntryInv(t, c)'
  <2>1. Filled(c) => MsgOf(c) \in 1..Len(written)
    BY HeldMessage DEF Of
  <2>2. /\ Stale(t) >= 0
        /\ Filled(c) => /\ Stale(t) >= 1 \/ Epoch(t, MsgOf(c))
                        /\ MsgOf(c) = x => N(x) = 1 \/ BegunAt(c, x, 1)
    BY <1>1, <1>2 DEF EntryInv, Harmless
  <2>3. job'[t].msg = x /\ Stale(t)' = Stale(t)
    BY <1>1 DEF Untouched
  <2>4. Filled(c) => /\ Stale(t)' >= 1 \/ Epoch(t, MsgOf(c))'
                     /\ MsgOf(c) = x => N(x)' = 1 \/ BegunAt(c, x, 1)'
    <3>1. Filled(c) /\ MsgOf(c) = x => x # 0
      BY <1>4, <2>1
    <3> QED BY <1>6, <2>1, <2>2, <2>3, <3>1 DEF Untouched
  <2> QED BY <2>2, <2>3, <2>4 DEF EntryInv, Harmless
<1>8. CallInv(t, c)'
  <2>1. job'[t] = job[t]
    BY DEF Untouched
  <2>2. CASE x = 0
    BY <1>1, <1>2, <2>1, <2>2 DEF JobInv, CallInv
  <2>3. CASE x # 0
    <3>1. /\ Copies(x)' = Copies(x) /\ (Spoilt(x)' <=> Spoilt(x))
          /\ attempts'[x] = attempts[x] /\ outcome'[x] = outcome[x]
      BY <1>1, <2>3 DEF Untouched
    <3>2. \A q : Backed(x, q, c)' <=> Backed(x, q, c)
      BY <1>6, <2>3, <3>1 DEF Backed
    <3>3. \A q : Free(x, q, c)' <=> Free(x, q, c)
      BY <3>1 DEF Free
    <3> QED BY <1>1, <1>2, <2>1, <2>3, <3>1, <3>2, <3>3 DEF CallInv
  <2> QED BY <2>2, <2>3
<1> QED BY <1>5, <1>7, <1>8 DEF DeliveryOf

\* Nothing is assembled at first.
LEMMA DeliveryInit ==
  ASSUME SenderInit, NEW s \in Senders, NEW c, ~Filled(c)
  PROVE  DeliveryOf(s, c)
<1>1. /\ job[s] = Idle /\ written = << >> /\ restarts = << >> /\ delivered = << >>
      /\ next_id[s] = 1 % IdSpace
  BY DEF SenderInit
<1>2. Idle.msg = 0 /\ Idle.phase = "idle"
  BY DEF Idle
<1>3. EpochInv(s)
  <2>1. 0 \in 0..Len(written) /\ Len(written) = 0
    BY <1>1
  <2>2. Numbered(s, 1, 0)
    BY <1>1, <2>1 DEF Numbered, Id
  <2>3. Epoch(s, 1)
    BY <2>1, <2>2 DEF Epoch
  <2>4. Len(written) + 1 = 1
    BY <2>1
  <2> QED BY <1>1, <1>2, <2>3, <2>4 DEF EpochInv
<1>4. EntryInv(s, c)
  <2>1. Mixed(s) = {} /\ { i \in DOMAIN restarts : restarts[i] = s } = {}
    BY <1>1 DEF Mixed, Places
  <2>2. Stale(s) = 0
    BY <2>1, FS_EmptySet DEF Stale
  <2> QED BY <2>2 DEF EntryInv, Harmless
<1>5. CallInv(s, c)
  BY <1>1, <1>2 DEF CallInv
<1> QED BY <1>3, <1>4, <1>5 DEF DeliveryOf

\* The messages two senders are about are different.
LEMMA OwnMessages ==
  ASSUME Basis, NEW s \in Senders, NEW t \in Senders, s # t, job[t].msg # 0
  PROVE  /\ job[t].msg \in 1..Len(written) /\ written[job[t].msg].from = t
         /\ job[t].msg # job[s].msg
<1>1. JobInv(s) /\ JobInv(t)
  BY DEF Basis, SenderInv
<1> QED BY <1>1 DEF JobInv

\* A message is written.
LEMMA DeliveryWrite ==
  ASSUME Basis, MaxMsgs <= IdSpace, \A t \in Senders : EpochInv(t), NEW s \in Senders,
         NEW len \in Lens, NEW type \in MsgTypes, Write(s, len, type), Nothing,
         NEW c, BytesInv(s, c), DeliveryOf(s, c)
  PROVE  DeliveryOf(s, c)' /\ \A t \in Senders \ {s} : Untouched(t)
<1>1. PICK m : m = Len(written) + 1
  OBVIOUS
<1>2. Types /\ EntryInv(s, c) /\ CallInv(s, c)
  BY DEF Basis, SenderInv, DeliveryOf
<1>3. /\ Len(written) \in Nat /\ Len(written)' = m /\ m \in Msg /\ m # 0
      /\ \A k \in 1..Len(written) : written'[k] = written[k] /\ k # m
  BY <1>1, <1>2, WriteAppends
<1>4. /\ attempts' = [ attempts EXCEPT ![m] = 1 ] /\ attempts \in [ Msg -> Nat ]
      /\ UNCHANGED << restarts, delivered, swallowed >>
      /\ outcome \in [ Msg -> Results ]
  BY <1>1, <1>2 DEF Write, Nothing, Types
<1>5. /\ job'[s].msg = m
      /\ \A t \in Senders \ {s} : job'[t] = job[t]
      /\ \/ job'[s] = Begin(m, len) /\ outcome' = [ outcome EXCEPT ![m] = "pending" ]
         \/ job'[s].phase = "idle" /\ outcome' = [ outcome EXCEPT ![m] = "false" ]
  BY <1>1, <1>2, WriteJobs
<1>6. \A t \in Senders : \A k \in 1..m : Epoch(t, k) => Epoch(t, k)'
  BY <1>1, <1>2, EpochWrite
<1>7. ASSUME NEW t \in Senders PROVE Epoch(t, m)' /\ Epoch(t, Len(written) + 1)'
  <2>1. Epoch(t, m)
    BY <1>1 DEF EpochInv
  <2>2. m \in 1..m /\ m \in Nat
    BY <1>1, <1>3
  <2>3. Epoch(t, m)'
    BY <1>6, <2>1, <2>2
  <2>4. PICK p \in 0..m : Numbered(t, m, p)'
    BY <1>3, <2>3 DEF Epoch
  <2>5. \A j \in (m + 1)..m : j \in m..m
    BY <2>2
  <2>6. Numbered(t, m + 1, p)'
    BY <1>3, <2>4, <2>5 DEF Numbered
  <2> QED BY <1>3, <2>3, <2>4, <2>6 DEF Epoch
<1>8. /\ \A x : Copies(x)' = Copies(x) /\ (Spoilt(x)' <=> Spoilt(x))
      /\ \A t : Stale(t)' = Stale(t)
  BY <1>4, SameQueues
<1>9. ASSUME NEW t \in Senders \ {s} PROVE Untouched(t)
  <2>1. PICK x : x = job[t].msg
    OBVIOUS
  <2>2. x # 0 => x \in 1..Len(written) /\ x # m
    BY <1>2, <1>3, <2>1, OwnMessages
  <2>3. x # 0 => x \in Msg
    BY <1>1, <1>3, <2>2, FragmentsAssumption DEF Msg
  <2>4. x # 0 => attempts'[x] = attempts[x] /\ outcome'[x] = outcome[x] /\ written'[x] = written[x]
    BY <1>3, <1>4, <1>5, <2>2, <2>3
  <2>5. \A k \in 1..Len(written) : k \in 1..m
    BY <1>1, <1>3
  <2> QED BY <1>5, <1>6, <1>7, <1>8, <2>1, <2>4, <2>5 DEF Untouched
<1>10. EpochInv(s)'
  BY <1>5, <1>7 DEF EpochInv
<1>11. EntryInv(s, c)'
  <2>1. /\ Stale(s) >= 0
        /\ Filled(c) => Stale(s) >= 1 \/ Epoch(s, MsgOf(c))
    BY <1>2 DEF EntryInv, Harmless
  <2>2. Filled(c) => MsgOf(c) \in 1..Len(written)
    BY HeldMessage DEF Of
  <2>3. Filled(c) => MsgOf(c) \in 1..m /\ MsgOf(c) # m
    BY <1>1, <1>3, <2>2
  <2> QED BY <1>5, <1>6, <1>8, <2>1, <2>3 DEF EntryInv, Harmless
<1>12. CallInv(s, c)'
  <2>1. Copies(m) = 0 /\ attempts'[m] = 1
    BY <1>1, <1>2, <1>3, <1>4, NewMessage
  <2>2. CASE job'[s] = Begin(m, len) /\ outcome' = [ outcome EXCEPT ![m] = "pending" ]
    <3>1. job'[s].phase = "sending" /\ job'[s].msgCount = 0
      BY <2>2 DEF Begin
    <3>2. outcome'[m] = "pending"
      BY <1>3, <1>4, <2>2
    <3> QED BY <1>5, <1>8, <2>1, <3>1, <3>2 DEF CallInv, Free, Backed
  <2>3. CASE job'[s].phase = "idle"
    BY <1>5, <1>8, <2>1, <2>3 DEF CallInv
  <2> QED BY <1>5, <2>2, <2>3
<1> QED BY <1>9, <1>10, <1>11, <1>12 DEF DeliveryOf

\* What a message was failed for is forgotten when it is written again.
LEMMA DeliveryRetry ==
  ASSUME Basis, \A t \in Senders : EpochInv(t), NEW s \in Senders,
         Retry(s), Forget(job[s].msg), NEW c, BytesInv(s, c), DeliveryOf(s, c)
  PROVE  DeliveryOf(s, c)' /\ \A t \in Senders \ {s} : Untouched(t)
<1>1. PICK m, b : m = job[s].msg /\ b = Begin(m, written[m].len)
  OBVIOUS
<1>2. Types /\ JobInv(s) /\ EpochInv(s) /\ EntryInv(s, c) /\ CallInv(s, c)
  BY DEF Basis, SenderInv, DeliveryOf
<1>3. /\ m # 0 /\ m \in Msg /\ m \in 1..Len(written) /\ Len(written) \in Nat
      /\ attempts \in [ Msg -> Nat ] /\ outcome \in [ Msg -> Results ]
      /\ job \in [ Senders -> Job ]
  <2>1. m # 0 /\ m \in 1..Len(written)
    BY <1>1, <1>2 DEF Retry, JobInv
  <2> QED BY <1>2, <2>1, WrittenMessage DEF Types
<1>4. /\ attempts' = [ attempts EXCEPT ![m] = @ + 1 ]
      /\ outcome' = [ outcome EXCEPT ![m] = "pending" ]
      /\ job' = [ job EXCEPT ![s] = b ]
      /\ UNCHANGED << next_id, written, restarts, delivered >>
      /\ swallowed' = swallowed \ {m}
  BY <1>1 DEF Retry, Forget
<1>5. b.phase = "sending" /\ b.msg = m /\ b.msgCount = 0
  BY <1>1 DEF Begin
<1>6. /\ \A x : Copies(x)' = Copies(x)
      /\ \A t : Stale(t)' = Stale(t)
      /\ \A x : x # m => (Spoilt(x)' <=> Spoilt(x))
  BY <1>4, SameQueues
<1>7. ASSUME NEW t \in Senders
      PROVE  /\ \A k : Epoch(t, k)' <=> Epoch(t, k)
             /\ Epoch(t, Len(written) + 1)'
  <2>1. Epoch(t, Len(written) + 1)
    BY DEF EpochInv
  <2> QED BY <1>4, <2>1, EpochKept
<1>8. /\ attempts'[m] = attempts[m] + 1 /\ outcome'[m] = "pending" /\ job'[s] = b
      /\ attempts[m] \in Nat
      /\ \A x \in Msg : x # m => attempts'[x] = attempts[x] /\ outcome'[x] = outcome[x]
      /\ \A t \in Senders \ {s} : job'[t] = job[t]
  BY <1>3, <1>4
<1>9. ASSUME NEW t \in Senders \ {s} PROVE Untouched(t)
  <2>1. PICK x : x = job[t].msg
    OBVIOUS
  <2>2. x # 0 => x \in 1..Len(written) /\ x # m
    BY <1>1, <1>2, <2>1, OwnMessages
  <2>3. x # 0 => x \in Msg
    BY <1>2, <2>2, WrittenMessage
  <2>4. x # 0 => attempts'[x] = attempts[x] /\ outcome'[x] = outcome[x]
    BY <1>8, <2>2, <2>3
  <2> QED BY <1>4, <1>6, <1>7, <1>8, <2>1, <2>2, <2>4 DEF Untouched
<1>10. EpochInv(s)'
  <2>1. Epoch(s, m)
    BY <1>1, <1>2, <1>3 DEF EpochInv
  <2> QED BY <1>5, <1>7, <1>8, <2>1 DEF EpochInv
<1>11. EntryInv(s, c)'
  <2>1. (\A d, q : BegunAt(d, m, q)' <=> BegunAt(d, m, q)) /\ N(m)' = N(m)
    BY <1>4, SameMessage
  <2>2. /\ Stale(s) >= 0
        /\ Filled(c) => /\ Stale(s) >= 1 \/ Epoch(s, MsgOf(c))
                        /\ MsgOf(c) = m => N(m) = 1 \/ BegunAt(c, m, 1)
    BY <1>1, <1>2 DEF EntryInv, Harmless
  <2>3. Filled(c) => /\ Stale(s)' >= 1 \/ Epoch(s, MsgOf(c))'
                     /\ MsgOf(c) = m => N(m)' = 1 \/ BegunAt(c, m, 1)'
    BY <1>6, <1>7, <2>1, <2>2
  <2> QED BY <1>5, <1>6, <1>8, <2>2, <2>3 DEF EntryInv, Harmless
<1>12. CallInv(s, c)'
  <2>1. Copies(m) <= attempts[m] /\ Copies(m) \in Nat
    BY <1>1, <1>2, <1>3, PlacesFinite DEF CallInv, Types
  <2>2. Copies(m)' < attempts'[m] /\ Copies(m)' <= attempts'[m]
    BY <1>6, <1>8, <2>1
  <2>3. Free(m, 0, c)' /\ Backed(m, 0, c)'
    BY <2>2 DEF Free, Backed
  <2> QED BY <1>5, <1>8, <2>2, <2>3 DEF CallInv
<1> QED BY <1>9, <1>10, <1>11, <1>12 DEF DeliveryOf

\* A sender that restarts counts its ids from 1 again; what is assembled of its messages
\* may spoil one.
LEMMA DeliveryReboot ==
  ASSUME Basis, \A t \in Senders : EpochInv(t), NEW s \in Senders, Reboot(s), Nothing,
         NEW c, BytesInv(s, c), DeliveryOf(s, c)
  PROVE  DeliveryOf(s, c)' /\ \A t \in Senders \ {s} : Untouched(t)
<1>1. Types /\ EntryInv(s, c) /\ Len(written) \in Nat /\ restarts \in Seq(Senders)
  BY DEF Basis, SenderInv, DeliveryOf, Types
<1>2. /\ restarts' = Append(restarts, s)
      /\ next_id' = [ next_id EXCEPT ![s] = 1 % IdSpace ]
      /\ job' = [ job EXCEPT ![s] = Idle ]
      /\ UNCHANGED << written, attempts, outcome, delivered, swallowed >>
      /\ next_id \in [ Senders -> 0..(IdSpace - 1) ] /\ job \in [ Senders -> Job ]
  BY <1>1 DEF Reboot, Nothing, Types
<1>3. /\ next_id'[s] = 1 % IdSpace /\ job'[s] = Idle /\ Idle.msg = 0 /\ Idle.phase = "idle"
      /\ \A t \in Senders \ {s} : next_id'[t] = next_id[t] /\ job'[t] = job[t]
  BY <1>2 DEF Idle
<1>4. /\ \A x : Copies(x)' = Copies(x) /\ (Spoilt(x)' <=> Spoilt(x))
      /\ \A t : Mixed(t)' = Mixed(t)
  BY <1>2, SameQueues
<1>5. Stale(s)' = Stale(s) + 1 /\ \A t \in Senders \ {s} : Stale(t)' = Stale(t)
  BY <1>1, <1>2, <1>4, RestartStale
<1>6. ASSUME NEW t \in Senders \ {s} PROVE Untouched(t)
  <2>1. Epoch(t, Len(written) + 1)
    BY DEF EpochInv
  <2>2. (\A k : Epoch(t, k)' <=> Epoch(t, k)) /\ Epoch(t, Len(written) + 1)'
    BY <1>2, <1>3, <2>1, EpochKept
  <2> QED BY <1>2, <1>3, <1>4, <1>5, <2>2 DEF Untouched
<1>7. EpochInv(s)'
  <2>1. Numbered(s, Len(written) + 1, 0)'
    <3>1. \A j \in (Len(written) + 1)..Len(written) : FALSE
      BY <1>1
    <3>2. next_id'[s] = Id(0 + 1)
      BY <1>3 DEF Id
    <3> QED BY <1>2, <3>1, <3>2 DEF Numbered
  <2>2. 0 \in 0..Len(written)
    BY <1>1
  <2>3. Epoch(s, Len(written) + 1)'
    BY <1>2, <2>1, <2>2 DEF Epoch
  <2> QED BY <1>3, <2>3 DEF EpochInv
<1>8. EntryInv(s, c)'
  <2>1. Filled(c) => MsgOf(c) # 0
    <3>1. Filled(c) => MsgOf(c) \in 1..Len(written)
      BY HeldMessage DEF Of
    <3> QED BY <1>1, <3>1
  <2>2. Stale(s)' >= 1 /\ Stale(s)' >= 0
    <3>1. Stale(s) \in Int /\ Stale(s) >= 0
      BY <1>1, StaleInt DEF EntryInv
    <3> QED BY <1>5, <3>1
  <2> QED BY <1>3, <2>1, <2>2 DEF EntryInv, Harmless
<1>9. CallInv(s, c)'
  BY <1>3 DEF CallInv
<1> QED BY <1>6, <1>7, <1>8, <1>9 DEF DeliveryOf

\* Nothing happens.
LEMMA DeliveryStays ==
  ASSUME Basis, UNCHANGED << senderVars, delivered, swallowed >>,
         NEW t \in Senders, EpochInv(t)
  PROVE  Untouched(t)
<1>1. /\ UNCHANGED << next_id, job, written, attempts, outcome, restarts, delivered >>
      /\ swallowed' = swallowed
  BY DEF senderVars
<1>2. /\ \A x : Copies(x)' = Copies(x) /\ (Spoilt(x)' <=> Spoilt(x))
      /\ \A s : Stale(s)' = Stale(s)
  BY <1>1, SameQueues
<1>3. Epoch(t, Len(written) + 1) /\ next_id'[t] = next_id[t]
  BY <1>1 DEF EpochInv
<1>4. (\A k : Epoch(t, k)' <=> Epoch(t, k)) /\ Epoch(t, Len(written) + 1)'
  BY <1>1, <1>3, EpochKept
<1> QED BY <1>1, <1>2, <1>4 DEF Untouched

-----------------------------------------------------------------------------
\* One round of the loop of main_write(): what the receiver gets, and what the sender
\* makes of it.
Vanishes(o) == o \notin Believed /\ Leaves

Happens(s, m, q, o, c, d) ==
  /\ s \in Senders /\ m = job[s].msg /\ q = job[s].msgCount /\ o \in Outcomes
  /\ job[s].phase = "sending" /\ m # 0
  /\ m \in 1..Len(written) /\ q \in 0..(N(m) - 1) /\ N(m) \in Nat \ {0}
  /\ UNCHANGED << written, next_id, attempts, restarts >>
  /\ JobAfter(s, m, q, o)
  /\ Handled(s, m, q, d) \/ (Vanishes(o) /\ d = c)

\* The frame that is sent.
LEMMA SendsReady ==
  ASSUME Basis, NEW s \in Senders, NEW o, SendFrame(s, o), NEW garbage, NEW f, f = Frame(s, garbage),
         NEW c, BytesInv(s, c), DeliveryOf(s, c)
  PROVE  Comes(s, job[s].msg, job[s].msgCount, f, c)
<1>1. PICK m, q : m = job[s].msg /\ q = job[s].msgCount
  OBVIOUS
<1>2. Types /\ JobInv(s)
  BY DEF Basis, SenderInv
<1>3. /\ job[s].phase = "sending"
      /\ UNCHANGED << written, next_id, attempts, restarts >>
  BY <1>2, SendStep
<1>4. /\ m \in 1..Len(written) /\ written[m].from = s /\ q \in 0..(N(m) - 1)
      /\ written[m].len <= MAX_PAYLOAD_SIZE /\ FrameIs(f, s, m, q)
  BY <1>1, <1>2, <1>3, FrameSent DEF Of
<1>5. N(m) \in Nat \ {0}
  BY <1>2, <1>4, WrittenMessage
<1> QED BY <1>1, <1>3, <1>4, <1>5 DEF Comes, Sends

\* It arrives or not.
LEMMA SendHappens ==
  ASSUME NEW s, NEW m, NEW q, NEW f, NEW c, Comes(s, m, q, f, c), NEW o, SendFrame(s, o),
         NEW d, IF o \in Arriving THEN Handled(s, m, q, d) ELSE Vanish(f, o) /\ d = c
  PROVE  Happens(s, m, q, o, c, d)
<1>1. /\ Types /\ Copies(m) <= attempts[m] /\ Free(m, q, c) /\ Harmless(s, m, c, Stale(s))
      /\ MsgOf(f) = m /\ m # 0 /\ m \in 1..Len(written) /\ q \in 0..(N(m) - 1)
      /\ N(m) \in Nat \ {0} /\ s \in Senders /\ restarts' = restarts
  BY SendsInv
<1>2. /\ m = job[s].msg /\ q = job[s].msgCount /\ job[s].phase = "sending"
      /\ UNCHANGED << written, next_id, attempts, restarts >> /\ JobInv(s)
  BY <1>1 DEF Comes, Sends, Basis, SenderInv
<1>3. JobAfter(s, m, q, o) /\ o \in Outcomes
  BY <1>1, <1>2, SendStep
<1>4. Handled(s, m, q, d) \/ (Vanishes(o) /\ d = c)
  <2>1. CASE o \in Arriving
    BY <2>1
  <2>2. CASE o = "queued"
    <3>1. Swallow(f) /\ d = c
      BY <2>2 DEF Arriving, Vanish
    <3>2. Spoils(m)
      BY <1>1, <3>1, SwallowSpoils
    <3>3. Copies(m)' = Copies(m) /\ Stale(s)' = Stale(s) /\ Spoilt(m)'
      BY <1>1, <3>2 DEF Spoils
    <3>4. Copies(m) < attempts[m] \/ (q > 0 /\ ~Filled(c))
      BY <1>1 DEF Free
    <3> QED BY <1>1, <3>1, <3>2, <3>3, <3>4 DEF Handled
  <2>3. CASE o \notin Arriving /\ o # "queued"
    <3>1. Nothing /\ d = c
      BY <2>3 DEF Vanish
    <3>2. Leaves
      BY <1>1, <3>1, NothingLeaves
    <3>3. o \notin Believed
      BY <2>3 DEF Believed, Arriving
    <3> QED BY <3>1, <3>2, <3>3 DEF Vanishes
  <2> QED BY <2>1, <2>2, <2>3
<1> QED BY <1>1, <1>2, <1>3, <1>4 DEF Happens

\* To the other senders nothing happens.
LEMMA OthersUntouched ==
  ASSUME Basis, NEW s, NEW m, NEW q, NEW o, NEW c, NEW d, Happens(s, m, q, o, c, d),
         NEW t \in Senders \ {s}, EpochInv(t)
  PROVE  Untouched(t)
<1>1. PICK x : x = job[t].msg
  OBVIOUS
<1>2. /\ Types /\ s \in Senders /\ m = job[s].msg /\ m # 0
      /\ UNCHANGED << written, next_id, attempts, restarts >>
  BY DEF Basis, SenderInv, Happens
<1>3. x # 0 => x \in 1..Len(written) /\ written[x].from = t /\ x # m
  BY <1>1, <1>2, OwnMessages
<1>4. x # 0 => x \in Msg
  BY <1>2, <1>3, WrittenMessage
<1>5. job'[t] = job[t] /\ (x # 0 => outcome'[x] = outcome[x])
  <2>1. outcome \in [ Msg -> Results ]
    BY <1>2 DEF Types
  <2> QED BY <1>3, <1>4, <2>1 DEF Happens, JobAfter
<1>6. /\ Stale(t)' = Stale(t)
      /\ x # 0 => Copies(x)' = Copies(x) /\ (Spoilt(x)' <=> Spoilt(x))
  BY <1>3 DEF Happens, Handled, Vanishes, Delivers, Mixes, Spoils, Leaves
<1>7. /\ \A k : Epoch(t, k)' <=> Epoch(t, k)
      /\ Epoch(t, Len(written) + 1)'
  <2>1. Epoch(t, Len(written) + 1) /\ next_id'[t] = next_id[t]
    BY <1>2 DEF EpochInv
  <2> QED BY <1>2, <2>1, EpochKept
<1> QED BY <1>1, <1>2, <1>5, <1>6, <1>7 DEF Untouched

\* The sender's own part of the invariant.
LEMMA DeliverySend ==
  ASSUME Basis, NEW s, NEW m, NEW q, NEW o, NEW c, NEW d, Happens(s, m, q, o, c, d),
         DeliveryOf(s, c)
  PROVE  DeliveryOf(s, d)'
<1>1. /\ Types /\ EpochInv(s) /\ EntryInv(s, c) /\ CallInv(s, c) /\ Stale(s) \in Int
  BY StaleInt DEF Basis, SenderInv, DeliveryOf
<1>2. /\ UNCHANGED << written, next_id, attempts, restarts >> /\ m # 0 /\ s \in Senders
      /\ m = job[s].msg /\ q = job[s].msgCount
      /\ m \in 1..Len(written) /\ q \in 0..(N(m) - 1) /\ N(m) \in Nat \ {0}
      /\ JobAfter(s, m, q, o) /\ job[s].phase = "sending" /\ job'[s].msg = m
      /\ Handled(s, m, q, d) \/ (Vanishes(o) /\ d = c)
  BY DEF Happens, JobAfter
<1>3. /\ m \in Msg /\ outcome \in [ Msg -> Results ] /\ Len(written) \in Nat
      /\ attempts[m] \in Nat /\ Copies(m) \in Nat
  BY <1>1, <1>2, WrittenMessage, PlacesFinite DEF Types
<1>4. /\ \A k : Epoch(s, k)' <=> Epoch(s, k)
      /\ Epoch(s, Len(written) + 1)'
  BY <1>1, <1>2, EpochKept DEF EpochInv
<1>5. EpochInv(s)'
  BY <1>1, <1>2, <1>4 DEF EpochInv
<1>6. (\A e, i : BegunAt(e, m, i)' <=> BegunAt(e, m, i)) /\ N(m)' = N(m)
  BY <1>2, SameMessage
<1>7. EntryInv(s, d)'
  <2>1. Harmless(s, m, d, Stale(s)')
    <3>1. CASE Handled(s, m, q, d)
      BY <3>1 DEF Handled
    <3>2. CASE Vanishes(o) /\ d = c
      BY <1>1, <1>2, <3>2 DEF Vanishes, Leaves, EntryInv, Harmless
    <3> QED BY <1>2, <3>1, <3>2
  <2>2. Stale(s)' >= 0
    BY <1>1, <1>2 DEF EntryInv, Handled, Vanishes, Delivers, Mixes, Spoils, Leaves
  <2>3. Filled(d) => /\ Stale(s)' >= 1 \/ Epoch(s, MsgOf(d))'
                     /\ MsgOf(d) = m => N(m)' = 1 \/ BegunAt(d, m, 1)'
    BY <1>4, <1>6, <2>1 DEF Harmless
  <2> QED BY <1>2, <2>2, <2>3 DEF EntryInv, Harmless
<1>8. CallInv(s, d)'
  <2>1. /\ Copies(m) <= attempts[m] /\ outcome[m] = "pending"
        /\ Free(m, q, c) /\ Backed(m, q, c)
    BY <1>1, <1>2 DEF CallInv
  <2>2. Copies(m)' <= attempts'[m]
    BY <1>2, <2>1 DEF Handled, Vanishes, Leaves
  <2>3. CASE job'[s].phase = "idle"
    BY <1>2, <2>2, <2>3 DEF CallInv
  <2>4. CASE job'[s].phase = "failed" /\ outcome' = [ outcome EXCEPT ![m] = "false" ]
    BY <1>2, <1>3, <2>2, <2>4 DEF CallInv
  <2>5. CASE /\ job'[s].phase = "sending" /\ outcome' = outcome
             /\ o \in Believed /\ q # N(m) - 1 /\ job'[s].msgCount = q + 1
    <3>1. Handled(s, m, q, d) /\ N(m) # 1 /\ q + 1 > 0 /\ (q > 0 => q + 1 > 0)
      BY <1>2, <2>5 DEF Vanishes
    <3>2. Free(m, q + 1, d)'
      BY <1>2, <3>1 DEF Handled, Free
    <3>3. Backed(m, q + 1, d)'
      BY <1>2, <1>6, <3>1 DEF Handled, Backed
    <3> QED BY <1>2, <2>1, <2>2, <2>5, <3>2, <3>3 DEF CallInv
  <2>6. CASE /\ job'[s].phase = "sending" /\ outcome' = outcome
             /\ o \notin Believed /\ N(m) # 1 /\ job'[s].msgCount = q
    <3>1. Free(m, q, d)'
      <4>1. CASE Handled(s, m, q, d)
        BY <1>2, <2>6, <4>1 DEF Handled, Free
      <4>2. CASE Vanishes(o) /\ d = c
        BY <1>2, <2>1, <4>2 DEF Vanishes, Leaves, Free
      <4> QED BY <1>2, <4>1, <4>2
    <3>2. Backed(m, q, d)'
      <4>1. CASE Handled(s, m, q, d)
        <5>1. BegunAt(d, m, q + 1) => BegunAt(d, m, q)
          <6>1. \A i \in (q + 1)..(N(m) - 1) : i \in q..(N(m) - 1)
            BY <1>2
          <6> QED BY <6>1 DEF BegunAt
        <5> QED BY <1>6, <4>1, <5>1 DEF Handled, Backed
      <4>2. CASE Vanishes(o) /\ d = c
        BY <1>6, <2>1, <4>2 DEF Vanishes, Leaves, Backed
      <4> QED BY <1>2, <4>1, <4>2
    <3> QED BY <1>2, <2>1, <2>2, <2>6, <3>1, <3>2 DEF CallInv
  <2> QED BY <1>2, <2>3, <2>4, <2>5, <2>6 DEF JobAfter
<1> QED BY <1>5, <1>7, <1>8 DEF DeliveryOf

-----------------------------------------------------------------------------
(***************************************************************************)
(* The steps of MessageDelivery.                                           *)
(***************************************************************************)

\* What it sees of a sender.
Shows(s) ==
  LET m == job[s].msg
  IN  /\ current[s] = m /\ stale[s] = Stale(s)
      /\ m = 0 => calls[s] = 0 /\ copies[s] = 0
      /\ m # 0 => calls[s] = attempts[m] /\ copies[s] = Copies(m)

ShowsTrue(s) ==
  LET m == job[s].msg
  IN  /\ busy[s] = (job[s].phase = "sending")
      /\ result[s] = (m # 0 /\ outcome[m] = "true")
      /\ spoilt[s] = (m # 0 /\ Spoilt(m))

LEMMA Shown ==
  ASSUME NEW s \in Senders
  PROVE  Shows(s) /\ Shows(s)' /\ ShowsTrue(s) /\ ShowsTrue(s)'
<1>1. Shows(s)
  BY DEF Shows, current, calls, copies, stale, Current, Copies, Stale
<1>2. Shows(s)'
  BY DEF Shows, current, calls, copies, stale, Current, Copies, Stale
<1>3. ShowsTrue(s)
  BY Zenon DEF ShowsTrue, busy, result, spoilt, Current
<1>4. ShowsTrue(s)'
  BY Zenon DEF ShowsTrue, busy, result, spoilt, Current
<1> QED BY <1>1, <1>2, <1>3, <1>4

\* A step of sender s changes nothing of the others.
LEMMA OnlyOne ==
  ASSUME NEW f, NEW g, f = [ t \in Senders |-> f[t] ], g = [ t \in Senders |-> g[t] ],
         NEW s \in Senders, \A t \in Senders \ {s} : g[t] = f[t]
  PROVE  /\ \A v : g[s] = v => g = [ f EXCEPT ![s] = v ]
         /\ g[s] = f[s] => g = f
OBVIOUS

Only(s) ==
  /\ \A v : current'[s] = v => current' = [ current EXCEPT ![s] = v ]
  /\ \A v : busy'[s] = v => busy' = [ busy EXCEPT ![s] = v ]
  /\ \A v : result'[s] = v => result' = [ result EXCEPT ![s] = v ]
  /\ \A v : calls'[s] = v => calls' = [ calls EXCEPT ![s] = v ]
  /\ \A v : copies'[s] = v => copies' = [ copies EXCEPT ![s] = v ]
  /\ \A v : spoilt'[s] = v => spoilt' = [ spoilt EXCEPT ![s] = v ]
  /\ \A v : stale'[s] = v => stale' = [ stale EXCEPT ![s] = v ]
  /\ current'[s] = current[s] => current' = current
  /\ busy'[s] = busy[s] => busy' = busy
  /\ result'[s] = result[s] => result' = result
  /\ calls'[s] = calls[s] => calls' = calls
  /\ copies'[s] = copies[s] => copies' = copies
  /\ spoilt'[s] = spoilt[s] => spoilt' = spoilt
  /\ stale'[s] = stale[s] => stale' = stale

LEMMA OnlyThisSender ==
  ASSUME NEW s \in Senders, \A t \in Senders \ {s} : Untouched(t)
  PROVE  Only(s)
<1>1. ASSUME NEW t \in Senders \ {s}
      PROVE  /\ current'[t] = current[t] /\ calls'[t] = calls[t] /\ copies'[t] = copies[t]
             /\ stale'[t] = stale[t]
  <2>1. Shows(t) /\ Shows(t)' /\ Untouched(t)
    BY Shown
  <2> QED BY <2>1 DEF Shows, Untouched
<1>2. ASSUME NEW t \in Senders \ {s}
      PROVE  busy'[t] = busy[t] /\ result'[t] = result[t] /\ spoilt'[t] = spoilt[t]
  <2>1. ShowsTrue(t) /\ ShowsTrue(t)' /\ Untouched(t)
    BY Shown
  <2>2. busy'[t] = busy[t]
    BY <2>1, Zenon DEF ShowsTrue, Untouched
  <2>3. result'[t] = result[t]
    BY <2>1, Zenon DEF ShowsTrue, Untouched
  <2>4. spoilt'[t] = spoilt[t]
    BY <2>1, Zenon DEF ShowsTrue, Untouched
  <2> QED BY <2>2, <2>3, <2>4
<1>3. /\ current = [ t \in Senders |-> current[t] ] /\ current' = [ t \in Senders |-> current'[t] ]
      /\ calls = [ t \in Senders |-> calls[t] ] /\ calls' = [ t \in Senders |-> calls'[t] ]
      /\ copies = [ t \in Senders |-> copies[t] ] /\ copies' = [ t \in Senders |-> copies'[t] ]
      /\ stale = [ t \in Senders |-> stale[t] ] /\ stale' = [ t \in Senders |-> stale'[t] ]
  BY DEF current, calls, copies, stale
<1>4. /\ busy = [ t \in Senders |-> busy[t] ] /\ busy' = [ t \in Senders |-> busy'[t] ]
      /\ result = [ t \in Senders |-> result[t] ] /\ result' = [ t \in Senders |-> result'[t] ]
      /\ spoilt = [ t \in Senders |-> spoilt[t] ] /\ spoilt' = [ t \in Senders |-> spoilt'[t] ]
  BY DEF busy, result, spoilt
<1>5. /\ \A v : current'[s] = v => current' = [ current EXCEPT ![s] = v ]
      /\ current'[s] = current[s] => current' = current
  BY <1>1, <1>3, OnlyOne
<1>6. /\ \A v : calls'[s] = v => calls' = [ calls EXCEPT ![s] = v ]
      /\ calls'[s] = calls[s] => calls' = calls
  BY <1>1, <1>3, OnlyOne
<1>7. /\ \A v : copies'[s] = v => copies' = [ copies EXCEPT ![s] = v ]
      /\ copies'[s] = copies[s] => copies' = copies
  BY <1>1, <1>3, OnlyOne
<1>8. /\ \A v : stale'[s] = v => stale' = [ stale EXCEPT ![s] = v ]
      /\ stale'[s] = stale[s] => stale' = stale
  BY <1>1, <1>3, OnlyOne
<1>9. /\ \A v : busy'[s] = v => busy' = [ busy EXCEPT ![s] = v ]
      /\ busy'[s] = busy[s] => busy' = busy
  BY <1>2, <1>4, OnlyOne
<1>10. /\ \A v : result'[s] = v => result' = [ result EXCEPT ![s] = v ]
       /\ result'[s] = result[s] => result' = result
  BY <1>2, <1>4, OnlyOne
<1>11. /\ \A v : spoilt'[s] = v => spoilt' = [ spoilt EXCEPT ![s] = v ]
       /\ spoilt'[s] = spoilt[s] => spoilt' = spoilt
  BY <1>2, <1>4, OnlyOne
<1> QED BY <1>5, <1>6, <1>7, <1>8, <1>9, <1>10, <1>11 DEF Only

-----------------------------------------------------------------------------
\* The initial state is one of MessageDelivery.
LEMMA InitMaps == SenderInit => Abstract!Init
<1> SUFFICES ASSUME SenderInit PROVE Abstract!Init
  OBVIOUS
<1>1. /\ \A s \in Senders : job[s] = Idle
      /\ written = << >> /\ restarts = << >> /\ delivered = << >>
  BY DEF SenderInit
<1>2. Idle.msg = 0 /\ Idle.phase = "idle"
  BY DEF Idle
<1>3. ASSUME NEW s \in Senders PROVE stale[s] = 0
  <2>1. Mixed(s) = {} /\ { i \in DOMAIN restarts : restarts[i] = s } = {}
    BY <1>1 DEF Mixed, Places
  <2>2. Stale(s) = 0
    BY <2>1, FS_EmptySet DEF Stale
  <2> QED BY <2>2, Shown DEF Shows
<1>4. current = [ s \in Senders |-> 0 ]
  BY <1>1, <1>2 DEF current, Current
<1>5. busy = [ s \in Senders |-> FALSE ]
  BY <1>1, <1>2, Zenon DEF busy
<1>6. result = [ s \in Senders |-> FALSE ]
  BY <1>1, <1>2, Zenon DEF result, Current
<1>7. calls = [ s \in Senders |-> 0 ]
  BY <1>1, <1>2 DEF calls, Current
<1>8. copies = [ s \in Senders |-> 0 ]
  BY <1>1, <1>2 DEF copies, Current
<1>9. spoilt = [ s \in Senders |-> FALSE ]
  BY <1>1, <1>2, Zenon DEF spoilt, Current
<1>10. stale = [ s \in Senders |-> 0 ]
  BY <1>3 DEF stale
<1>11. count = 0 /\ inbox = << >>
  BY <1>1 DEF count, inbox
<1> QED BY <1>4, <1>5, <1>6, <1>7, <1>8, <1>9, <1>10, <1>11 DEF Abstract!Init, Abstract!All

\* A message is written.
LEMMA WriteMaps ==
  ASSUME Basis, NEW s \in Senders, NEW len \in Lens, NEW type \in MsgTypes,
         Write(s, len, type), Nothing, \A t \in Senders \ {s} : Untouched(t)
  PROVE  Abstract!Write(s)
<1>1. PICK m : m = Len(written) + 1
  OBVIOUS
<1>2. Types
  BY DEF Basis, SenderInv
<1>3. /\ Len(written) \in Nat /\ Len(written)' = m /\ m \in Msg /\ m # 0 /\ MaxMsgs \in Nat
      /\ outcome \in [ Msg -> Results ] /\ attempts \in [ Msg -> Nat ]
  BY <1>1, <1>2, WriteAppends, FragmentsAssumption DEF Types
<1>4. /\ job[s].phase # "sending" /\ job'[s].msg = m
      /\ attempts'[m] = 1 /\ outcome'[m] # "true"
      /\ UNCHANGED << restarts, delivered, swallowed >>
  <2>1. attempts' = [ attempts EXCEPT ![m] = 1 ] /\ job[s].phase # "sending"
    BY <1>1 DEF Write
  <2>2. /\ outcome' = [ outcome EXCEPT ![m] = "pending" ] \/ outcome' = [ outcome EXCEPT ![m] = "false" ]
        /\ UNCHANGED << restarts, delivered, swallowed >>
    BY <1>1 DEF Write, Nothing
  <2>3. job'[s].msg = m
    BY <1>1, <1>2, WriteJobs
  <2> QED BY <1>3, <2>1, <2>2, <2>3
<1>5. Copies(m)' = 0 /\ ~Spoilt(m)' /\ Stale(s)' = Stale(s)
  BY <1>1, <1>2, <1>4, NewMessage, SameQueues
<1>6. Only(s)
  BY OnlyThisSender
<1>7. Shows(s) /\ Shows(s)' /\ ShowsTrue(s) /\ ShowsTrue(s)'
  BY Shown
<1>8. /\ count < MaxMsgs /\ count' = count + 1 /\ count + 1 = m /\ inbox' = inbox
  BY <1>1, <1>3, <1>4 DEF count, inbox, Msg
<1>9. /\ current'[s] = m /\ calls'[s] = 1 /\ copies'[s] = 0 /\ stale'[s] = stale[s]
  BY <1>3, <1>4, <1>5, <1>7 DEF Shows
<1>10. ~busy[s] /\ result'[s] = FALSE /\ spoilt'[s] = FALSE
  BY <1>4, <1>5, <1>7, Zenon DEF ShowsTrue
<1>11. busy'[s] \in BOOLEAN
  BY <1>7, Zenon DEF ShowsTrue
<1>12. \E b \in BOOLEAN : busy' = [ busy EXCEPT ![s] = b ]
  BY <1>6, <1>11 DEF Only
<1>13. /\ current' = [ current EXCEPT ![s] = m ]
       /\ calls' = [ calls EXCEPT ![s] = 1 ]
       /\ copies' = [ copies EXCEPT ![s] = 0 ]
       /\ result' = [ result EXCEPT ![s] = FALSE ]
       /\ spoilt' = [ spoilt EXCEPT ![s] = FALSE ]
       /\ stale' = stale
  BY <1>6, <1>9, <1>10 DEF Only
<1> QED BY <1>8, <1>10, <1>12, <1>13 DEF Abstract!Write

\* It is written again.
LEMMA RetryMaps ==
  ASSUME Basis, NEW s \in Senders, Retry(s), Forget(job[s].msg), NEW c, CallInv(s, c),
         \A t \in Senders \ {s} : Untouched(t)
  PROVE  Abstract!Retry(s)
<1>1. PICK m : m = job[s].msg
  OBVIOUS
<1>2. Types /\ JobInv(s) /\ CallInv(s, c)
  BY DEF Basis, SenderInv
<1>3. /\ m # 0 /\ m \in Msg /\ outcome[m] = "false" /\ job[s].phase = "failed"
      /\ outcome \in [ Msg -> Results ] /\ attempts \in [ Msg -> Nat ]
  <2>1. m # 0 /\ m \in 1..Len(written) /\ job[s].phase = "failed"
    BY <1>1, <1>2 DEF Retry, JobInv
  <2>2. m \in Msg
    BY <1>2, <2>1, WrittenMessage
  <2> QED BY <1>1, <1>2, <2>1, <2>2 DEF Types, CallInv
<1>4. /\ job'[s].msg = m /\ job'[s].phase = "sending"
      /\ attempts'[m] = attempts[m] + 1 /\ outcome'[m] = "pending"
      /\ UNCHANGED << written, restarts, delivered >>
      /\ swallowed' = swallowed \ {m}
  <2>1. PICK b : b = Begin(m, written[m].len)
    OBVIOUS
  <2>2. /\ job' = [ job EXCEPT ![s] = b ]
        /\ attempts' = [ attempts EXCEPT ![m] = @ + 1 ]
        /\ outcome' = [ outcome EXCEPT ![m] = "pending" ]
        /\ UNCHANGED << written, restarts, delivered >>
        /\ swallowed' = swallowed \ {m}
    BY <1>1, <2>1 DEF Retry, Forget
  <2>3. b.msg = m /\ b.phase = "sending" /\ job \in [ Senders -> Job ]
    BY <1>2, <2>1 DEF Begin, Types
  <2> QED BY <1>3, <2>2, <2>3
<1>5. /\ Copies(m)' = Copies(m) /\ Stale(s)' = Stale(s)
      /\ Spoilt(m)' => Spoilt(m)
  <2>1. Copies(m)' = Copies(m) /\ Stale(s)' = Stale(s) /\ Places(0)' = Places(0)
    BY <1>4, SameQueues
  <2> QED BY <1>4, <2>1 DEF Spoilt
<1>6. Only(s)
  BY OnlyThisSender
<1>7. Shows(s) /\ Shows(s)' /\ ShowsTrue(s) /\ ShowsTrue(s)'
  BY Shown
<1>8. count' = count /\ inbox' = inbox
  BY <1>4 DEF count, inbox
<1>9. /\ current[s] = m /\ current'[s] = m /\ calls'[s] = calls[s] + 1
      /\ copies'[s] = copies[s] /\ stale'[s] = stale[s]
  BY <1>1, <1>3, <1>4, <1>5, <1>7 DEF Shows
<1>10. ~busy[s] /\ busy'[s] = TRUE
  <2>1. job[s].phase # "sending"
    BY <1>3
  <2> QED BY <1>4, <1>7, <2>1, Zenon DEF ShowsTrue
<1>11. result[s] = FALSE /\ result'[s] = FALSE
  <2>1. outcome[m] # "true" /\ outcome'[m] # "true"
    BY <1>3, <1>4
  <2> QED BY <1>1, <1>4, <1>7, <2>1, Zenon DEF ShowsTrue
<1>12. spoilt'[s] = FALSE \/ spoilt'[s] = spoilt[s]
  BY <1>1, <1>3, <1>4, <1>5, <1>7, Zenon DEF ShowsTrue
<1>13. \E b \in { FALSE, spoilt[s] } : spoilt' = [ spoilt EXCEPT ![s] = b ]
  BY <1>6, <1>12 DEF Only
<1>14. /\ calls' = [ calls EXCEPT ![s] = calls[s] + 1 ]
       /\ busy' = [ busy EXCEPT ![s] = TRUE ]
       /\ current' = current /\ result' = result /\ copies' = copies /\ stale' = stale
  BY <1>6, <1>9, <1>10, <1>11 DEF Only
<1> QED BY <1>3, <1>8, <1>9, <1>10, <1>11, <1>13, <1>14 DEF Abstract!Retry

\* A sender restarts.
LEMMA RebootMaps ==
  ASSUME Basis, NEW s \in Senders, Reboot(s), Nothing,
         \A t \in Senders \ {s} : Untouched(t)
  PROVE  Abstract!Reboot(s)
<1>1. Types
  BY DEF Basis, SenderInv
<1>2. /\ job'[s] = Idle /\ Idle.msg = 0 /\ Idle.phase = "idle"
      /\ restarts' = Append(restarts, s)
      /\ UNCHANGED << written, delivered, swallowed >>
  BY <1>1 DEF Reboot, Nothing, Types, Idle
<1>3. Stale(s)' = Stale(s) + 1
  BY <1>1, <1>2, SameQueues, RestartStale
<1>4. Only(s)
  BY OnlyThisSender
<1>5. Shows(s) /\ Shows(s)' /\ ShowsTrue(s) /\ ShowsTrue(s)'
  BY Shown
<1>6. count' = count /\ inbox' = inbox
  BY <1>2 DEF count, inbox
<1>7. /\ current'[s] = 0 /\ calls'[s] = 0 /\ copies'[s] = 0 /\ stale'[s] = stale[s] + 1
  BY <1>2, <1>3, <1>5 DEF Shows
<1>8. job'[s].phase # "sending" /\ job'[s].msg = 0
  BY <1>2
<1>9. busy'[s] = FALSE /\ result'[s] = FALSE /\ spoilt'[s] = FALSE
  BY <1>5, <1>8, Zenon DEF ShowsTrue
<1>10. /\ current' = [ current EXCEPT ![s] = 0 ]
       /\ calls' = [ calls EXCEPT ![s] = 0 ]
       /\ copies' = [ copies EXCEPT ![s] = 0 ]
       /\ busy' = [ busy EXCEPT ![s] = FALSE ]
       /\ result' = [ result EXCEPT ![s] = FALSE ]
       /\ spoilt' = [ spoilt EXCEPT ![s] = FALSE ]
       /\ stale' = [ stale EXCEPT ![s] = stale[s] + 1 ]
  BY <1>4, <1>7, <1>9 DEF Only
<1> QED BY <1>6, <1>10 DEF Abstract!Reboot

\* A frame is sent, and received or not.
LEMMA ProgressMaps ==
  ASSUME Basis, NEW s, NEW m, NEW q, NEW o, NEW c, NEW d, Happens(s, m, q, o, c, d),
         DeliveryOf(s, c), \A t \in Senders \ {s} : Untouched(t)
  PROVE  Abstract!Progress(s)
<1>1. m = job[s].msg /\ q = job[s].msgCount /\ s \in Senders
  BY DEF Happens
<1>2. /\ Types /\ CallInv(s, c) /\ Stale(s) \in Int
  BY StaleInt DEF Basis, SenderInv, DeliveryOf
<1>3. /\ UNCHANGED << written, attempts, restarts >> /\ m # 0
      /\ m \in 1..Len(written) /\ q \in 0..(N(m) - 1)
      /\ JobAfter(s, m, q, o) /\ job[s].phase = "sending" /\ job'[s].msg = m
      /\ Handled(s, m, q, d) \/ Vanishes(o)
  BY DEF Happens, JobAfter
<1>4. /\ m \in Msg /\ outcome \in [ Msg -> Results ] /\ outcome[m] = "pending"
      /\ Copies(m) \in Nat /\ delivered \in Seq(Delivery)
  BY <1>1, <1>2, <1>3, WrittenMessage, PlacesFinite DEF Types, CallInv
<1>5. Only(s)
  BY <1>1, OnlyThisSender
<1>6. Shows(s) /\ Shows(s)' /\ ShowsTrue(s) /\ ShowsTrue(s)'
  BY <1>1, Shown
<1>7. /\ current[s] = m /\ current'[s] = m /\ calls'[s] = calls[s] /\ calls[s] = attempts[m]
      /\ copies[s] = Copies(m) /\ copies'[s] = Copies(m)'
      /\ stale[s] = Stale(s) /\ stale'[s] = Stale(s)'
  BY <1>1, <1>3, <1>6 DEF Shows
<1>8. busy[s] /\ (Spoilt(m)' => spoilt'[s])
  BY <1>1, <1>3, <1>6, Zenon DEF ShowsTrue
<1>9. count' = count /\ current' = current /\ calls' = calls
  BY <1>3, <1>5, <1>7 DEF count, Only
<1>10. Abstract!Deliver(s) \/ Abstract!DeliverMixed(s) \/ Abstract!Proceed(s)
  <2>1. CASE Delivers(m) /\ Copies(m) < attempts[m]
    <3>1. PICK e \in Delivery : delivered' = Append(delivered, e) /\ e.msg = m
      BY <2>1 DEF Delivers
    <3>2. inbox' = Append(inbox, current[s])
      BY <1>4, <1>7, <3>1, InboxGrows
    <3>3. copies[s] < calls[s] /\ copies'[s] = copies[s] + 1 /\ stale'[s] = stale[s]
      BY <1>1, <1>4, <1>7, <2>1 DEF Delivers
    <3>4. spoilt'[s] = spoilt[s]
      <4>1. Spoilt(m)' <=> Spoilt(m)
        BY <2>1 DEF Delivers
      <4> QED BY <1>1, <1>3, <1>6, <4>1, Zenon DEF ShowsTrue
    <3>5. copies' = [ copies EXCEPT ![s] = copies[s] + 1 ] /\ stale' = stale /\ spoilt' = spoilt
      BY <1>5, <3>3, <3>4 DEF Only
    <3> QED BY <3>2, <3>3, <3>5 DEF Abstract!Deliver
  <2>2. CASE Mixes(s, m) /\ Stale(s) >= 1
    <3>1. PICK e \in Delivery : delivered' = Append(delivered, e) /\ e.msg = 0
      BY <2>2 DEF Mixes
    <3>2. inbox' = Append(inbox, 0)
      BY <1>4, <3>1, InboxGrows
    <3>3. stale[s] > 0 /\ stale'[s] = stale[s] - 1 /\ copies'[s] = copies[s]
      BY <1>2, <1>3, <1>7, <2>2 DEF Mixes
    <3>4. spoilt'[s] = TRUE
      <4>1. Spoilt(m)'
        BY <2>2 DEF Mixes
      <4> QED BY <1>3, <1>6, <4>1, Zenon DEF ShowsTrue
    <3>5. /\ stale' = [ stale EXCEPT ![s] = stale[s] - 1 ] /\ copies' = copies
          /\ spoilt' = [ spoilt EXCEPT ![s] = TRUE ]
      BY <1>5, <3>3, <3>4 DEF Only
    <3> QED BY <3>2, <3>3, <3>5 DEF Abstract!DeliverMixed
  <2>3. CASE Spoils(m) \/ Leaves
    <3>1. inbox' = inbox
      BY <2>3 DEF Spoils, Leaves, inbox
    <3>2. copies'[s] = copies[s] /\ stale'[s] = stale[s]
      BY <1>1, <1>7, <2>3 DEF Spoils, Leaves, Happens
    <3>3. spoilt'[s] = TRUE \/ spoilt'[s] = spoilt[s]
      <4>1. Spoilt(m)' \/ (Spoilt(m)' <=> Spoilt(m))
        BY <2>3 DEF Spoils, Leaves
      <4> QED BY <1>1, <1>3, <1>6, <4>1, Zenon DEF ShowsTrue
    <3>4. \E b \in { TRUE, spoilt[s] } : spoilt' = [ spoilt EXCEPT ![s] = b ]
      BY <1>5, <3>3 DEF Only
    <3>5. copies' = copies /\ stale' = stale
      BY <1>5, <3>2 DEF Only
    <3> QED BY <3>1, <3>4, <3>5 DEF Abstract!Proceed
  <2> QED BY <1>3, <2>1, <2>2, <2>3 DEF Handled, Vanishes
<1>11. UNCHANGED << busy, result >> \/ \E ok \in BOOLEAN : Abstract!Return(s, ok)
  <2>1. CASE /\ o \in Believed /\ q = N(m) - 1
             /\ job'[s].phase = "idle" /\ outcome' = [ outcome EXCEPT ![m] = "true" ]
    <3>1. outcome'[m] = "true" /\ job'[s].phase # "sending"
      BY <1>4, <2>1
    <3>2. busy'[s] = FALSE /\ result'[s] = TRUE
      BY <1>3, <1>6, <3>1, Zenon DEF ShowsTrue
    <3>3. busy' = [ busy EXCEPT ![s] = FALSE ] /\ result' = [ result EXCEPT ![s] = TRUE ]
      BY <1>5, <3>2 DEF Only
    <3>4. Copies(m)' > 0 \/ Spoilt(m)'
      BY <1>3, <2>1 DEF Vanishes, Handled
    <3>5. copies'[s] > 0 \/ spoilt'[s]
      BY <1>7, <1>8, <3>4
    <3> QED BY <3>3, <3>5 DEF Abstract!Return
  <2>2. CASE job'[s].phase = "failed" /\ outcome' = [ outcome EXCEPT ![m] = "false" ]
    <3>1. outcome'[m] # "true" /\ job'[s].phase # "sending"
      BY <1>4, <2>2
    <3>2. busy'[s] = FALSE /\ result'[s] = FALSE
      BY <1>3, <1>6, <3>1, Zenon DEF ShowsTrue
    <3>3. busy' = [ busy EXCEPT ![s] = FALSE ] /\ result' = [ result EXCEPT ![s] = FALSE ]
      BY <1>5, <3>2 DEF Only
    <3> QED BY <3>3 DEF Abstract!Return
  <2>3. CASE job'[s].phase = "sending" /\ outcome' = outcome
    <3>1. busy'[s] = busy[s] /\ result'[s] = result[s]
      BY <1>1, <1>3, <1>6, <2>3, Zenon DEF ShowsTrue
    <3> QED BY <1>5, <3>1 DEF Only
  <2> QED BY <1>3, <2>1, <2>2, <2>3 DEF JobAfter
<1> QED BY <1>8, <1>9, <1>10, <1>11 DEF Abstract!Progress

\* Nothing happens.
LEMMA StaysMaps ==
  ASSUME UNCHANGED << senderVars, delivered, swallowed >>
  PROVE  UNCHANGED Abstract!vars
<1>1. /\ UNCHANGED << job, written, attempts, outcome, restarts, delivered >>
      /\ swallowed' = swallowed
  BY DEF senderVars
<1>2. /\ current' = current /\ calls' = calls /\ copies' = copies /\ stale' = stale
      /\ count' = count /\ inbox' = inbox
  BY <1>1 DEF current, calls, copies, stale, count, inbox, Current, Mixed, Places
<1>3. busy' = busy /\ result' = result /\ spoilt' = spoilt
  BY <1>1 DEF busy, result, spoilt, Current, Spoilt, Places
<1> QED BY <1>2, <1>3 DEF Abstract!vars
=============================================================================
