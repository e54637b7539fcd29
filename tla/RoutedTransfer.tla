---------------------------- MODULE RoutedTransfer ----------------------------
(***************************************************************************)
(* Fragmented messages over two hops: an origin, a router, and a           *)
(* destination with either build of enqueue().  Every fragment is of a     *)
(* type that gets a NETWORK_ACK, so main_write() waits for one after each. *)
(* The router makes them, and they carry nothing that tells which frame    *)
(* they answer: one that comes after its wait has timed out ends the wait  *)
(* for another fragment.                                                   *)
(*                                                                         *)
(* The origin's loop is that of Fragments; what it knows of a frame is the *)
(* outcome of the first hop, and of the wait.  The frame itself goes on    *)
(* its way, also when the origin has given it up.                          *)
(***************************************************************************)
EXTENDS Fragments

CONSTANTS RxDepth      \* frames the RX FIFO of a radio holds (3 on the nRF24)

ASSUME RoutedTransferAssumption == /\ RxDepth \in Nat \ {0}
                                   /\ \E s \in Senders : Senders = { s }
                                   /\ max_frame_payload_size < MAX_PAYLOAD_SIZE
                                   /\ { "ok", "lost" } \subseteq Outcomes

VARIABLES build,       \* of the destination: "linux" or "mcu"
          cache,       \* its frameFragmentsCache
          frag_queue,  \* or its frag_queue
          atRouter,    \* the RX FIFO of the router
          atOrigin,    \* the NETWORK_ACKs in that of the origin: the frame each answers
          waiting,     \* the origin waits in write()
          fast,        \* FLAG_FAST_FRAG of the origin
          deceived     \* history: messages one of whose waits took another frame's answer

Linux == INSTANCE LinuxTransfer
Mcu   == INSTANCE McuTransfer WITH MayOverflow <- TRUE

receiver == << cache, frag_queue, delivered, swallowed >>
vars == << senderVars, receiver, build, atRouter, atOrigin, waiting, fast, deceived >>

origin == CHOOSE s \in Senders : TRUE

\* A frame, with the call of write() it was sent in, which the code does not know; and
\* what it is known by: the call, and the message and position of its first byte.
Sending(f) == [ frame |-> f, call |-> attempts[MsgOf(f)] ]
FrameId(x) == << x.call, Head(x.frame.data) >>

TypeOK == /\ Linux!TypeOK /\ Mcu!TypeOK
          /\ build \in { "linux", "mcu" }
          /\ Len(atRouter) <= RxDepth /\ Len(atOrigin) <= RxDepth
          /\ { waiting, fast } \subseteq BOOLEAN
          /\ waiting => job[origin].phase = "sending"
          /\ deceived \subseteq 1..Len(written)

Init == /\ SenderInit
        /\ build \in { "linux", "mcu" }
        /\ Linux!Init /\ Mcu!Init
        /\ atRouter = << >> /\ atOrigin = << >>
        /\ waiting = FALSE /\ fast = FALSE
        /\ deceived = {}

-----------------------------------------------------------------------------
isAckType(type) == type > 64 /\ type < 192

HasRoom(fifo) == Len(fifo) < RxDepth

\* The application writes a message, or one that failed again: of that, swallowed begins
\* anew.
Begins(len) == fast' = (len > max_frame_payload_size)
AppWrite(len, type) ==
  /\ Write(origin, len, type)
  /\ Begins(len)
  /\ UNCHANGED << receiver, build, atRouter, atOrigin, waiting, deceived >>
AppRetry ==
  LET m == job[origin].msg
  IN  /\ Retry(origin)
      /\ Begins(written[m].len)
      /\ deceived' = deceived \ {m}
      /\ Forget(m)
      /\ UNCHANGED << cache, frag_queue, build, atRouter, atOrigin, waiting >>

\* write() of a frame of which the first hop had outcome o.  If the radio believes
\* it sent, the origin waits, and FLAG_FAST_FRAG ends, or for other types is done.
SendHop(o, garbage) ==
  LET f == Frame(origin, garbage)
  IN  /\ job[origin].phase = "sending" /\ ~waiting
      /\ o = "queued" => fast /\ job[origin].fragment_id > 1
      /\ o \in Arriving => HasRoom(atRouter)
      /\ atRouter' = IF o \in Arriving THEN Append(atRouter, Sending(f)) ELSE atRouter
      /\ IF o \in Believed /\ isAckType(f.type)
         THEN /\ waiting' = TRUE /\ fast' = FALSE
              /\ UNCHANGED senderVars
         ELSE /\ SendFrame(origin, IF o \in Believed THEN "ok" ELSE "lost")
              /\ UNCHANGED << waiting, fast >>
      /\ UNCHANGED << receiver, build, atOrigin, deceived >>

\* The wait ends: with the first NETWORK_ACK that update() finds, whatever it answers,
\* or without one.
TakeAnswer ==
  LET m == job[origin].msg
  IN  /\ waiting /\ atOrigin # << >>
      /\ atOrigin' = Tail(atOrigin)
      /\ waiting' = FALSE
      /\ SendFrame(origin, "ok")
      /\ deceived' = IF Head(atOrigin) = FrameId(Sending(Frame(origin, 0))) THEN deceived
                     ELSE deceived \cup {m}
      /\ UNCHANGED << receiver, build, atRouter, fast >>
Timeout ==
  /\ waiting /\ atOrigin = << >>
  /\ waiting' = FALSE
  /\ SendFrame(origin, "lost")
  /\ UNCHANGED << receiver, build, atRouter, atOrigin, fast, deceived >>

\* The application calls update() outside of write(), which returns NETWORK_ACK to it.
DropAnswer ==
  /\ job[origin].phase # "sending" /\ atOrigin # << >>
  /\ atOrigin' = Tail(atOrigin)
  /\ UNCHANGED << senderVars, receiver, build, atRouter, waiting, fast, deceived >>

Enqueue(f) == \/ build = "linux" /\ Linux!Enqueue(f) /\ UNCHANGED frag_queue
              \/ build = "mcu"   /\ Mcu!Enqueue(f)   /\ UNCHANGED cache

\* Whether the router answers a frame that its radio sent with outcome o.
\* MUTATION: also one that was not acknowledged.
Acknowledges_EvenFailed(f, o) == isAckType(f.type)
Acknowledges(f, o) == o = "ok" /\ isAckType(f.type)

\* update() of the router: the frame goes to the destination, and a NETWORK_ACK, which
\* may be lost, back to the origin.
Route(o) ==
  LET f == Head(atRouter).frame
  IN  /\ atRouter # << >>
      /\ o \in Outcomes \ { "queued" }
      /\ atRouter' = Tail(atRouter)
      /\ IF o \in Arriving THEN Enqueue(f) ELSE UNCHANGED receiver
      /\ \/ UNCHANGED atOrigin
         \/ /\ Acknowledges(f, o) /\ HasRoom(atOrigin)
            /\ atOrigin' = Append(atOrigin, FrameId(Head(atRouter)))
      /\ UNCHANGED << senderVars, build, waiting, fast, deceived >>

Next == \/ \E len \in Lens, type \in MsgTypes : AppWrite(len, type)
        \/ AppRetry
        \/ \E o \in Outcomes, garbage \in Mcu!Garbage : SendHop(o, garbage)
        \/ TakeAnswer \/ Timeout \/ DropAnswer
        \/ \E o \in Outcomes : Route(o)

Spec == Init /\ [][Next]_vars
-----------------------------------------------------------------------------
\* However late the frames of an earlier round or call come, the destination has
\* each message at most once for every call of write() (enqueue()).
OncePerWrite == \A m \in 1..Len(written) : Cardinality(Places(m)) <= attempts[m]

\* Since write() was last called for message m, a microcontroller had the whole of it
\* and no room for it in frame_queue: it threw the message away, though its radio had
\* acknowledged the frame and the router answers that.
FoundNoRoom(m) == build = "mcu" /\ m \in swallowed

\* A write() of a message whose frames are all waited for returns true only if the
\* destination has the message, unless one of its waits took the answer to another
\* frame, or the queue of a microcontroller was full (write(), main_write(), enqueue();
\* h:538).
TrueMeansDelivered ==
  \A m \in 1..Len(written) :
    outcome[m] = "true" /\ (isAckType(written[m].type) \/ FrameCount(written[m].len) > 1)
      => Places(m) # {} \/ m \in deceived \/ FoundNoRoom(m)
=============================================================================
