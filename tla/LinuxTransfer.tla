---------------------------- MODULE LinuxTransfer ----------------------------
(***************************************************************************)
(* Messages of several senders to one node that runs the Linux build of    *)
(* enqueue(): a cache with one unfinished message per sender               *)
(* (frameFragmentsCache) in front of unbounded queues.                     *)
(***************************************************************************)
EXTENDS Fragments

VARIABLE cache    \* frameFragmentsCache: the unfinished frame of a sender, or NoFrame

vars == << senderVars, delivered, swallowed, cache >>

NoFrame == [ id |-> 0, type |-> 0, reserved |-> 0, data |-> << >> ]

TypeOK == /\ SenderTypeOK
          /\ \A s \in Senders : /\ cache[s].id \in 0..(IdSpace - 1)
                                /\ Len(cache[s].data) <= MAX_PAYLOAD_SIZE

Init == /\ SenderInit
        /\ cache = [ s \in Senders |-> NoFrame ]

-----------------------------------------------------------------------------
\* The entry of the cache a fragment belongs to.  MUTATION: one for all senders.
Slot_Shared(f) == CHOOSE s \in Senders : TRUE
Slot(f) == f.from

\* appendFragmentToFrame(): whether the cached frame c takes the fragment f, which
\* is not a first one.  MUTATION: the count is not compared.
Fits_AnyCount(c, f) == /\ Len(c.data) + Len(f.data) <= MAX_PAYLOAD_SIZE
                       /\ c.id = f.id
Fits(c, f) == /\ Len(c.data) + Len(f.data) <= MAX_PAYLOAD_SIZE
              /\ c.reserved = IF f.type = NETWORK_LAST_FRAGMENT THEN 2 ELSE f.reserved + 1
              /\ c.id = f.id

IsNewFirst(c, f) == f.type = NETWORK_FIRST_FRAGMENT /\ ~(c # NoFrame /\ c.id = f.id)

IsNext(c, f) == f.type # NETWORK_FIRST_FRAGMENT /\ c # NoFrame /\ Fits(c, f)

\* The cached frame c with the fragment f at its end.  The last fragment brings
\* the type of the message in its field reserved.
Extend(c, f) ==
  LET last == f.type = NETWORK_LAST_FRAGMENT
  IN  [ id       |-> f.id,
        type     |-> IF last THEN f.reserved ELSE f.type,
        reserved |-> IF last THEN 1 ELSE f.reserved,
        data     |-> c.data \o f.data ]

\* frame_queue.push or external_queue.push.
Push(f, c) == Deliver(f.from, c.type, c.data)

\* enqueue() of a frame of another node.
EnqueueWhole(f) == /\ f.type \notin FragmentTypes
                   /\ Push(f, f)
                   /\ UNCHANGED cache

EnqueueFirst(f) == /\ IsNewFirst(cache[Slot(f)], f)
                   /\ cache' = [ cache EXCEPT ![Slot(f)] =
                          [ id |-> f.id, type |-> f.type, reserved |-> f.reserved,
                            data |-> f.data ] ]
                   /\ Nothing

EnqueueMore(f) == /\ f.type = NETWORK_MORE_FRAGMENTS
                  /\ IsNext(cache[Slot(f)], f)
                  /\ cache' = [ cache EXCEPT ![Slot(f)] = Extend(@, f) ]
                  /\ Nothing

\* A complete message leaves the cache, and is pushed if its id is not 0.
EnqueueLast(f) ==
  LET c == Extend(cache[Slot(f)], f)
  IN  /\ f.type = NETWORK_LAST_FRAGMENT
      /\ IsNext(cache[Slot(f)], f)
      /\ IF c.id > 0 /\ c.data # << >> /\ Len(c.data) <= MAX_PAYLOAD_SIZE
         THEN Push(f, c) ELSE Swallow(f)
      /\ cache' = [ cache EXCEPT ![Slot(f)] = NoFrame ]

\* The first fragment of another message than the one in the cache, with its id.
Mistaken(f) == /\ f.type = NETWORK_FIRST_FRAGMENT
               /\ MsgOf(cache[Slot(f)]) # MsgOf(f)

\* A fragment that is a duplicate, out of order or too long is dropped.
Drop(f) == /\ f.type \in FragmentTypes
           /\ ~IsNewFirst(cache[Slot(f)], f) /\ ~IsNext(cache[Slot(f)], f)
           /\ IF Mistaken(f) THEN Swallow(f) ELSE Nothing
           /\ UNCHANGED cache

Enqueue(f) == \/ EnqueueWhole(f) \/ EnqueueFirst(f) \/ EnqueueMore(f)
              \/ EnqueueLast(f) \/ Drop(f)

-----------------------------------------------------------------------------
\* A frame on its way to the receiver.
Transfer(s) ==
  \E o \in Outcomes :
    /\ SendFrame(s, o)
    /\ IF o \in Arriving THEN Enqueue(Frame(s, 0))
       ELSE Vanish(Frame(s, 0), o) /\ UNCHANGED cache

Next == \E s \in Senders :
          \/ \E len \in Lens, type \in MsgTypes :
               Write(s, len, type) /\ Nothing /\ UNCHANGED cache
          \/ Retry(s) /\ Forget(job[s].msg) /\ UNCHANGED cache
          \/ Reboot(s) /\ Nothing /\ UNCHANGED cache
          \/ Transfer(s)

Spec     == Init /\ [][Next]_vars
\* main_write() is a loop: it goes on until it returns.
FairSpec == Spec /\ \A s \in Senders : WF_vars(Transfer(s))

-----------------------------------------------------------------------------
\* Also when senders restart and reuse their ids, no message is assembled from
\* fragments of two senders or of two header ids.
OneHeader ==
  \A i \in DOMAIN delivered : \A m, k \in delivered[i].parts :
    /\ written[m].from = delivered[i].from
    /\ written[m].id = written[k].id
=============================================================================
