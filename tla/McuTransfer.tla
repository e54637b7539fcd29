----------------------------- MODULE McuTransfer -----------------------------
(***************************************************************************)
(* Messages of several senders to one node that runs the microcontroller   *)
(* build of enqueue(): one buffer, frag_queue, in which every fragmented   *)
(* message is assembled, whoever sends it, and which also hands EXTERNAL   *)
(* data to the application.  Its field reserved holds the fragments still  *)
(* missing.                                                                *)
(***************************************************************************)
EXTENDS Fragments

CONSTANT MayOverflow    \* whether frame_queue may have no room for a message

ASSUME McuTransferAssumption == MayOverflow \in BOOLEAN

VARIABLE frag_queue

vars == << senderVars, delivered, swallowed, frag_queue >>

\* The values an uninitialised field reserved is tried with.
Garbage == 0..2

TypeOK == /\ SenderTypeOK
          /\ frag_queue.from \in Senders
          /\ frag_queue.id \in 0..(IdSpace - 1)
          /\ frag_queue.reserved \in 0..FrameCount(MAX_PAYLOAD_SIZE)
          /\ Len(frag_queue.data) <= MAX_PAYLOAD_SIZE

Init == /\ SenderInit
        /\ frag_queue = [ from |-> CHOOSE s \in Senders : TRUE, id |-> 0, type |-> 0,
                          reserved |-> 0, data |-> << >> ]    \* a global, all zeros

-----------------------------------------------------------------------------
TooLong(f) == Len(frag_queue.data) + Len(f.data) > MAX_PAYLOAD_SIZE

\* The next fragment of the message in frag_queue.
\* MUTATION: a last fragment may come early.
InOrder_AnyLast(f) == /\ frag_queue.reserved # 0
                      /\ frag_queue.id = f.id
                      /\ f.type = NETWORK_MORE_FRAGMENTS => f.reserved = frag_queue.reserved
InOrder(f) == /\ frag_queue.reserved # 0
              /\ frag_queue.id = f.id
              /\ f.type = NETWORK_MORE_FRAGMENTS => f.reserved = frag_queue.reserved
              /\ f.type = NETWORK_LAST_FRAGMENT => frag_queue.reserved = 1

Stored(f, reserved) == [ from |-> f.from, id |-> f.id, type |-> f.type,
                         reserved |-> reserved, data |-> f.data ]

\* A message of a type other than EXTERNAL is copied to frame_queue, if it fits.
Push(f, from, type, data) == \/ Deliver(from, type, data)
                             \/ MayOverflow /\ Swallow(f)

\* EXTERNAL data stays in frag_queue, from where the application takes it when
\* update() returns its type.
HandOver(from, data) == Deliver(from, EXTERNAL_DATA_TYPE, data)

EnqueueWhole(f) == /\ f.type \notin FragmentTypes \cup { EXTERNAL_DATA_TYPE }
                   /\ Push(f, f.from, f.type, f.data)
                   /\ UNCHANGED frag_queue

EnqueueExternal(f) == /\ f.type = EXTERNAL_DATA_TYPE
                      /\ frag_queue' = Stored(f, f.reserved)
                      /\ HandOver(f.from, f.data)

\* A first fragment replaces whatever frag_queue holds.
EnqueueFirst(f) == /\ f.type = NETWORK_FIRST_FRAGMENT
                   /\ f.reserved >= 2
                   /\ frag_queue' = Stored(f, f.reserved - 1)
                   /\ Nothing

EnqueueMore(f) == /\ f.type = NETWORK_MORE_FRAGMENTS
                  /\ f.reserved >= 2
                  /\ ~TooLong(f) /\ InOrder(f)
                  /\ frag_queue' = [ frag_queue EXCEPT !.data = @ \o f.data, !.reserved = @ - 1 ]
                  /\ Nothing

EnqueueLast(f) ==
  LET data == frag_queue.data \o f.data
  IN  /\ f.type = NETWORK_LAST_FRAGMENT
      /\ ~TooLong(f) /\ InOrder(f)
      /\ frag_queue' = [ frag_queue EXCEPT !.data = data, !.reserved = 0, !.type = f.reserved ]
      /\ IF f.reserved = EXTERNAL_DATA_TYPE THEN HandOver(frag_queue.from, data)
                                            ELSE Push(f, frag_queue.from, f.reserved, data)

\* A fragment that would overflow the buffer ends the assembly, one that is a
\* duplicate or out of order does not.  The size is tested first.
Drop(f) ==
  /\ \/ f.type = NETWORK_MORE_FRAGMENTS /\ f.reserved >= 2
     \/ f.type = NETWORK_LAST_FRAGMENT
  /\ \/ TooLong(f) /\ frag_queue' = [ frag_queue EXCEPT !.reserved = 0 ]
     \/ ~TooLong(f) /\ ~InOrder(f) /\ UNCHANGED frag_queue
  /\ Nothing

Enqueue(f) == \/ EnqueueWhole(f) \/ EnqueueExternal(f)
              \/ EnqueueFirst(f) \/ EnqueueMore(f) \/ EnqueueLast(f) \/ Drop(f)

-----------------------------------------------------------------------------
Transfer(s) ==
  \E o \in Outcomes, garbage \in Garbage :
    /\ SendFrame(s, o)
    /\ IF o \in Arriving THEN Enqueue(Frame(s, garbage))
       ELSE Vanish(Frame(s, garbage), o) /\ UNCHANGED frag_queue

Next == \E s \in Senders :
          \/ \E len \in Lens, type \in MsgTypes :
               Write(s, len, type) /\ Nothing /\ UNCHANGED frag_queue
          \/ Retry(s) /\ Forget(job[s].msg) /\ UNCHANGED frag_queue
          \/ Reboot(s) /\ Nothing /\ UNCHANGED frag_queue
          \/ Transfer(s)

Spec     == Init /\ [][Next]_vars
\* main_write() is a loop: it goes on until it returns.
FairSpec == Spec /\ \A s \in Senders : WF_vars(Transfer(s))
=============================================================================
