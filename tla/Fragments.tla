------------------------------ MODULE Fragments ------------------------------
(***************************************************************************)
(* The sender of fragmented messages: main_write() cuts a message into     *)
(* frames, counts them down in header.reserved, and repeats a frame that   *)
(* failed up to three times in a row before it gives the message up.  The  *)
(* application may then write the message again with the same header.      *)
(*                                                                         *)
(* One action per frame.  What becomes of the frame is one of Outcomes;    *)
(* the modules that compose this one with a receiver hand a frame that     *)
(* was delivered to its enqueue().  Sizes are scaled down: a frame holds   *)
(* max_frame_payload_size bytes, a byte is << message, position >>.        *)
(***************************************************************************)
EXTENDS Naturals, Sequences, FiniteSets

CONSTANTS Senders,
          Lens,                    \* the lengths of the messages written
          MsgTypes,                \* their header types
          max_frame_payload_size,  \* 24 in the code
          MAX_PAYLOAD_SIZE,        \* 1514 or 144 by default
          IdSpace,                 \* header ids are 0..IdSpace-1; 65536 in the code
          Outcomes,                \* what may happen to a frame, see OutcomeKinds
          MaxMsgs,                 \* bound: messages written altogether
          MaxAttempts,             \* bound: write() calls for one message
          MaxReboots               \* bound: restarts of senders altogether

\* "ok": the frame arrives and _write() returns true.  "lost": neither.
\* "unheard": it arrives, but its acknowledgement does not.  "queued": a fragment
\* other than the last is lost after writeFast() has put it into the TX FIFO,
\* which is all that write_to_pipe() asks for (FLAG_FAST_FRAG).
OutcomeKinds == { "ok", "lost", "unheard", "queued" }
Believed     == { "ok", "queued" }     \* _write() returns true
Arriving     == { "ok", "unheard" }    \* the receiver sees the frame

EXTERNAL_DATA_TYPE     == 131
NETWORK_FIRST_FRAGMENT == 148
NETWORK_MORE_FRAGMENTS == 149
NETWORK_LAST_FRAGMENT  == 150
FragmentTypes == { NETWORK_FIRST_FRAGMENT, NETWORK_MORE_FRAGMENTS, NETWORK_LAST_FRAGMENT }

ASSUME FragmentsAssumption ==
  /\ max_frame_payload_size \in Nat \ {0}
  /\ MAX_PAYLOAD_SIZE \in Nat
  /\ Lens \subseteq Nat \ {0}
  /\ MsgTypes \subseteq (0..127) \cup { EXTERNAL_DATA_TYPE }
  /\ IdSpace \in Nat \ {0}
  /\ Outcomes \subseteq OutcomeKinds
  /\ MaxMsgs \in Nat /\ MaxAttempts \in Nat \ {0} /\ MaxReboots \in Nat

Msg == 1..MaxMsgs     \* serial numbers, unknown to the code

VARIABLES next_id,    \* RF24NetworkHeader::next_id of each sender
          job,        \* the write() of each sender
          written,    \* history: sender, id, type and length of every message
          attempts,   \* history: how often write() was called for it
          outcome,    \* history: what the last of these calls returned
          restarts,   \* history: the senders that restarted, in order
          delivered,  \* history: what the receiver has put into its queues, in order
          swallowed   \* history: messages of which the present write() counts a frame as
                      \* received that no queue and no assembly got

senderVars == << next_id, job, written, attempts, outcome, restarts >>

Idle == [ phase |-> "idle", msg |-> 0, fragment_id |-> 0, msgCount |-> 0, retries |-> 0 ]

SenderTypeOK ==
  /\ next_id  \in [ Senders -> 0..(IdSpace - 1) ]
  /\ \A s \in Senders :
       /\ job[s].phase \in { "idle", "sending", "failed" }
       /\ job[s].msg \in 0..Len(written)
       /\ job[s].retries \in 0..3
       /\ job[s].phase = "sending" => job[s].fragment_id > 0
  /\ Len(written) <= MaxMsgs
  /\ attempts \in [ Msg -> 0..MaxAttempts ]
  /\ outcome  \in [ Msg -> { "none", "pending", "true", "false" } ]
  /\ Len(restarts) <= MaxReboots
  /\ swallowed \subseteq 1..Len(written)

SenderInit == /\ next_id  = [ s \in Senders |-> 1 % IdSpace ]
              /\ job      = [ s \in Senders |-> Idle ]
              /\ written  = << >>
              /\ attempts = [ m \in Msg |-> 0 ]
              /\ outcome  = [ m \in Msg |-> "none" ]
              /\ restarts = << >>
              /\ delivered = << >>
              /\ swallowed = {}

-----------------------------------------------------------------------------
smaller(a, b) == IF a < b THEN a ELSE b      \* rf24_min

\* ceil(len / max_frame_payload_size); an unfragmented message is one frame.
FrameCount(len) == len \div max_frame_payload_size
                     + (IF len % max_frame_payload_size # 0 THEN 1 ELSE 0)

\* The job of a message whose first frame is about to be sent.
Begin(m, len) == [ phase |-> "sending", msg |-> m, fragment_id |-> FrameCount(len),
                   msgCount |-> 0, retries |-> 0 ]

Whole(m) == [ i \in 1..written[m].len |-> << m, i >> ]

\* The frame main_write() builds next.  The header of an unfragmented message
\* goes out with whatever its field reserved holds: no constructor sets it.
Frame(s, garbage) ==
  LET j      == job[s]
      w      == written[j.msg]
      offset == j.msgCount * max_frame_payload_size
      last   == j.fragment_id = 1
  IN  [ from     |-> s,
        id       |-> w.id,
        type     |-> IF w.len <= max_frame_payload_size THEN w.type
                     ELSE IF last THEN NETWORK_LAST_FRAGMENT
                     ELSE IF j.msgCount = 0 THEN NETWORK_FIRST_FRAGMENT
                     ELSE NETWORK_MORE_FRAGMENTS,
        reserved |-> IF w.len <= max_frame_payload_size THEN garbage
                     ELSE IF last THEN w.type ELSE j.fragment_id,
        data     |-> SubSeq(Whole(j.msg), offset + 1,
                            smaller(w.len, offset + max_frame_payload_size)) ]

-----------------------------------------------------------------------------
\* write() with a header constructed for it.  A message that is too long is
\* refused.
Write(s, len, type) ==
  LET m == Len(written) + 1
  IN  /\ job[s].phase # "sending"
      /\ m \in Msg
      /\ written'  = Append(written, [ from |-> s, id |-> next_id[s], type |-> type,
                                       len |-> len ])
      /\ next_id'  = [ next_id EXCEPT ![s] = (@ + 1) % IdSpace ]
      /\ attempts' = [ attempts EXCEPT ![m] = 1 ]
      /\ IF len <= MAX_PAYLOAD_SIZE
         THEN /\ job'     = [ job EXCEPT ![s] = Begin(m, len) ]
              /\ outcome' = [ outcome EXCEPT ![m] = "pending" ]
         ELSE /\ outcome' = [ outcome EXCEPT ![m] = "false" ]
              /\ job'     = [ job EXCEPT ![s] = [ Idle EXCEPT !.msg = m ] ]
      /\ UNCHANGED restarts

\* The application writes a message that failed once more; main_write() has
\* restored the type of the header, its id is the old one.
Retry(s) ==
  LET m == job[s].msg
  IN  /\ job[s].phase = "failed"
      /\ attempts[m] < MaxAttempts
      /\ job'      = [ job EXCEPT ![s] = Begin(m, written[m].len) ]
      /\ attempts' = [ attempts EXCEPT ![m] = @ + 1 ]
      /\ outcome'  = [ outcome EXCEPT ![m] = "pending" ]
      /\ UNCHANGED << next_id, written, restarts >>

\* The job after _write() returned ok.
AfterFrame(j, ok) ==
  IF ok THEN [ j EXCEPT !.retries = 0, !.fragment_id = @ - 1, !.msgCount = @ + 1 ]
        ELSE [ j EXCEPT !.retries = @ + 1 ]

\* Whether main_write() gives up a message after so many failures in a row; an
\* unfragmented message has no loop and is not repeated.
\* MUTATIONS: one failure later; such a message is repeated like a fragment.
GivesUp_Repeats(len, retries) == retries >= 3
GivesUp_OneMore(len, retries) == retries > IF len <= max_frame_payload_size THEN 1 ELSE 3
GivesUp(len, retries) == retries >= IF len <= max_frame_payload_size THEN 1 ELSE 3

\* One round of the loop of main_write(), in which the frame had outcome o.
SendFrame(s, o) ==
  LET j == AfterFrame(job[s], o \in Believed)
      m == job[s].msg
  IN  /\ job[s].phase = "sending"
      /\ o \in Outcomes
      /\ o = "queued" => /\ written[m].len > max_frame_payload_size
                         /\ job[s].fragment_id > 1
      /\ IF j.fragment_id = 0
         THEN /\ job'     = [ job EXCEPT ![s] = [ Idle EXCEPT !.msg = m ] ]
              /\ outcome' = [ outcome EXCEPT ![m] = "true" ]
         ELSE IF GivesUp(written[m].len, j.retries)
         THEN /\ job'     = [ job EXCEPT ![s] = [ j EXCEPT !.phase = "failed" ] ]
              /\ outcome' = [ outcome EXCEPT ![m] = "false" ]
         ELSE /\ job'     = [ job EXCEPT ![s] = j ]
              /\ UNCHANGED outcome
      /\ UNCHANGED << next_id, written, attempts, restarts >>

\* A sender restarts: its ids begin at 1 again.
Reboot(s) == /\ Len(restarts) < MaxReboots
             /\ restarts' = Append(restarts, s)
             /\ next_id' = [ next_id EXCEPT ![s] = 1 % IdSpace ]
             /\ job'     = [ job EXCEPT ![s] = Idle ]
             /\ UNCHANGED << written, attempts, outcome >>

-----------------------------------------------------------------------------
\* What the modules that add a receiver have in common.

\* The message a frame belongs to.
MsgOf(f) == Head(f.data)[1]

IsMessage(from, type, data, m) ==
  from = written[m].from /\ type = written[m].type /\ data = Whole(m)

\* What enqueue() may do with a frame: put a message into a queue, throw away what
\* the sender may believe received, or neither.  A message is known by its serial
\* number, 0 if it is none that was ever written, and the messages its bytes are of.
Deliver(from, type, data) ==
  LET ms == { m \in 1..Len(written) : IsMessage(from, type, data, m) }
  IN  /\ delivered' = Append(delivered,
           [ from  |-> from,
             msg   |-> IF ms = {} THEN 0 ELSE CHOOSE m \in ms : TRUE,
             parts |-> { data[i][1] : i \in DOMAIN data } ])
      /\ UNCHANGED swallowed
Swallow(f) == /\ swallowed' = swallowed \cup { MsgOf(f) }
              /\ UNCHANGED delivered
Nothing    == UNCHANGED << delivered, swallowed >>

\* A frame that does not arrive.
Vanish(f, o) == IF o = "queued" THEN Swallow(f) ELSE Nothing

\* A new call of write() for message m.
Forget(m) == /\ swallowed' = swallowed \ {m}
             /\ UNCHANGED delivered

\* RF24Network.h:106: the fragments of a message "will be re-assembled
\* automatically".  Whatever reaches a queue is a message that was written, from
\* its sender and with its type.
Integrity == \A i \in DOMAIN delivered : delivered[i].msg # 0

\* The present message of a sender, and where it is in the queues.
Current(s) == job[s].msg
Places(m)  == { i \in DOMAIN delivered : delivered[i].msg = m }
Mixed(s)   == { i \in Places(0) : delivered[i].from = s }

\* Parts of message m that were acknowledged were thrown away, or went into a
\* message made of several.
Spoilt(m) == \/ m \in swallowed
             \/ \E i \in Places(0) : m \in delivered[i].parts

\* What MessageDelivery speaks of, as it is found here.
current == [ s \in Senders |-> Current(s) ]
busy    == [ s \in Senders |-> job[s].phase = "sending" ]
result  == [ s \in Senders |-> Current(s) # 0 /\ outcome[Current(s)] = "true" ]
calls   == [ s \in Senders |-> IF Current(s) = 0 THEN 0 ELSE attempts[Current(s)] ]
copies  == [ s \in Senders |-> IF Current(s) = 0 THEN 0 ELSE Cardinality(Places(Current(s))) ]
spoilt  == [ s \in Senders |-> Current(s) # 0 /\ Spoilt(Current(s)) ]
stale   == [ s \in Senders |-> Cardinality({ i \in DOMAIN restarts : restarts[i] = s })
                                 - Cardinality(Mixed(s)) ]
count   == Len(written)
inbox   == [ i \in DOMAIN delivered |-> delivered[i].msg ]

\* The receiver delivers messages as MessageDelivery demands: whole, while they
\* are written, at most once per call of write(), and at least once if it
\* returned true and no acknowledged part was spoilt.
Abstract   == INSTANCE MessageDelivery
Implements == Abstract!Spec
=============================================================================
