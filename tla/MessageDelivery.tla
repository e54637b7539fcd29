--------------------------- MODULE MessageDelivery ---------------------------
(***************************************************************************)
(* What a receiver of RF24Network messages promises, however they were cut *)
(* into frames: what the application finds in its queues are whole         *)
(* messages, each one delivered while its sender was writing it, at most   *)
(* once per call of write(), and a call that returns true did deliver it,  *)
(* unless a part of it was spoilt after it had been acknowledged.  Nothing *)
(* is promised for a call that returns false.  A sender that restarts may  *)
(* leave the beginning of a message behind, which may spoil one message    *)
(* that comes from it later; that is delivered as 0, no message.           *)
(***************************************************************************)
EXTENDS Naturals, Sequences

CONSTANTS Senders, MaxMsgs

VARIABLES current,    \* the last message of each sender, 0 before the first
          busy,       \* whether write() is running
          result,     \* what it returned last
          calls,      \* how often it was called for the current message
          copies,     \* how often the current message was delivered
          spoilt,     \* whether an acknowledged part of it was thrown away
          stale,      \* restarts of the sender that have not spoilt a message yet
          count,      \* messages written
          inbox       \* messages delivered, in order

vars == << current, busy, result, calls, copies, spoilt, stale, count, inbox >>

All(v) == [ s \in Senders |-> v ]

Init == /\ current = All(0)
        /\ busy    = All(FALSE)
        /\ result  = All(FALSE)
        /\ calls   = All(0)
        /\ copies  = All(0)
        /\ spoilt  = All(FALSE)
        /\ stale   = All(0)
        /\ count   = 0
        /\ inbox   = << >>

\* A new message.  It may be refused at once.
Write(s) == /\ count < MaxMsgs
            /\ count'   = count + 1
            /\ ~busy[s]
            /\ current' = [ current EXCEPT ![s] = count + 1 ]
            /\ calls'   = [ calls EXCEPT ![s] = 1 ]
            /\ copies'  = [ copies EXCEPT ![s] = 0 ]
            /\ result'  = [ result EXCEPT ![s] = FALSE ]
            /\ spoilt'  = [ spoilt EXCEPT ![s] = FALSE ]
            /\ \E b \in BOOLEAN : busy' = [ busy EXCEPT ![s] = b ]
            /\ UNCHANGED << stale, inbox >>

\* The same message again, after a failure.
Retry(s) == /\ ~busy[s] /\ ~result[s] /\ current[s] # 0
            /\ calls' = [ calls EXCEPT ![s] = @ + 1 ]
            /\ busy'  = [ busy EXCEPT ![s] = TRUE ]
            /\ \E b \in { FALSE, spoilt[s] } : spoilt' = [ spoilt EXCEPT ![s] = b ]
            /\ UNCHANGED << current, result, copies, stale, count, inbox >>

\* The message reaches the queues, or what a restart has left of another does.
Deliver(s) == /\ inbox'  = Append(inbox, current[s])
              /\ copies[s] < calls[s]
              /\ copies' = [ copies EXCEPT ![s] = @ + 1 ]
              /\ UNCHANGED << spoilt, stale >>
DeliverMixed(s) == /\ inbox'  = Append(inbox, 0)
                   /\ stale[s] > 0
                   /\ stale'  = [ stale EXCEPT ![s] = @ - 1 ]
                   /\ spoilt' = [ spoilt EXCEPT ![s] = TRUE ]
                   /\ UNCHANGED copies
\* A part of it is thrown away, or joins others.
Proceed(s) == /\ UNCHANGED << inbox, copies, stale >>
              /\ \E b \in { TRUE, spoilt[s] } : spoilt' = [ spoilt EXCEPT ![s] = b ]

\* write() returns.
Return(s, ok) == /\ ok => copies'[s] > 0 \/ spoilt'[s]
                 /\ busy'   = [ busy EXCEPT ![s] = FALSE ]
                 /\ result' = [ result EXCEPT ![s] = ok ]

Progress(s) == /\ busy[s]
               /\ Deliver(s) \/ DeliverMixed(s) \/ Proceed(s)
               /\ UNCHANGED << busy, result >> \/ \E ok \in BOOLEAN : Return(s, ok)
               /\ UNCHANGED << current, calls, count >>

\* The node of a sender restarts and has forgotten the message.
Reboot(s) == /\ busy'    = [ busy    EXCEPT ![s] = FALSE ]
             /\ current' = [ current EXCEPT ![s] = 0 ]
             /\ result'  = [ result  EXCEPT ![s] = FALSE ]
             /\ calls'   = [ calls   EXCEPT ![s] = 0 ]
             /\ copies'  = [ copies  EXCEPT ![s] = 0 ]
             /\ spoilt'  = [ spoilt  EXCEPT ![s] = FALSE ]
             /\ stale'   = [ stale   EXCEPT ![s] = @ + 1 ]
             /\ UNCHANGED << count, inbox >>

Next == \E s \in Senders : Write(s) \/ Retry(s) \/ Progress(s) \/ Reboot(s)

Safety == Init /\ [][Next]_vars

\* write() ends.
Spec == Safety /\ \A s \in Senders : WF_vars(Progress(s) /\ ~busy'[s])
=============================================================================
