---------------------------- MODULE ScoringQueue ----------------------------
(***************************************************************************)
(* The SQS queue behind backend/app/queue.py, with its dead-letter queue.  *)
(* SQS itself is external; what is modelled is what SqsQueue relies on:    *)
(*                                                                         *)
(*   - a received message is hidden for the visibility timeout and then    *)
(*     becomes receivable again, unless it was deleted;                    *)
(*   - a receipt handle belongs to one receive: a handle from an earlier   *)
(*     receive may or may not still act on the message;                    *)
(*   - a message received MaxReceive times is moved to the dead-letter     *)
(*     queue instead of being delivered once more (terraform/local/sqs.tf).*)
(*                                                                         *)
(* The set of messages is fixed; a message that has not been sent yet is   *)
(* "unsent".  The order of delivery is arbitrary, as in a standard queue.  *)
(***************************************************************************)
EXTENDS Naturals

CONSTANTS Messages,
          QueueVisibility,  \* the queue's visibility timeout, in ticks
          MaxReceive        \* the redrive policy's maxReceiveCount

ASSUME QueueAssumption == QueueVisibility \in Nat \ {0} /\ MaxReceive \in Nat \ {0}

VARIABLES place,        \* where the message is
          hidden,       \* ticks until it can be received
          receives      \* ApproximateReceiveCount

queueVars == <<place, hidden, receives>>

Places == {"unsent", "queue", "dlq", "deleted"}

QueueTypeOK ==
    /\ place \in [Messages -> Places]
    /\ hidden \in [Messages -> Nat]
    /\ receives \in [Messages -> 0 .. MaxReceive]

QueueInit(initial) ==
    /\ place = [m \in Messages |-> initial]
    /\ hidden = [m \in Messages |-> 0]
    /\ receives = [m \in Messages |-> 0]

------------------------------------------------------------------------------

Visible(m) == place[m] = "queue" /\ hidden[m] = 0

\* Messages that have never been sent arrive.
SendMessages(sent) ==
    /\ \A m \in sent : place[m] = "unsent"
    /\ place' = [m \in Messages |-> IF m \in sent THEN "queue" ELSE place[m]]
    /\ UNCHANGED <<hidden, receives>>

ReceiveMessage(m) ==
    /\ Visible(m)
    /\ receives[m] < MaxReceive
    /\ receives' = [receives EXCEPT ![m] = @ + 1]
    /\ hidden' = [hidden EXCEPT ![m] = QueueVisibility]
    /\ UNCHANGED place

Redrive(m) ==
    /\ Visible(m)
    /\ receives[m] = MaxReceive
    /\ place' = [place EXCEPT ![m] = "dlq"]
    /\ UNCHANGED <<hidden, receives>>

\* The handle of the last receive deletes the message; an older one may be
\* accepted without effect.
DeleteMessage(m, handle) ==
    \/ /\ place[m] = "queue"
       /\ place' = [place EXCEPT ![m] = "deleted"]
       /\ hidden' = [hidden EXCEPT ![m] = 0]
       /\ UNCHANGED receives
    \/ /\ place[m] = "queue" => handle # receives[m]
       /\ UNCHANGED queueVars

\* The call may fail, and a handle of a message that is not in flight is
\* refused: change_visibility logs either and goes on.
ChangeMessageVisibility(m, delay) ==
    \/ /\ place[m] = "queue" /\ hidden[m] > 0
       /\ hidden' = [hidden EXCEPT ![m] = delay]
       /\ UNCHANGED <<place, receives>>
    \/ UNCHANGED queueVars

\* At-least-once delivery: a message in flight is delivered again early.
DeliverAgain(m) ==
    /\ place[m] = "queue" /\ hidden[m] > 0
    /\ hidden' = [hidden EXCEPT ![m] = 0]
    /\ UNCHANGED <<place, receives>>

QueueTick ==
    /\ hidden' = [m \in Messages |-> IF hidden[m] = 0 THEN 0 ELSE hidden[m] - 1]
    /\ UNCHANGED <<place, receives>>

==============================================================================
