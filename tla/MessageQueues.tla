---------------------------- MODULE MessageQueues ----------------------------
(***************************************************************************)
(* What the queues of kernel/queue.c promise about the messages: each one  *)
(* is a bounded double-ended sequence.  A message sent to the back is      *)
(* received after all that are in the queue, one sent to the front before  *)
(* them, and none is lost, repeated or altered.                            *)
(***************************************************************************)
EXTENDS Sequences, Naturals

CONSTANTS Handles, Messages, Token,
          Tokens   \* how many tokens a new semaphore may hold

VARIABLE contents   \* handle of a queue in use -> its messages, oldest first

Init == contents = <<>>

Others(q) ==
  \A r \in DOMAIN contents \ {q} : r \in DOMAIN contents' /\ contents'[r] = contents[r]

\* A new queue is empty, or holds the tokens of a semaphore or mutex.
Create(q) ==
  /\ DOMAIN contents' = DOMAIN contents \cup {q}
  /\ contents'[q] \in {[i \in 1..n |-> Token] : n \in Tokens}
  /\ Others(q)

Delete(q) == DOMAIN contents' = DOMAIN contents \ {q} /\ Others(q)

Send(q) ==
  /\ DOMAIN contents' = DOMAIN contents
  /\ \E x \in Messages \cup {Token} :
       contents'[q] \in {Append(contents[q], x), <<x>> \o contents[q]}
  /\ Others(q)

Receive(q) ==
  /\ DOMAIN contents' = DOMAIN contents
  /\ contents[q] # <<>> /\ contents'[q] = Tail(contents[q])
  /\ Others(q)

Next ==
  \/ \E q \in Handles \ DOMAIN contents : Create(q)
  \/ \E q \in DOMAIN contents : Delete(q) \/ Receive(q) \/ Send(q)

Spec == Init /\ [][Next]_contents
==============================================================================
