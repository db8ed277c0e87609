----------------------------- MODULE RequestQueue -----------------------------
(***************************************************************************)
(* What the prefetch ring of the Windows shim promises: a bounded queue,   *)
(* first in first out, that one server empties.  A request is turned away  *)
(* only when the queue is full or closed.                                  *)
(***************************************************************************)
EXTENDS Naturals, Sequences

CONSTANTS
  Threads, Reqs, NoReq,
  Room \* requests the queue holds

VARIABLES
  queue,   \* requests that wait
  serving, \* what the server has taken and not finished
  open,
  call     \* the request each thread makes, and what became of it

qvars == <<queue, serving, open, call>>

NoCall == [req |-> NoReq, res |-> "none"]
Pending(t) == call[t].req # NoReq /\ call[t].res = "none"
Reply(t, res) == call' = [call EXCEPT ![t].res = res]

QInit ==
  /\ queue = << >> /\ serving = NoReq /\ open = FALSE
  /\ call = [t \in Threads |-> NoCall]

(* The queue opens and closes as its owner pleases *)
Switch ==
  /\ open' = ~open
  /\ UNCHANGED <<queue, serving, call>>

Ask(t, r) ==
  /\ call[t] = NoCall
  /\ call' = [call EXCEPT ![t].req = r]
  /\ UNCHANGED <<queue, serving, open>>

Keep(t) ==
  /\ Pending(t) /\ Len(queue) < Room
  /\ queue' = Append(queue, call[t].req)
  /\ Reply(t, "kept")
  /\ UNCHANGED <<serving, open>>

TurnAway(t) ==
  /\ Pending(t)
  /\ ~open \/ Len(queue) = Room
  /\ Reply(t, "dropped")
  /\ UNCHANGED <<queue, serving, open>>

QReturn(t) ==
  /\ call[t].res # "none"
  /\ call' = [call EXCEPT ![t] = NoCall]
  /\ UNCHANGED <<queue, serving, open>>

Serve ==
  /\ serving = NoReq /\ queue # << >>
  /\ serving' = Head(queue) /\ queue' = Tail(queue)
  /\ UNCHANGED <<open, call>>

Finish ==
  /\ serving # NoReq
  /\ serving' = NoReq
  /\ UNCHANGED <<queue, open, call>>

QNext ==
  \/ Switch \/ Serve \/ Finish
  \/ \E t \in Threads :
       \/ \E r \in Reqs : Ask(t, r)
       \/ Keep(t) \/ TurnAway(t) \/ QReturn(t)

QSpec == QInit /\ [][QNext]_qvars
===============================================================================
