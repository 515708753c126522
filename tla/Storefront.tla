----------------------------- MODULE Storefront -----------------------------
(***************************************************************************)
(* What the shop promises of a request, without the calls, jobs, attempts  *)
(* and lost replies behind it. A client that is told QUEUED holds a        *)
(* ticket; while the ticket is open the request may be bought and its      *)
(* status goes on; once it is closed the request is left alone.            *)
(*                                                                         *)
(* The status is kept in a store that may lose it. If the store is not     *)
(* Forgetful it loses only the status of requests that have grown late.    *)
(* Then the status of a request is opened before its ticket, never again   *)
(* after it, and one client at most is admitted to it.                     *)
(***************************************************************************)

CONSTANTS
  Clients,    \* those who ask for something
  Requests,   \* what they ask for
  Asks,       \* Asks[c]: the request of client c; two may ask for the same
  Forgetful   \* may the store lose a status at any time?

VARIABLES
  queued,   \* clients that were told QUEUED
  ticket,   \* ticket[i]: "none", "open" while i is to be worked, or "closed"
  late,     \* requests that have waited for longer than is promised
  bought,   \* requests whose purchase has been ordered
  status    \* status[i]: what a client is told of i, or "absent"

vars == <<queued, ticket, late, bought, status>>

Init ==
  /\ queued = {}
  /\ ticket = [i \in Requests |-> "none"]
  /\ late = {}
  /\ bought = {}
  /\ status = [i \in Requests |-> "absent"]

-----------------------------------------------------------------------------
(* Tickets.                                                                *)

\* A ticket may be issued without anybody being told.
Issue(i) ==
  /\ ticket[i] = "none"
  /\ Forgetful \/ status[i] # "absent"
  /\ ticket' = [ticket EXCEPT ![i] = "open"]
  /\ UNCHANGED <<queued, late, bought, status>>

\* The client is told QUEUED with the ticket.
Admit(c) ==
  LET i == Asks[c] IN
  /\ c \notin queued
  /\ Forgetful \/ (ticket[i] = "none" /\ status[i] # "absent")
  /\ queued' = queued \cup {c}
  /\ ticket' = IF ticket[i] = "none" THEN [ticket EXCEPT ![i] = "open"] ELSE ticket
  /\ UNCHANGED <<late, bought, status>>

Close(i) ==
  /\ ticket[i] = "open"
  /\ ticket' = [ticket EXCEPT ![i] = "closed"]
  /\ UNCHANGED <<queued, late, bought, status>>

Age(i) ==
  /\ i \notin late
  /\ late' = late \cup {i}
  /\ UNCHANGED <<queued, ticket, bought, status>>

\* Once, however often it is ordered.
Buy(i) ==
  /\ ticket[i] = "open"
  /\ bought' = bought \cup {i}
  /\ UNCHANGED <<queued, ticket, late, status>>

-----------------------------------------------------------------------------
(* The status.                                                             *)

Tell(i, s) ==
  /\ status' = [status EXCEPT ![i] = s]
  /\ UNCHANGED <<queued, ticket, late, bought>>

Post(i) ==
  /\ status[i] = "absent"
  /\ Forgetful \/ ticket[i] = "none"
  /\ Tell(i, "WAITING")

\* A request given up for its age is not taken up again.
InHand(i) == ticket[i] = "open" /\ status[i] \notin {"absent", "DEGRADED"}

Process(i) == InHand(i) /\ Tell(i, "PROCESSING")

Succeed(i) == InHand(i) /\ i \in bought /\ Tell(i, "SUCCESS")

Refuse(i) ==
  InHand(i) /\ \E s \in {"SOLD_OUT", "BALANCE_INSUFFICIENT", "FAILED"} : Tell(i, s)

Degrade(i) ==
  /\ ticket[i] = "open" /\ i \in late
  /\ status[i] # "absent"
  /\ Tell(i, "DEGRADED")

\* A client that is not queued may have its request fail, with or without ticket.
Withdraw(c) ==
  LET i == Asks[c] IN
  /\ c \notin queued
  /\ status[i] # "absent"
  /\ Tell(i, "FAILED")

Forget(S) ==
  /\ Forgetful \/ S \subseteq late
  /\ status' = [i \in Requests |-> IF i \in S THEN "absent" ELSE status[i]]
  /\ UNCHANGED <<queued, ticket, late, bought>>

-----------------------------------------------------------------------------
Next ==
  \/ \E c \in Clients : Admit(c) \/ Withdraw(c)
  \/ \E i \in Requests :
       \/ Issue(i) \/ Close(i) \/ Age(i) \/ Buy(i)
       \/ Post(i) \/ Process(i) \/ Succeed(i) \/ Refuse(i) \/ Degrade(i)
  \/ \E S \in SUBSET Requests : Forget(S)

Spec == Init /\ [][Next]_vars

=============================================================================
