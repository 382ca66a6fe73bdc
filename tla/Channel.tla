------------------------------- MODULE Channel -------------------------------
(***************************************************************************)
(* What a transport promises to one device: receive() returns messages     *)
(* that were sent to the device, whole and with their sender, each at most *)
(* once.  They may be lost and overtake each other.                        *)
(***************************************************************************)
EXTENDS Sequences

CONSTANT Message

VARIABLES
  up,     \* whether the device has started its transport
  net,    \* the messages sent to it that are still on their way
  inbox   \* what receive() will return

vars == <<up, net, inbox>>

Start ==
  /\ ~up /\ up' = TRUE
  /\ inbox' = <<>>
  /\ UNCHANGED net

Stop ==
  /\ up /\ up' = FALSE
  /\ net' \subseteq net
  /\ UNCHANGED inbox

Send(m) ==
  /\ net' = net \cup {m}
  /\ UNCHANGED <<up, inbox>>

Deliver(m) ==
  /\ up /\ m \in net
  /\ net' = net \ {m}
  /\ inbox' = Append(inbox, m)
  /\ UNCHANGED up

Lose ==
  /\ net' \subseteq net
  /\ UNCHANGED <<up, inbox>>

Receive ==
  /\ up /\ inbox # <<>>
  /\ inbox' = Tail(inbox)
  /\ UNCHANGED <<up, net>>

Init ==
  /\ up = FALSE
  /\ net = {}
  /\ inbox = <<>>

Next ==
  \/ Start \/ Stop \/ Lose \/ Receive
  \/ \E m \in Message : Send(m) \/ Deliver(m)

Spec == Init /\ [][Next]_vars
=============================================================================
