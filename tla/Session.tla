------------------------------- MODULE Session -------------------------------
(***************************************************************************)
(* What a CConnectionManager promises to its script, without sockets,      *)
(* buffers or partial transfers: a link that is down, opening or up, an    *)
(* outbox of messages that still have to leave and an inbox of messages    *)
(* that arrived whole.  Messages move only while the link is up; a link    *)
(* that breaks loses nothing; opening a link again starts from empty boxes.*)
(***************************************************************************)
EXTENDS Naturals

VARIABLES link, server, outbox, inbox

\* server: "named" once the script has said where to connect (m_port is not -1).
Init == link = "down" /\ server = "none" /\ outbox = 0 /\ inbox = 0

\* What was queued before the very first connection is kept for it.
Open ==
  /\ link' \in {"opening", "down"}
  /\ server' \in {"none", "named"}
  /\ outbox' = IF server = "named" THEN 0 ELSE outbox
  /\ inbox' = 0

Establish ==
  /\ link = "opening" /\ link' = "up"
  /\ UNCHANGED <<server, outbox, inbox>>

Break ==
  /\ link \in {"opening", "up"} /\ link' = "down"
  /\ UNCHANGED <<server, outbox, inbox>>

\* The script closes the connection, and on a restart also forgets the server.
Shut ==
  /\ link' = "down" /\ outbox' = 0 /\ inbox' = 0
  /\ server' \in {server, "none"}

Enqueue == outbox' = outbox + 1 /\ UNCHANGED <<link, server, inbox>>

Transmit ==
  /\ link = "up" /\ outbox > 0 /\ outbox' = outbox - 1
  /\ UNCHANGED <<link, server, inbox>>

Deliver ==
  /\ link = "up" /\ inbox' = inbox + 1
  /\ UNCHANGED <<link, server, outbox>>

Load ==
  /\ inbox > 0 /\ inbox' = inbox - 1
  /\ UNCHANGED <<link, server, outbox>>

Next ==
  \/ Open \/ Establish \/ Break \/ Shut
  \/ Enqueue \/ Transmit \/ Deliver \/ Load

Spec == Init /\ [][Next]_<<link, server, outbox, inbox>>
=============================================================================
