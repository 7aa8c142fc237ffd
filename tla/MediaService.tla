---------------------------- MODULE MediaService ----------------------------
(***************************************************************************)
(* What apps/media promises the gateway, whatever mediasoup does behind it:*)
(* sessions are opened and closed, a producer is published only for a      *)
(* session that was open when the publication was accepted, closing a      *)
(* session withdraws all it published and nothing else, and a crash of the *)
(* worker takes everything at once.                                        *)
(***************************************************************************)
EXTENDS FiniteSets

CONSTANTS
  Session,   \* session ids
  Producer,  \* producer ids
  NoSession  \* owner of a producer that is not published

VARIABLES
  open,      \* the sessions that are open
  accepted,  \* sessions with a publication accepted and not yet answered
  publisher  \* Producer -> the session it is published for, or NoSession

serviceVars == <<open, accepted, publisher>>

ServiceInit ==
  /\ open = {}
  /\ accepted = {}
  /\ publisher = [p \in Producer |-> NoSession]

Published(s) == {p \in Producer : publisher[p] = s}

Without(ps) == [p \in Producer |-> IF p \in ps THEN NoSession ELSE publisher[p]]

OpenSession(s) ==
  /\ s \notin open
  /\ open' = open \cup {s}
  /\ UNCHANGED <<accepted, publisher>>

\* Everything the session published goes with it, in the same step.
EndSession(s) ==
  /\ s \in open
  /\ open' = open \ {s}
  /\ publisher' = Without(Published(s))
  /\ UNCHANGED accepted

Accept(s) ==
  /\ s \in open
  /\ accepted' = accepted \cup {s}
  /\ UNCHANGED <<open, publisher>>

\* The answer may come after the session ended; the producer is listed then.
Publish(s, p) ==
  /\ s \in accepted
  /\ publisher[p] = NoSession
  /\ publisher' = [publisher EXCEPT ![p] = s]
  /\ accepted' \in {accepted, accepted \ {s}}
  /\ UNCHANGED open

Refuse(s) ==
  /\ accepted' = accepted \ {s}
  /\ UNCHANGED <<open, publisher>>

\* One producer, or all those of one transport.
Withdraw(s) ==
  /\ \E ps \in SUBSET Published(s) : publisher' = Without(ps)
  /\ UNCHANGED <<open, accepted>>

Crash ==
  /\ open' = {}
  /\ accepted' = {}
  /\ publisher' = [p \in Producer |-> NoSession]

ServiceNext ==
  \/ \E s \in Session :
       \/ Refuse(s) \/ Withdraw(s) \/ OpenSession(s) \/ EndSession(s) \/ Accept(s)
       \/ \E p \in Producer : Publish(s, p)
  \/ Crash

ServiceSpec == ServiceInit /\ [][ServiceNext]_serviceVars
=============================================================================
