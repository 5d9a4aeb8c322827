------------------------------ MODULE Channel -------------------------------
(***************************************************************************)
(* What a connection promises to its two users: whole packages, in order,  *)
(* none twice, none invented.  The server gets the client's requests up to *)
(* the first that cannot be decoded; the client gets the answers the       *)
(* server sent it.  A connection may break at any time; then the server    *)
(* gets no more requests, and the client may still get answers sent        *)
(* before.                                                                 *)
(***************************************************************************)
EXTENDS Integers, Sequences, SequencesExt

VARIABLES
  requests,  \* the packages the client has sent
  inbox,     \* the packages the server has been given
  answers,   \* the packages the server has sent
  got,       \* the packages the client has received
  up         \* whether the connection holds

vars == <<requests, inbox, answers, got, up>>

Init == requests = <<>> /\ inbox = <<>> /\ answers = <<>> /\ got = <<>> /\ up = TRUE

Request ==
  /\ Len(requests') = Len(requests) + 1
  /\ IsPrefix(requests, requests')
  /\ UNCHANGED <<inbox, answers, got, up>>

\* Some requests arrive, and a bad one behind them breaks the connection.
Deliver ==
  /\ up
  /\ IsPrefix(inbox, inbox') /\ IsPrefix(inbox', requests)
  /\ \A i \in DOMAIN inbox' : requests[i].ok
  /\ ~up' => Len(inbox') < Len(requests) /\ ~requests[Len(inbox') + 1].ok
  /\ UNCHANGED <<requests, answers, got>>

Answer ==
  /\ up
  /\ Len(answers') = Len(answers) + 1
  /\ IsPrefix(answers, answers')
  /\ Last(answers').id \in DOMAIN inbox
  /\ \A i \in DOMAIN answers : answers[i].id # Last(answers').id
  /\ UNCHANGED <<requests, inbox, got>>

Receive ==
  /\ IsPrefix(got, got') /\ IsPrefix(got', answers)
  /\ UNCHANGED <<requests, inbox, answers, up>>

Break ==
  /\ up' = FALSE
  /\ UNCHANGED <<requests, inbox, answers, got>>

Next == Request \/ Deliver \/ Answer \/ Receive \/ Break

Spec == Init /\ [][Next]_vars
=============================================================================
