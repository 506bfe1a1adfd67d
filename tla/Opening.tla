------------------------------ MODULE Opening ------------------------------
(***************************************************************************)
(* What connecting promises.  A connection opens only on an answer that    *)
(* accepts this client's key; the frames that the server sent behind its   *)
(* answer, even in the same packet, are then delivered whole and in order. *)
(* An attempt that was answered ends, and so does the delivery: Settles    *)
(* and Delivers say that apart from the steps.                             *)
(***************************************************************************)
EXTENDS Integers, Sequences

CONSTANTS
  Offers,            \* the answers of servers, each with the frames behind it
  NoOffer,
  Acceptable(_, _)   \* whether an offer completes the handshake for a key

VARIABLES
  outcome,    \* "pending", "open" or "failed"
  key,        \* the client's key
  offer,      \* the server's answer
  delivered   \* frames handed to the reader

vars == <<outcome, key, offer, delivered>>

Init ==
  /\ outcome = "pending"
  /\ offer = NoOffer
  /\ delivered = << >>

\* The client chooses its key before it can be answered.
Ask ==
  /\ outcome = "pending" /\ offer = NoOffer
  /\ UNCHANGED <<outcome, offer, delivered>>

Answer ==
  /\ outcome = "pending" /\ offer = NoOffer
  /\ offer' \in Offers
  /\ UNCHANGED <<outcome, key, delivered>>

Open ==
  /\ outcome = "pending" /\ offer # NoOffer
  /\ Acceptable(offer, key)
  /\ outcome' = "open"
  /\ UNCHANGED <<key, offer, delivered>>

Fail ==
  /\ outcome # "failed"
  /\ outcome' = "failed"
  /\ UNCHANGED <<key, offer, delivered>>

Deliver ==
  /\ outcome = "open"
  /\ Len(delivered) < Len(offer.frames)
  /\ delivered' = Append(delivered, offer.frames[Len(delivered) + 1])
  /\ UNCHANGED <<outcome, key, offer>>

Next == Ask \/ Answer \/ Open \/ Fail \/ Deliver

Spec == Init /\ [][Next]_vars

\* An answer that is complete settles the attempt, and an open connection
\* delivers every frame of it, unless it fails.
Settles == (offer # NoOffer /\ offer.ended) ~> (outcome # "pending")

Drained == offer # NoOffer /\ delivered = offer.frames

Delivers == (outcome = "open") ~> (Drained \/ outcome = "failed")

=============================================================================
