--------------------------- MODULE OrderedStream ---------------------------
(***************************************************************************)
(* What a Gamesync stream promises its client, without queue, goroutines   *)
(* or limits: messages arrive in the order in which they were accepted,    *)
(* none is left out and none comes twice, and a stream that has failed     *)
(* accepts no more.  The abstract specification of GamesyncDelivery.       *)
(***************************************************************************)
EXTENDS Naturals, Sequences

CONSTANT Message

VARIABLES
    accepted,          (* the messages accepted so far, in order           *)
    delivered,         (* those of them that have arrived                  *)
    failed

vars == <<accepted, delivered, failed>>

Init == accepted = <<>> /\ delivered = <<>> /\ failed = FALSE

Accept(m) ==
    /\ ~ failed
    /\ accepted' = Append(accepted, m)
    /\ UNCHANGED <<delivered, failed>>

Deliver ==
    /\ Len(delivered) < Len(accepted)
    /\ delivered' = Append(delivered, accepted[Len(delivered) + 1])
    /\ UNCHANGED <<accepted, failed>>

Fail ==
    /\ failed' = TRUE
    /\ UNCHANGED <<accepted, delivered>>

Next == (\E m \in Message : Accept(m)) \/ Deliver \/ Fail

Spec == Init /\ [][Next]_vars
=============================================================================
