-------------------------- MODULE GamesyncDelivery --------------------------
(***************************************************************************)
(* One KeepUserSession stream between the server and the transport         *)
(* (src/gamesync_delivery.go): publishers put messages into a bounded      *)
(* queue, a goroutine writes them to the transport, and the handler waits  *)
(* for requests.  A slow client must lose its stream and nothing else: no  *)
(* message in the middle, and no goroutine of the server.                  *)
(*                                                                         *)
(* An action is a critical section of d.mu, a channel operation or a call  *)
(* of the transport.  Messages are numbered as they are offered.           *)
(***************************************************************************)
EXTENDS Naturals, Sequences

CONSTANTS
    QueueLimit,        (* capacity of d.queue (256 in the code)            *)
    ByteLimit,         (* 4 MiB                                            *)
    Size,              (* message -> proto.Size                            *)
    MaxMessages,       (* bound: messages offered                          *)
    MaxRequests        (* bound: requests of the client                    *)

Message == 1..MaxMessages

ASSUME DeliveryAssumption ==
    /\ QueueLimit \in Nat /\ ByteLimit \in Nat
    /\ MaxMessages \in Nat /\ MaxRequests \in Nat
    /\ Size \in [Message -> Nat]

VARIABLES
    offered,           (* messages offered to Send so far                  *)
    outbox,            (* d.queue                                          *)
    bytes,             (* d.bytes                                          *)
    failed,            (* d.err # nil, and with it d.done is closed        *)
    run,               (* where the writing goroutine stands               *)
    held,              (* the message it took from the outbox, or 0        *)
    client,            (* "there", or "gone": the stream's context is done *)
    handler,           (* where KeepUserSession stands                     *)
    receiver,          (* the goroutine inside Recv                        *)
    requests,          (* requests received so far                         *)
    accepted,          (* history: the messages that were queued           *)
    arrived            (* history: the messages the transport has taken    *)

history == <<accepted, arrived>>
input == <<client, handler, receiver, requests>>
deliveryVars == <<offered, outbox, bytes, failed, run, held, input, history>>

DeliveryTypeOK ==
    /\ offered \in 0..MaxMessages
    /\ outbox \in Seq(Message) /\ Len(outbox) <= QueueLimit
    /\ bytes \in Nat
    /\ failed \in BOOLEAN
    /\ run \in {"select", "taken", "sending", "sent", "ended"}
    /\ held \in Message \cup {0} /\ (held = 0 <=> run \in {"select", "ended"})
    /\ client \in {"there", "gone"}
    /\ handler \in {"calling", "waiting", "returned"}
    /\ receiver \in {"none", "reading", "request", "end"}
    /\ requests \in 0..MaxRequests
    /\ accepted \in Seq(Message)
    /\ arrived \in Seq(Message)

DeliveryInit ==
    /\ offered = 0 /\ outbox = <<>> /\ bytes = 0 /\ failed = FALSE
    /\ run = "select" /\ held = 0
    /\ client = "there" /\ handler = "calling" /\ receiver = "none" /\ requests = 0
    /\ accepted = <<>> /\ arrived = <<>>

(* The context ends with the client, and when the handler has returned. *)
ContextDone == client = "gone" \/ handler = "returned"

-----------------------------------------------------------------------------
(* Send: a publisher or the handler, under d.mu *)

Fits(m) == bytes + Size[m] <= ByteLimit /\ Len(outbox) < QueueLimit

(* Mutant: a message that does not fit is passed over. *)
SendOrDrop(m) ==
    /\ m = offered + 1 /\ offered' = m
    /\ IF ~ failed /\ Fits(m)
       THEN /\ outbox' = Append(outbox, m) /\ bytes' = bytes + Size[m]
            /\ accepted' = Append(accepted, m)
       ELSE UNCHANGED <<outbox, bytes, accepted>>
    /\ UNCHANGED <<failed, run, held, input, arrived>>

Send(m) ==
    /\ m = offered + 1 /\ offered' = m
    /\ IF ~ failed /\ Fits(m)
       THEN /\ outbox' = Append(outbox, m) /\ bytes' = bytes + Size[m]
            /\ accepted' = Append(accepted, m)
            /\ UNCHANGED failed
       ELSE failed' = TRUE /\ UNCHANGED <<outbox, bytes, accepted>>
    /\ UNCHANGED <<run, held, input, arrived>>

-----------------------------------------------------------------------------
(* run: the goroutine that writes.  A select with several cases ready      *)
(* takes any of them.                                                      *)

Quit == run' = "ended" /\ held' = 0

SeeDone ==
    /\ run = "select" /\ failed /\ Quit
    /\ UNCHANGED <<offered, outbox, bytes, failed, input, history>>

SeeContextDone ==
    /\ run = "select" /\ ContextDone /\ Quit
    /\ failed' = TRUE
    /\ UNCHANGED <<offered, outbox, bytes, input, history>>

(* Mutant: the last message queued is taken. *)
TakeLast ==
    /\ run = "select" /\ outbox # <<>>
    /\ held' = outbox[Len(outbox)] /\ outbox' = SubSeq(outbox, 1, Len(outbox) - 1)
    /\ run' = "taken"
    /\ UNCHANGED <<offered, bytes, failed, input, history>>

Take ==
    /\ run = "select" /\ outbox # <<>>
    /\ held' = Head(outbox) /\ outbox' = Tail(outbox)
    /\ run' = "taken"
    /\ UNCHANGED <<offered, bytes, failed, input, history>>

CheckFailure ==
    /\ run = "taken"
    /\ IF failed THEN Quit ELSE run' = "sending" /\ UNCHANGED held
    /\ UNCHANGED <<offered, outbox, bytes, failed, input, history>>

(* The transport takes the message; a slow client's may never. *)
Transmit ==
    /\ run = "sending" /\ run' = "sent"
    /\ arrived' = Append(arrived, held)
    /\ UNCHANGED <<offered, outbox, bytes, failed, held, input, accepted>>

TransmitFails ==
    /\ run = "sending" /\ ContextDone /\ Quit
    /\ failed' = TRUE
    /\ UNCHANGED <<offered, outbox, bytes, input, history>>

(* Mutant: what the client got keeps counting. *)
SentStillCounts ==
    /\ run = "sent" /\ run' = "select" /\ held' = 0
    /\ UNCHANGED <<offered, outbox, bytes, failed, input, history>>

Account ==
    /\ run = "sent" /\ run' = "select"
    /\ bytes' = bytes - Size[held] /\ held' = 0
    /\ UNCHANGED <<offered, outbox, failed, input, history>>

-----------------------------------------------------------------------------
(* The handler: Recv, which reads in a goroutine of its own *)

Recv ==
    /\ handler = "calling" /\ handler' = "waiting"
    /\ receiver' = "reading"
    /\ UNCHANGED <<offered, outbox, bytes, failed, run, held, client, requests, history>>

(* A request arrives, the client closes its side, or the stream's context  *)
(* is done: the pending read returns into its channel of capacity one.     *)
ReadRequest ==
    /\ receiver = "reading" /\ requests < MaxRequests
    /\ requests' = requests + 1 /\ receiver' = "request"
    /\ UNCHANGED <<offered, outbox, bytes, failed, run, held, client, handler, history>>

ReadEnd ==
    /\ receiver = "reading" /\ receiver' = "end"
    /\ UNCHANGED <<offered, outbox, bytes, failed, run, held, client, handler, requests, history>>

(* KeepUserSession returns, and its deferred stop fails the delivery. *)
Return ==
    /\ handler' = "returned" /\ failed' = TRUE
    /\ UNCHANGED <<offered, outbox, bytes, run, held, client, requests, history>>

(* Mutant: a handler that waits for a request does not see the failure. *)
WakeByRequestOnly ==
    /\ handler = "waiting" /\ receiver \in {"request", "end"} /\ receiver' = "none"
    /\ \/ /\ receiver = "request" /\ handler' = "calling"
          /\ UNCHANGED <<offered, outbox, bytes, failed, run, held, client, requests, history>>
       \/ Return

(* The select of Recv.  A request is served (the answer goes through Send) *)
(* unless its session is gone; an end or a failure ends the handler.       *)
Wake ==
    /\ handler = "waiting"
    /\ \/ /\ receiver = "request" /\ handler' = "calling" /\ receiver' = "none"
          /\ UNCHANGED <<offered, outbox, bytes, failed, run, held, client, requests, history>>
       \/ receiver \in {"request", "end"} /\ receiver' = "none" /\ Return
       \/ (failed \/ ContextDone) /\ UNCHANGED receiver /\ Return

(* The client hangs up, or its connection breaks. *)
ClientGone ==
    /\ client = "there" /\ client' = "gone"
    /\ UNCHANGED <<offered, outbox, bytes, failed, run, held, handler, receiver, requests, history>>

DeliveryNext ==
    \/ \E m \in Message : Send(m)
    \/ SeeDone \/ SeeContextDone \/ Take \/ CheckFailure
    \/ Transmit \/ TransmitFails \/ Account
    \/ Recv \/ ReadRequest \/ ReadEnd \/ Wake \/ ClientGone

DeliverySpec == DeliveryInit /\ [][DeliveryNext]_deliveryVars

(* The goroutines of the server go on; the transport only promises to give *)
(* up when the context is done, and the client nothing.                    *)
DeliveryFairness ==
    /\ WF_deliveryVars(SeeDone \/ SeeContextDone \/ CheckFailure \/ Account)
    /\ WF_deliveryVars(TransmitFails)
    /\ WF_deliveryVars(ContextDone /\ ReadEnd)
    /\ WF_deliveryVars(Recv \/ Wake)
DeliveryFairSpec == DeliverySpec /\ DeliveryFairness

-----------------------------------------------------------------------------
(* What was accepted and has not arrived is in the hands of the writing    *)
(* goroutine or in the outbox, in order, until the stream fails.           *)
InHand == IF run \in {"taken", "sending"} THEN <<held>> ELSE <<>>
NothingLost == run # "ended" => accepted = arrived \o InHand \o outbox

(* Saturation fails the stream rather than silently dropping a message:    *)
(* while it has not failed, every message offered was accepted.            *)
NothingDropped == ~ failed => accepted = [m \in 1..offered |-> m]

(* The sizes of the messages of q together. *)
SizeOf(q) ==
    LET size[i \in 0..Len(q)] == IF i = 0 THEN 0 ELSE size[i - 1] + Size[q[i]]
    IN  size[Len(q)]

(* And only saturation does: what counts against the limit is what the     *)
(* client has not got yet, however much he was sent before.                *)
BytesAreWaiting ==
    run # "ended" => bytes = SizeOf(outbox) + (IF held = 0 THEN 0 ELSE Size[held])

DeliveryIsSound == DeliveryTypeOK /\ NothingDropped /\ BytesAreWaiting

(* However a stream fails, in the outbox, in the transport or at the       *)
(* client, its handler returns and both goroutines end.                    *)
FailureEndsAll ==
    failed ~> (handler = "returned" /\ run = "ended" /\ receiver # "reading")

Promise == INSTANCE OrderedStream WITH delivered <- arrived
(* The outbox, its goroutines and its limits implement an ordered stream.  *)
ImplementsOrderedStream == Promise!Spec
=============================================================================
