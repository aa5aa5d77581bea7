---------------------------- MODULE ServerStreams ----------------------------
(***************************************************************************)
(* The long streams of the process beside rooms: TrackTradeBox,            *)
(* ReceiveCompetitionNotification, and the delivery of a KeepUserSession   *)
(* stream.  Each ends a wait of one goroutine by what others do, and must  *)
(* neither lose the signal nor leave a goroutine behind.                   *)
(*                                                                         *)
(* They share no state and no lock, and every property speaks of one of    *)
(* them, so a behaviour here uses one kind of stream only.                 *)
(***************************************************************************)
EXTENDS TradeBox, CompetitionNotification, GamesyncDelivery

VARIABLE kind       (* the one kind of stream this behaviour uses           *)

streamVars == <<vars, notificationVars, deliveryVars, kind>>

StreamsInit ==
    /\ kind \in {"boxes", "notifications", "delivery"}
    /\ Init /\ NotificationInit /\ DeliveryInit

BoxesAlone == kind = "boxes" /\ Next /\ UNCHANGED <<notificationVars, deliveryVars, kind>>
NotificationsAlone ==
    kind = "notifications" /\ NotificationNext /\ UNCHANGED <<vars, deliveryVars, kind>>
DeliveryAlone == kind = "delivery" /\ DeliveryNext /\ UNCHANGED <<vars, notificationVars, kind>>

StreamsNext == BoxesAlone \/ NotificationsAlone \/ DeliveryAlone

(* The fairness of each: the server's goroutines go on.  A KeepUserSession *)
(* handler has something to do from the start, the others have not.        *)
StreamsSpec ==
    /\ StreamsInit /\ [][StreamsNext]_streamVars
    /\ Fairness /\ NotificationFairness
    /\ kind = "delivery" => DeliveryFairness
=============================================================================
