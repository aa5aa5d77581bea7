---------------------------- MODULE TitleServices ----------------------------
(***************************************************************************)
(* The services of the process that keep state apart from rooms, Gamesync  *)
(* documents and ranked results: hosted competitions, rental teams and     *)
(* penalties, stored contents, Union Circle codes, reads of rooms page by  *)
(* page, and the page of who is online (buildServer, src/main.go).         *)
(*                                                                         *)
(* Each has maps and a mutex of its own, none calls another, and every     *)
(* property below speaks of one of them.  What one of them does in a       *)
(* behaviour it also does in the behaviour in which the others are never   *)
(* called, so a behaviour here uses one service only.                      *)
(***************************************************************************)
EXTENDS CompetitionHosting, UgcStore, UnionCircle, PagedReads, Dashboard, Datastore

serviceVars == <<hostingVars, ugcVars, circleVars, pagedVars, boardVars, contentVars>>

ServicesInit ==
    HostingInit /\ UgcInit /\ CircleInit /\ PagedInit /\ BoardInit /\ ContentInit

HostingAlone ==
    /\ UgcInit /\ CircleInit /\ PagedInit /\ BoardInit /\ ContentInit
    /\ HostingNext
    /\ UNCHANGED <<ugcVars, circleVars, pagedVars, boardVars, contentVars>>

UgcAlone ==
    /\ HostingInit /\ CircleInit /\ PagedInit /\ BoardInit /\ ContentInit
    /\ UgcNext
    /\ UNCHANGED <<hostingVars, circleVars, pagedVars, boardVars, contentVars>>

CirclesAlone ==
    /\ HostingInit /\ UgcInit /\ PagedInit /\ BoardInit /\ ContentInit
    /\ CircleNext
    /\ UNCHANGED <<hostingVars, ugcVars, pagedVars, boardVars, contentVars>>

ReadsAlone ==
    /\ HostingInit /\ UgcInit /\ CircleInit /\ BoardInit /\ ContentInit
    /\ PagedNext
    /\ UNCHANGED <<hostingVars, ugcVars, circleVars, boardVars, contentVars>>

BoardAlone ==
    /\ HostingInit /\ UgcInit /\ CircleInit /\ PagedInit /\ ContentInit
    /\ BoardNext
    /\ UNCHANGED <<hostingVars, ugcVars, circleVars, pagedVars, contentVars>>

ContentsAlone ==
    /\ HostingInit /\ UgcInit /\ CircleInit /\ PagedInit /\ BoardInit
    /\ ContentNext
    /\ UNCHANGED <<hostingVars, ugcVars, circleVars, pagedVars, boardVars>>

ServicesNext ==
    HostingAlone \/ UgcAlone \/ CirclesAlone \/ ReadsAlone \/ BoardAlone \/ ContentsAlone

ServicesSpec == ServicesInit /\ [][ServicesNext]_serviceVars

(* The states of the services have their types, and no stored message      *)
(* grows as it is edited again and again.                                  *)
ServicesTypeOK ==
    HostingTypeOK /\ UgcTypeOK /\ CircleTypeOK /\ PagedTypeOK /\ BoardTypeOK /\ ContentTypeOK

(* And no edit of a competition hands it to somebody who may not host it,  *)
(* and no stored content is lost but to a call of the same tick.           *)
ServicesAreSound == ServicesTypeOK /\ ReferencesAreOwn /\ ContentsAreFound
=============================================================================
