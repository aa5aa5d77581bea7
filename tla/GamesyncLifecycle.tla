-------------------------- MODULE GamesyncLifecycle --------------------------
(***************************************************************************)
(* How a member of a room comes to Gamesync and leaves it: IssueToken and  *)
(* KeepUserSession of src/gamesync.go, and the disconnect timers of        *)
(* src/gamesync_store.go.                                                  *)
(*                                                                         *)
(* Three locks are involved.  g.mu guards the maps, registry.mu the        *)
(* roster, and publication serializes whatever changes what subscribers    *)
(* see; expireSession holds publication while it takes the other two in    *)
(* turn.  An action is a critical section of g.mu or registry.mu.          *)
(*                                                                         *)
(* The model is one room.  A user session is a fresh UUID per admission,   *)
(* so a member who departed never gets his session id again.  Every call   *)
(* schedules at most one timer, which is named by the call.                *)
(***************************************************************************)
EXTENDS Naturals, Sequences, FiniteSets

CONSTANTS
    Member,            (* user sessions admitted to the room               *)
    MaxCalls,          (* bound: IssueToken and KeepUserSession calls      *)
    Nil,               (* the nil *time.Timer                              *)
    LateAssignment     (* may the callback of time.AfterFunc(0, ...) read  *)
                       (* the variable timer before it is assigned?        *)

Call == 1..MaxCalls    (* the calls, in the order they reach the server *)

ASSUME CallAssumption ==
    MaxCalls \in Nat /\ Nil \notin Call /\ LateAssignment \in BOOLEAN
ASSUME MemberAssumption == Nil \notin Member

VARIABLES
    members,           (* registry: who has a seat                         *)
    sessions,          (* g.sessions, and with it the docs/__us documents  *)
    issued,            (* who was given an access token                    *)
    streamCounts,      (* g.streamCounts, 0 where the map has no key       *)
    disconnectTimers,  (* g.disconnectTimers: a call's timer, or Nil       *)
    timer,             (* what became of each call's timer                 *)
    sees,              (* the pointer its callback compares                *)
    expiring,          (* whose expireSession holds publication, or Nil    *)
    caller,            (* the member who made each call so far             *)
    pc,                (* where each call stands                           *)
    listed,            (* calls whose subscriber has a docs/__us target    *)
    view               (* the docs/__us documents it was sent              *)

timers == <<disconnectTimers, timer, sees>>
calls  == <<caller, pc>>
views  == <<listed, view>>
vars   == <<members, sessions, issued, streamCounts, timers, expiring, calls, views>>

TypeOK ==
    /\ members \subseteq Member /\ sessions \subseteq Member /\ issued \subseteq Member
    /\ streamCounts \in [Member -> Nat]
    /\ disconnectTimers \in [Member -> Call \cup {Nil}]
    /\ timer \in [Call -> {"none", "armed", "fired", "over"}]
    /\ sees \in [Call -> Call \cup {Nil}]
    /\ expiring \in Member \cup {Nil}
    /\ caller \in Seq(Member) /\ Len(caller) <= MaxCalls
    /\ pc \in [Call -> {"idle", "checked", "remembered",          \* IssueToken
                        "authorized", "open", "leaving",          \* KeepUserSession
                        "closed"}]
    /\ \A n \in Call : pc[n] = "idle" <=> n > Len(caller)
    /\ listed \subseteq Call /\ view \in [Call -> SUBSET Member]

Init ==
    /\ members = Member /\ sessions = {} /\ issued = {}
    /\ streamCounts = [u \in Member |-> 0]
    /\ disconnectTimers = [u \in Member |-> Nil]
    /\ timer = [n \in Call |-> "none"] /\ sees = [n \in Call |-> Nil]
    /\ expiring = Nil
    /\ caller = <<>> /\ pc = [n \in Call |-> "idle"]
    /\ listed = {} /\ view = [n \in Call |-> {}]

Publishing == expiring # Nil
Arrive(n, u) == n = Len(caller) + 1 /\ caller' = Append(caller, u)
Become(n, where) == pc' = [pc EXCEPT ![n] = where]

(* subscriber.publish and publishDeleted of u's docs/__us document. *)
Told(u)     == [n \in Call |-> IF n \in listed THEN view[n] \cup {u} ELSE view[n]]
ToldGone(u) == [n \in Call |-> view[n] \ {u}]

-----------------------------------------------------------------------------
(* Timers *)

(* timer.Stop() of the timer a member has: nothing once it has fired. *)
Stopped(u) ==
    [n \in Call |->
        IF n = disconnectTimers[u] /\ timer[n] = "armed" THEN "over" ELSE timer[n]]

(* Mutant: a timer that is there already is left alone, as if it were      *)
(* always the right one.                                                   *)
ScheduleOnce(n, u, soon) ==
    IF streamCounts[u] > 0 \/ disconnectTimers[u] # Nil THEN UNCHANGED timers
    ELSE /\ timer' = [timer EXCEPT ![n] = "armed"]
         /\ sees' = [sees EXCEPT ![n] = n]
         /\ disconnectTimers' = [disconnectTimers EXCEPT ![u] = n]

(* scheduleDisconnect.  The callback is a closure over the variable timer, *)
(* which is assigned when time.AfterFunc has returned; with no delay it    *)
(* may run and read nil before that (a data race).                         *)
Schedule(n, u, soon) ==
    IF streamCounts[u] > 0 THEN UNCHANGED timers
    ELSE /\ disconnectTimers' = [disconnectTimers EXCEPT ![u] = n]
         /\ \/ /\ timer' = [Stopped(u) EXCEPT ![n] = "armed"]
               /\ sees' = [sees EXCEPT ![n] = n]
            \/ /\ soon /\ LateAssignment
               /\ timer' = [Stopped(u) EXCEPT ![n] = "fired"]
               /\ sees' = [sees EXCEPT ![n] = Nil]

(* The delay is over: the runtime starts the callback's goroutine. *)
Fire(n) ==
    /\ timer[n] = "armed"
    /\ timer' = [timer EXCEPT ![n] = "fired"]
    /\ UNCHANGED <<members, sessions, issued, streamCounts, disconnectTimers, sees,
                   expiring, calls, views>>

(* A stream was opened, or another timer set, since this one was. *)
Stale(n, u) == streamCounts[u] > 0 \/ disconnectTimers[u] # sees[n]

(* expireSession up to the release of g.mu. *)
Expire(n) ==
    LET u == caller[n] IN
    /\ timer[n] = "fired" /\ ~ Publishing
    /\ timer' = [timer EXCEPT ![n] = "over"]
    /\ IF Stale(n, u) \/ u \notin sessions
       THEN UNCHANGED <<sessions, disconnectTimers, streamCounts, expiring>>
       ELSE /\ sessions' = sessions \ {u}
            /\ disconnectTimers' = [disconnectTimers EXCEPT ![u] = Nil]
            /\ streamCounts' = [streamCounts EXCEPT ![u] = 0]
            /\ expiring' = u
    /\ UNCHANGED <<members, issued, sees, calls, views>>

(* The rest of expireSession: registry.depart, and the deletion of the     *)
(* docs/__us document is published.                                        *)
Depart ==
    /\ Publishing
    /\ members' = members \ {expiring}
    /\ view' = ToldGone(expiring)
    /\ expiring' = Nil
    /\ UNCHANGED <<sessions, issued, streamCounts, timers, calls, listed>>

-----------------------------------------------------------------------------
(* IssueToken *)

(* registry.member; anybody else is refused. *)
CheckMember(n, u) ==
    /\ Arrive(n, u) /\ u \in members
    /\ Become(n, "checked")
    /\ UNCHANGED <<members, sessions, issued, streamCounts, timers, expiring, views>>

(* Mutant: only the newcomer's own document is written, nobody is told. *)
RememberSilently(n) ==
    /\ pc[n] = "checked" /\ ~ Publishing
    /\ sessions' = sessions \cup {caller[n]}
    /\ Become(n, "remembered")
    /\ UNCHANGED <<members, issued, streamCounts, timers, expiring, caller, views>>

(* rememberSession: a session that exists is refreshed and nobody is told; *)
(* it does not look at the roster again.                                   *)
Remember(n) ==
    /\ pc[n] = "checked" /\ ~ Publishing
    /\ sessions' = sessions \cup {caller[n]}
    /\ view' = IF caller[n] \in sessions THEN view ELSE Told(caller[n])
    /\ Become(n, "remembered")
    /\ UNCHANGED <<members, issued, streamCounts, timers, expiring, caller, listed>>

(* Two minutes for the first stream to come; then the token is sent. *)
Issue(n) ==
    /\ pc[n] = "remembered"
    /\ Schedule(n, caller[n], FALSE)
    /\ issued' = issued \cup {caller[n]}
    /\ Become(n, "closed")
    /\ UNCHANGED <<members, sessions, streamCounts, expiring, caller, views>>

-----------------------------------------------------------------------------
(* KeepUserSession *)

(* authorizedSession; a token whose session is gone is refused. *)
Authorize(n, u) ==
    /\ Arrive(n, u) /\ u \in issued /\ u \in sessions
    /\ Become(n, "authorized")
    /\ UNCHANGED <<members, sessions, issued, streamCounts, timers, expiring, views>>

(* Mutant: the timer of the session goes on. *)
StartTimerRunning(n) ==
    LET u == caller[n] IN
    /\ pc[n] = "authorized"
    /\ disconnectTimers' = [disconnectTimers EXCEPT ![u] = Nil]
    /\ Become(n, "open")
    /\ UNCHANGED <<members, sessions, issued, streamCounts, timer, sees, expiring, caller, views>>

(* streamStarted.  The subscriber added just before has no target yet. *)
Start(n) ==
    LET u == caller[n] IN
    /\ pc[n] = "authorized"
    /\ streamCounts' = [streamCounts EXCEPT ![u] = @ + 1]
    /\ timer' = Stopped(u)
    /\ disconnectTimers' = [disconnectTimers EXCEPT ![u] = Nil]
    /\ Become(n, "open")
    /\ UNCHANGED <<members, sessions, issued, sees, expiring, caller, views>>

(* The client subscribes to docs/__us: the snapshot is queued under the    *)
(* publication lock.                                                       *)
InstallTarget(n) ==
    /\ pc[n] = "open" /\ caller[n] \in sessions /\ ~ Publishing
    /\ listed' = listed \cup {n}
    /\ view' = [view EXCEPT ![n] = sessions]
    /\ UNCHANGED <<members, sessions, issued, streamCounts, timers, expiring, calls>>

(* Mutant: last is read before the count goes down. *)
EndReadsBefore(n) ==
    LET u == caller[n] IN
    /\ pc[n] = "open"
    /\ streamCounts' = [streamCounts EXCEPT ![u] = @ - 1]
    /\ Become(n, IF streamCounts[u] <= 0 THEN "leaving" ELSE "closed")
    /\ listed' = listed \ {n}
    /\ view' = [view EXCEPT ![n] = {}]
    /\ UNCHANGED <<members, sessions, issued, timers, expiring, caller>>

(* streamEnded, first half: the client closed the stream, it failed, or a  *)
(* request found no session any more.  What the subscriber is still sent   *)
(* before it is removed reaches nobody.                                    *)
End(n) ==
    LET u == caller[n] IN
    /\ pc[n] = "open"
    /\ streamCounts' = [streamCounts EXCEPT ![u] = @ - 1]
    /\ Become(n, IF streamCounts[u] - 1 <= 0 THEN "leaving" ELSE "closed")
    /\ listed' = listed \ {n}
    /\ view' = [view EXCEPT ![n] = {}]
    /\ UNCHANGED <<members, sessions, issued, timers, expiring, caller>>

(* streamEnded, second half, of the last stream. *)
Leave(n) ==
    /\ pc[n] = "leaving"
    /\ Schedule(n, caller[n], TRUE)
    /\ Become(n, "closed")
    /\ UNCHANGED <<members, sessions, issued, streamCounts, expiring, caller, views>>

Next ==
    \/ \E n \in Call, u \in Member : CheckMember(n, u) \/ Authorize(n, u)
    \/ \E n \in Call : Remember(n) \/ Issue(n)
    \/ \E n \in Call : Start(n) \/ InstallTarget(n) \/ End(n) \/ Leave(n)
    \/ \E n \in Call : Fire(n) \/ Expire(n)
    \/ Depart

Spec == Init /\ [][Next]_vars

(* Handlers, timers and their callbacks go on; clients owe nothing.  Weak  *)
(* fairness is enough for what waits for the publication lock: it is held  *)
(* for two steps by a callback, and every callback runs once.              *)
Fairness ==
    /\ \A n \in Call : /\ WF_vars(Remember(n) \/ Issue(n) \/ Start(n) \/ Leave(n))
                       /\ WF_vars(Fire(n) \/ Expire(n))
    /\ WF_vars(Depart)
FairSpec == Spec /\ Fairness

-----------------------------------------------------------------------------
(* SAFETY *)

Streaming(u) == {n \in DOMAIN caller : caller[n] = u /\ pc[n] = "open"}

(* g.streamCounts counts the open streams, in whatever order streams       *)
(* start, end and sessions expire: it never sticks above them or below 0.  *)
CountsMatchStreams == \A u \in Member : streamCounts[u] = Cardinality(Streaming(u))

(* A timer that is running or whose callback will find itself current. *)
Doomed(u) ==
    LET n == disconnectTimers[u] IN
    n # Nil /\ sees[n] = n /\ timer[n] \in {"armed", "fired"}

(* The disconnect lifecycle is bounded: a session without a stream has a   *)
(* timer that will expire it, or a call about to set one.  Otherwise it    *)
(* keeps its seat for ever.                                                *)
SessionsAreBounded ==
    \A u \in sessions :
        \/ streamCounts[u] > 0 \/ Doomed(u)
        \/ \E n \in DOMAIN caller : caller[n] = u /\ pc[n] \in {"remembered", "leaving"}

(* What a subscriber was sent is the sessions there are: nobody who joined *)
(* is missing and nobody who left stays, whatever raced with the snapshot. *)
ViewsAgree ==
    ~ Publishing => \A n \in listed : view[n] = sessions

(* A session is not expired under an open stream by an older timer.        *)
StreamsKeepTheirSession ==
    [][\A n \in DOMAIN caller :
         pc[n] = "open" /\ pc'[n] = "open" /\ caller[n] \in sessions
         => caller[n] \in sessions']_vars

(* Expiration wins over stale credentials: a session belongs to a member.  *)
SessionsAreMembers == sessions \subseteq members

(* LIVENESS: a member whose calls have all ended departs, or comes back.   *)
DisconnectedDeparts ==
    \A u \in Member :
        LET Quiet == \A n \in DOMAIN caller : caller[n] = u => pc[n] = "closed"
        IN  (u \in sessions /\ Quiet) ~> (u \notin members \/ ~ Quiet)
=============================================================================
