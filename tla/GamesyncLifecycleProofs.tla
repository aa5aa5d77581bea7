----------------------- MODULE GamesyncLifecycleProofs -----------------------
(***************************************************************************)
(* What GamesyncLifecycle keeps true for any number of members and calls.  *)
(* Only SessionsAreBounded needs the callback of a timer without delay to  *)
(* read the variable timer after it was assigned.                          *)
(***************************************************************************)
EXTENDS GamesyncLifecycle, FiniteSetTheorems, TLAPS

(* A timer belongs to the call that set it, and a member's timer was set   *)
(* by a call of that member.                                               *)
TimersHaveCallers ==
    /\ \A n \in Call : timer[n] \in {"armed", "fired"} => n \in DOMAIN caller
    /\ \A u \in Member :
         disconnectTimers[u] # Nil =>
            disconnectTimers[u] \in DOMAIN caller /\ caller[disconnectTimers[u]] = u

(* ViewsAgree, and what it becomes while a departure is being published.   *)
ViewsFollow ==
    /\ Publishing => expiring \notin sessions
    /\ \A n \in listed : view[n] = sessions \cup (IF Publishing THEN {expiring} ELSE {})

IInv == TypeOK /\ CountsMatchStreams /\ TimersHaveCallers /\ ViewsFollow

-----------------------------------------------------------------------------
(* Facts about a state *)

LEMMA CallIsNat == Call \subseteq Nat \ {0} /\ Nil \notin Call /\ MaxCalls \in Nat
BY CallAssumption DEF Call

LEMMA DomainOfCaller ==
    ASSUME TypeOK
    PROVE  /\ DOMAIN caller \subseteq Call
           /\ \A n \in Call : pc[n] # "idle" <=> n \in DOMAIN caller
           /\ \A n \in DOMAIN caller : caller[n] \in Member
BY CallAssumption DEF TypeOK, Call

LEMMA StreamingIsFinite ==
    ASSUME TypeOK, NEW u
    PROVE  IsFiniteSet(Streaming(u))
<1>1. Streaming(u) \subseteq 1..MaxCalls
  BY DomainOfCaller DEF Streaming, Call
<1>2. IsFiniteSet(1..MaxCalls)
  BY FS_Interval, CallIsNat
<1> QED
  BY <1>1, <1>2, FS_Subset

(* An open stream is counted. *)
LEMMA OpenIsCounted ==
    ASSUME TypeOK, CountsMatchStreams, NEW n \in DOMAIN caller, pc[n] = "open"
    PROVE  streamCounts[caller[n]] \in Nat /\ streamCounts[caller[n]] > 0
<1> DEFINE u == caller[n]
<1>1. u \in Member
  BY DomainOfCaller
<1>2. n \in Streaming(u)
  BY DEF Streaming
<1>3. IsFiniteSet(Streaming(u))
  BY StreamingIsFinite
<1>4. Cardinality(Streaming(u)) # 0
  BY <1>2, <1>3, FS_EmptySet
<1>5. streamCounts[u] = Cardinality(Streaming(u)) /\ streamCounts[u] \in Nat
  BY <1>1 DEF CountsMatchStreams, TypeOK
<1> QED
  BY <1>4, <1>5

(* The call that arrives is not open. *)
LEMMA StreamingOnArrival ==
    ASSUME TypeOK, NEW n \in Call, NEW u \in Member, Arrive(n, u),
           NEW where, where # "open", Become(n, where)
    PROVE  \A v \in Member : Streaming(v)' = Streaming(v)
<1>1. /\ DOMAIN caller' = DOMAIN caller \cup {n} /\ n \notin DOMAIN caller
      /\ \A m \in DOMAIN caller : caller'[m] = caller[m]
  BY DEF TypeOK, Arrive
<1>2. pc'[n] # "open" /\ \A m \in DOMAIN caller : pc'[m] = pc[m]
  BY <1>1, DomainOfCaller DEF Become, TypeOK
<1> QED
  BY <1>1, <1>2 DEF Streaming

(* Nor is a call that goes from one closed state to another. *)
LEMMA StreamingUnmoved ==
    ASSUME TypeOK, NEW n \in Call, pc[n] # "open",
           NEW where, where # "open", Become(n, where), UNCHANGED caller
    PROVE  \A v \in Member : Streaming(v)' = Streaming(v)
BY DomainOfCaller DEF Become, TypeOK, Streaming

-----------------------------------------------------------------------------
(* Steps *)

(* The timers after scheduleDisconnect. *)
LEMMA ScheduleKeeps ==
    ASSUME TypeOK, TimersHaveCallers, NEW n \in DOMAIN caller, NEW soon,
           Schedule(n, caller[n], soon), UNCHANGED caller
    PROVE  /\ disconnectTimers' \in [Member -> Call \cup {Nil}]
           /\ timer' \in [Call -> {"none", "armed", "fired", "over"}]
           /\ sees' \in [Call -> Call \cup {Nil}]
           /\ TimersHaveCallers'
<1> DEFINE u == caller[n]
<1>1. n \in Call /\ u \in Member
  BY DomainOfCaller
<1>2. CASE UNCHANGED timers
  BY <1>2 DEF timers, TypeOK, TimersHaveCallers
<1>3. CASE ~ UNCHANGED timers
  <2>1. PICK fate \in {"armed", "fired"}, it \in Call \cup {Nil} :
          /\ disconnectTimers' = [disconnectTimers EXCEPT ![u] = n]
          /\ timer' = [Stopped(u) EXCEPT ![n] = fate]
          /\ sees' = [sees EXCEPT ![n] = it]
    BY <1>1, <1>3 DEF Schedule
  <2>2. /\ Stopped(u) \in [Call -> {"none", "armed", "fired", "over"}]
        /\ \A m \in Call : Stopped(u)[m] \in {"armed", "fired"}
                            => timer[m] \in {"armed", "fired"}
    BY DEF Stopped, TypeOK
  <2>3. /\ disconnectTimers' \in [Member -> Call \cup {Nil}]
        /\ timer' \in [Call -> {"none", "armed", "fired", "over"}]
        /\ sees' \in [Call -> Call \cup {Nil}]
    BY <1>1, <2>1, <2>2 DEF TypeOK
  <2>4. \A m \in Call : timer'[m] \in {"armed", "fired"} => m \in DOMAIN caller'
    BY <1>1, <2>1, <2>2 DEF TimersHaveCallers
  <2>5. \A v \in Member :
          disconnectTimers'[v] # Nil =>
             disconnectTimers'[v] \in DOMAIN caller' /\ caller'[disconnectTimers'[v]] = v
    BY <1>1, <2>1 DEF TimersHaveCallers, TypeOK
  <2> QED
    BY <2>3, <2>4, <2>5 DEF TimersHaveCallers
<1> QED
  BY <1>2, <1>3

(* The arrival of a call keeps what is said of the calls before it. *)
LEMMA ArriveKeeps ==
    ASSUME TypeOK, NEW n \in Call, NEW u \in Member, Arrive(n, u)
    PROVE  /\ caller' \in Seq(Member) /\ Len(caller') = n
           /\ Len(caller) = n - 1
           /\ DOMAIN caller \subseteq DOMAIN caller'
           /\ \A m \in DOMAIN caller : caller'[m] = caller[m]
BY DEF TypeOK, Arrive

(* An expiration that does something. *)
Expires(u) ==
    /\ u \in sessions /\ u \in Member /\ ~ streamCounts[u] > 0
    /\ sessions' = sessions \ {u}
    /\ disconnectTimers' = [disconnectTimers EXCEPT ![u] = Nil]
    /\ streamCounts' = [streamCounts EXCEPT ![u] = 0]
    /\ expiring' = u

LEMMA ExpireCases ==
    ASSUME TypeOK, TimersHaveCallers, NEW n \in Call, Expire(n)
    PROVE  /\ n \in DOMAIN caller /\ caller[n] \in Member
           /\ UNCHANGED <<members, issued, sees, caller, pc, listed, view>>
           /\ timer' = [timer EXCEPT ![n] = "over"] /\ ~ Publishing
           /\ \/ /\ UNCHANGED <<sessions, disconnectTimers, streamCounts, expiring>>
                 /\ \/ caller[n] \notin sessions
                    \/ Stale(n, caller[n])
              \/ Expires(caller[n])
<1>1. n \in DOMAIN caller /\ caller[n] \in Member
  BY DomainOfCaller DEF Expire, TimersHaveCallers
<1>2. UNCHANGED <<members, issued, sees, caller, pc, listed, view>>
  BY DEF Expire, calls, views
<1>3. timer' = [timer EXCEPT ![n] = "over"] /\ ~ Publishing
  BY DEF Expire
<1>4. CASE Stale(n, caller[n]) \/ caller[n] \notin sessions
  <2>1. UNCHANGED <<sessions, disconnectTimers, streamCounts, expiring>>
    BY <1>4 DEF Expire
  <2> QED
    BY <1>1, <1>2, <1>3, <1>4, <2>1
<1>5. CASE ~ Stale(n, caller[n]) /\ caller[n] \in sessions
  <2>1. /\ sessions' = sessions \ {caller[n]}
        /\ disconnectTimers' = [disconnectTimers EXCEPT ![caller[n]] = Nil]
        /\ streamCounts' = [streamCounts EXCEPT ![caller[n]] = 0]
        /\ expiring' = caller[n]
    BY <1>5 DEF Expire
  <2>2. Expires(caller[n])
    BY <1>1, <1>5, <2>1 DEF Expires, Stale
  <2> QED
    BY <1>1, <1>2, <1>3, <2>2
<1> QED
  BY <1>4, <1>5

LEMMA TypeStep == IInv /\ [Next]_vars => TypeOK'
<1> SUFFICES ASSUME IInv, [Next]_vars PROVE TypeOK'
  OBVIOUS
<1> USE DEF IInv
<1>1. ASSUME NEW n \in Call, NEW u \in Member, CheckMember(n, u) \/ Authorize(n, u)
      PROVE  TypeOK'
  <2>1. PICK where \in {"checked", "authorized"} : Arrive(n, u) /\ Become(n, where)
    BY <1>1 DEF CheckMember, Authorize
  <2>a. caller' \in Seq(Member) /\ Len(caller') = n /\ Len(caller) = n - 1
    BY <2>1, ArriveKeeps
  <2>b. n \in Nat /\ n <= MaxCalls /\ Call \subseteq Nat
    BY CallIsNat DEF Call
  <2>c. \A m \in Call : pc'[m] = "idle" <=> m > n
    <3>1. \A m \in Call : pc'[m] = "idle" <=> (pc[m] = "idle" /\ m # n)
      BY <2>1 DEF TypeOK, Become
    <3>2. \A m \in Call : pc[m] = "idle" <=> m > n - 1
      BY <2>a DEF TypeOK
    <3> QED
      BY <2>b, <3>1, <3>2
  <2>2. /\ caller' \in Seq(Member) /\ Len(caller') <= MaxCalls
        /\ \A m \in Call : pc'[m] = "idle" <=> m > Len(caller')
    BY <2>a, <2>b, <2>c
  <2>3. pc' \in [Call -> {"idle", "checked", "remembered", "authorized", "open", "leaving", "closed"}]
    BY <2>1 DEF Become, TypeOK
  <2>4. UNCHANGED <<members, sessions, issued, streamCounts, disconnectTimers, timer, sees,
                    expiring, listed, view>>
    BY <1>1 DEF CheckMember, Authorize, timers, views
  <2> QED
    BY <2>2, <2>3, <2>4 DEF TypeOK
<1>2. ASSUME NEW n \in Call, Remember(n) PROVE TypeOK'
  <2>1. caller[n] \in Member
    BY <1>2, DomainOfCaller DEF Remember
  <2>2. Told(caller[n]) \in [Call -> SUBSET Member]
    BY <2>1 DEF Told, TypeOK
  <2> QED
    BY <1>2, <2>1, <2>2 DEF Remember, Become, TypeOK, timers
<1>3. ASSUME NEW n \in Call, Issue(n) \/ Leave(n) PROVE TypeOK'
  <2>1. n \in DOMAIN caller /\ caller[n] \in Member
    BY <1>3, DomainOfCaller DEF Issue, Leave
  <2>2. PICK soon \in BOOLEAN : Schedule(n, caller[n], soon) /\ UNCHANGED caller
    BY <1>3 DEF Issue, Leave
  <2>3. /\ disconnectTimers' \in [Member -> Call \cup {Nil}]
        /\ timer' \in [Call -> {"none", "armed", "fired", "over"}]
        /\ sees' \in [Call -> Call \cup {Nil}]
    BY <2>1, <2>2, ScheduleKeeps
  <2> QED
    BY <1>3, <2>1, <2>3 DEF Issue, Leave, Become, TypeOK, views
<1>4. ASSUME NEW n \in Call, Start(n) PROVE TypeOK'
  <2>1. caller[n] \in Member
    BY <1>4, DomainOfCaller DEF Start
  <2>2. Stopped(caller[n]) \in [Call -> {"none", "armed", "fired", "over"}]
    BY DEF Stopped, TypeOK
  <2> QED
    BY <1>4, <2>1, <2>2 DEF Start, Become, TypeOK, views
<1>5. ASSUME NEW n \in Call, InstallTarget(n) PROVE TypeOK'
  BY <1>5 DEF InstallTarget, TypeOK, timers, calls
<1>6. ASSUME NEW n \in Call, End(n) PROVE TypeOK'
  <2>1. n \in DOMAIN caller /\ caller[n] \in Member /\ streamCounts[caller[n]] > 0
    BY <1>6, DomainOfCaller, OpenIsCounted DEF End
  <2>2. streamCounts' \in [Member -> Nat]
    BY <1>6, <2>1 DEF End, TypeOK
  <2>3. pc' \in [Call -> {"idle", "checked", "remembered", "authorized", "open", "leaving", "closed"}]
        /\ \A m \in Call : pc'[m] = "idle" <=> pc[m] = "idle"
    BY <1>6 DEF End, Become, TypeOK
  <2>4. UNCHANGED <<members, sessions, issued, disconnectTimers, timer, sees, expiring, caller>>
        /\ listed' \subseteq Call /\ view' \in [Call -> SUBSET Member]
    BY <1>6 DEF End, TypeOK, timers
  <2> QED
    BY <2>2, <2>3, <2>4 DEF TypeOK
<1>7. ASSUME NEW n \in Call, Fire(n) PROVE TypeOK'
  BY <1>7 DEF Fire, TypeOK, calls, views
<1>8. ASSUME NEW n \in Call, Expire(n) PROVE TypeOK'
  <2>1. /\ UNCHANGED <<members, issued, sees, caller, pc, listed, view>>
        /\ timer' \in [Call -> {"none", "armed", "fired", "over"}]
    BY <1>8, ExpireCases DEF TypeOK
  <2>2. CASE UNCHANGED <<sessions, disconnectTimers, streamCounts, expiring>>
    BY <2>1, <2>2 DEF TypeOK
  <2>3. CASE Expires(caller[n])
    BY <2>1, <2>3 DEF TypeOK, Expires
  <2> QED
    BY <1>8, <2>2, <2>3, ExpireCases
<1>9. CASE Depart
  <2>1. ToldGone(expiring) \in [Call -> SUBSET Member]
    BY DEF ToldGone, TypeOK
  <2> QED
    BY <1>9, <2>1 DEF Depart, TypeOK, timers, calls
<1>10. CASE UNCHANGED vars
  BY <1>10 DEF vars, timers, calls, views, TypeOK
<1> QED
  BY <1>1, <1>2, <1>3, <1>4, <1>5, <1>6, <1>7, <1>8, <1>9, <1>10 DEF Next

(* A timer is only ever set for the member who made the call. *)
LEMMA TimersStep == IInv /\ [Next]_vars => TimersHaveCallers'
<1> SUFFICES ASSUME IInv, [Next]_vars PROVE TimersHaveCallers'
  OBVIOUS
<1> USE DEF IInv
<1>1. ASSUME NEW n \in Call, NEW u \in Member, CheckMember(n, u) \/ Authorize(n, u)
      PROVE  TimersHaveCallers'
  <2>1. Arrive(n, u) /\ UNCHANGED <<timer, disconnectTimers>>
    BY <1>1 DEF CheckMember, Authorize, timers
  <2> QED
    BY <2>1, ArriveKeeps DEF TimersHaveCallers
<1>2. ASSUME NEW n \in Call, Issue(n) \/ Leave(n) PROVE TimersHaveCallers'
  <2>1. n \in DOMAIN caller
    BY <1>2, DomainOfCaller DEF Issue, Leave
  <2>2. PICK soon \in BOOLEAN : Schedule(n, caller[n], soon) /\ UNCHANGED caller
    BY <1>2 DEF Issue, Leave
  <2> QED
    BY <2>1, <2>2, ScheduleKeeps
<1>3. ASSUME NEW n \in Call, Start(n) PROVE TimersHaveCallers'
  <2>1. caller[n] \in Member
    BY <1>3, DomainOfCaller DEF Start
  <2>2. \A m \in Call : timer'[m] \in {"armed", "fired"} => timer[m] \in {"armed", "fired"}
    BY <1>3 DEF Start, Stopped, TypeOK
  <2>3. caller' = caller /\ disconnectTimers' = [disconnectTimers EXCEPT ![caller[n]] = Nil]
    BY <1>3 DEF Start
  <2> QED
    BY <2>1, <2>2, <2>3 DEF TimersHaveCallers, TypeOK
<1>4. ASSUME NEW n \in Call, Fire(n) PROVE TimersHaveCallers'
  BY <1>4 DEF Fire, TimersHaveCallers, TypeOK, calls
<1>5. ASSUME NEW n \in Call, Expire(n) PROVE TimersHaveCallers'
  <2>1. \A m \in Call : timer'[m] \in {"armed", "fired"} => timer[m] \in {"armed", "fired"}
    BY <1>5, ExpireCases DEF TypeOK
  <2>2. caller' = caller
    BY <1>5, ExpireCases
  <2>3. \A v \in Member : disconnectTimers'[v] # Nil => disconnectTimers'[v] = disconnectTimers[v]
    BY <1>5, ExpireCases DEF TypeOK, Expires
  <2> QED
    BY <2>1, <2>2, <2>3 DEF TimersHaveCallers
<1>6. ASSUME NEW n \in Call, Remember(n) \/ InstallTarget(n) \/ End(n) PROVE TimersHaveCallers'
  BY <1>6 DEF Remember, InstallTarget, End, TimersHaveCallers, timers, calls
<1>7. CASE Depart \/ UNCHANGED vars
  BY <1>7 DEF Depart, vars, TimersHaveCallers, timers, calls
<1> QED
  BY <1>1, <1>2, <1>3, <1>4, <1>5, <1>6, <1>7 DEF Next

(* Every stream is counted once, whatever order streams start, end and     *)
(* sessions expire in.                                                     *)
LEMMA CountsStep == IInv /\ [Next]_vars => CountsMatchStreams'
<1> SUFFICES ASSUME IInv, [Next]_vars PROVE CountsMatchStreams'
  OBVIOUS
<1> USE DEF IInv
<1>1. ASSUME UNCHANGED streamCounts, \A v \in Member : Streaming(v)' = Streaming(v)
      PROVE  CountsMatchStreams'
  BY <1>1 DEF CountsMatchStreams
<1>2. ASSUME NEW n \in Call, NEW u \in Member, CheckMember(n, u) \/ Authorize(n, u)
      PROVE  CountsMatchStreams'
  <2>1. PICK where \in {"checked", "authorized"} : Arrive(n, u) /\ Become(n, where)
    BY <1>2 DEF CheckMember, Authorize
  <2>2. \A v \in Member : Streaming(v)' = Streaming(v)
    BY <2>1, StreamingOnArrival
  <2> QED
    BY <1>1, <1>2, <2>2 DEF CheckMember, Authorize
<1>3. ASSUME NEW n \in Call, Remember(n) \/ Issue(n) \/ Leave(n) PROVE CountsMatchStreams'
  <2>1. PICK where \in {"remembered", "closed"} :
          pc[n] # "open" /\ Become(n, where) /\ UNCHANGED <<caller, streamCounts>>
    BY <1>3 DEF Remember, Issue, Leave
  <2>2. \A v \in Member : Streaming(v)' = Streaming(v)
    BY <2>1, StreamingUnmoved
  <2> QED
    BY <1>1, <2>1, <2>2
<1>4. ASSUME NEW n \in Call, Start(n) PROVE CountsMatchStreams'
  <2>0. n \in DOMAIN caller /\ caller[n] \in Member
    BY <1>4, DomainOfCaller DEF Start
  <2>1. PICK u \in Member : u = caller[n] /\ n \in DOMAIN caller
    BY <2>0
  <2>2. pc[n] # "open" /\ pc' = [pc EXCEPT ![n] = "open"] /\ caller' = caller
    BY <1>4 DEF Start, Become
  <2>3. n \notin Streaming(u) /\ Streaming(u)' = Streaming(u) \cup {n}
    BY <2>1, <2>2, DomainOfCaller DEF Streaming, TypeOK
  <2>4. \A v \in Member \ {u} : Streaming(v)' = Streaming(v)
    BY <2>1, <2>2, DomainOfCaller DEF Streaming, TypeOK
  <2>5. Cardinality(Streaming(u)') = Cardinality(Streaming(u)) + 1
    BY <2>3, StreamingIsFinite, FS_AddElement
  <2>6. streamCounts' = [streamCounts EXCEPT ![u] = @ + 1]
    BY <1>4, <2>1 DEF Start
  <2>7. streamCounts'[u] = Cardinality(Streaming(u)')
    BY <2>1, <2>5, <2>6 DEF CountsMatchStreams, TypeOK
  <2>8. \A v \in Member \ {u} : streamCounts'[v] = Cardinality(Streaming(v)')
    BY <2>1, <2>4, <2>6 DEF CountsMatchStreams, TypeOK
  <2> QED
    BY <2>7, <2>8 DEF CountsMatchStreams
<1>5. ASSUME NEW n \in Call, End(n) PROVE CountsMatchStreams'
  <2>0. n \in DOMAIN caller /\ caller[n] \in Member
    BY <1>5, DomainOfCaller DEF End
  <2>1. PICK u \in Member : u = caller[n] /\ n \in DOMAIN caller
    BY <2>0
  <2>2. PICK where \in {"leaving", "closed"} :
          pc[n] = "open" /\ pc' = [pc EXCEPT ![n] = where] /\ caller' = caller
    BY <1>5 DEF End, Become
  <2>3. n \in Streaming(u) /\ Streaming(u)' = Streaming(u) \ {n}
    BY <2>1, <2>2, DomainOfCaller DEF Streaming, TypeOK
  <2>4. \A v \in Member \ {u} : Streaming(v)' = Streaming(v)
    BY <2>1, <2>2, DomainOfCaller DEF Streaming, TypeOK
  <2>5. Cardinality(Streaming(u)') = Cardinality(Streaming(u)) - 1
    BY <2>3, StreamingIsFinite, FS_RemoveElement
  <2>6. streamCounts' = [streamCounts EXCEPT ![u] = @ - 1]
    BY <1>5, <2>1 DEF End
  <2>7. streamCounts'[u] = Cardinality(Streaming(u)')
    BY <2>1, <2>5, <2>6 DEF CountsMatchStreams, TypeOK
  <2>8. \A v \in Member \ {u} : streamCounts'[v] = Cardinality(Streaming(v)')
    BY <2>1, <2>4, <2>6 DEF CountsMatchStreams, TypeOK
  <2> QED
    BY <2>7, <2>8 DEF CountsMatchStreams
<1>6. ASSUME NEW n \in Call, Expire(n) PROVE CountsMatchStreams'
  <2>1. \A v \in Member : Streaming(v)' = Streaming(v)
    BY <1>6, ExpireCases DEF Streaming
  <2>2. CASE UNCHANGED streamCounts
    BY <1>1, <2>1, <2>2
  <2>3. CASE Expires(caller[n])
    <3>1. streamCounts[caller[n]] = 0
      BY <2>3 DEF Expires, TypeOK
    <3>2. streamCounts' = streamCounts
      BY <2>3, <3>1 DEF Expires, TypeOK
    <3> QED
      BY <1>1, <2>1, <3>2
  <2> QED
    BY <1>6, <2>2, <2>3, ExpireCases
<1>7. ASSUME NEW n \in Call, InstallTarget(n) \/ Fire(n) PROVE CountsMatchStreams'
  BY <1>1, <1>7 DEF InstallTarget, Fire, calls, Streaming
<1>8. CASE Depart \/ UNCHANGED vars
  BY <1>1, <1>8 DEF Depart, vars, calls, Streaming
<1> QED
  BY <1>2, <1>3, <1>4, <1>5, <1>6, <1>7, <1>8 DEF Next

-----------------------------------------------------------------------------
(* Every session without a stream is on its way out, or on its way back *)

Busy(u) == \E n \in DOMAIN caller : caller[n] = u /\ pc[n] \in {"remembered", "leaving"}

Bounded(u) == streamCounts[u] > 0 \/ Doomed(u) \/ Busy(u)

(* scheduleDisconnect dooms the session unless it has a stream, and spares *)
(* no other session.                                                       *)
LEMMA ScheduleDooms ==
    ASSUME TypeOK, TimersHaveCallers, LateAssignment = FALSE,
           NEW n \in DOMAIN caller, NEW soon,
           Schedule(n, caller[n], soon), UNCHANGED streamCounts
    PROVE  /\ \A v \in Member : v = caller[n] => streamCounts[v] > 0 \/ Doomed(v)'
           /\ \A v \in Member : v # caller[n] /\ Doomed(v) => Doomed(v)'
<1>1. PICK u \in Member : u = caller[n] /\ n \in Call /\ n # Nil
  BY DomainOfCaller, CallIsNat
<1>2. CASE UNCHANGED timers /\ streamCounts[u] > 0
  BY <1>1, <1>2 DEF timers, Doomed
<1>3. CASE ~ streamCounts[u] > 0
  <2>1. /\ disconnectTimers' = [disconnectTimers EXCEPT ![u] = n]
        /\ timer' = [Stopped(u) EXCEPT ![n] = "armed"]
        /\ sees' = [sees EXCEPT ![n] = n]
    BY <1>1, <1>3 DEF Schedule
  <2>2. Stopped(u) \in [Call -> {"none", "armed", "fired", "over"}]
    BY DEF Stopped, TypeOK
  <2>3. disconnectTimers'[u] = n /\ timer'[n] = "armed" /\ sees'[n] = n
    BY <1>1, <2>1, <2>2 DEF TypeOK
  <2>4. Doomed(u)'
    BY <1>1, <2>3 DEF Doomed
  <2>5. ASSUME NEW v \in Member, v # u, Doomed(v) PROVE Doomed(v)'
    <3> DEFINE m == disconnectTimers[v]
    <3>1. m \in Call /\ caller[m] = v /\ m # Nil /\ sees[m] = m /\ timer[m] \in {"armed", "fired"}
      BY <2>5, DomainOfCaller DEF Doomed, TimersHaveCallers
    <3>2. m # n /\ m # disconnectTimers[u]
      BY <1>1, <2>5, <3>1 DEF TimersHaveCallers
    <3>3. timer'[m] = timer[m]
      BY <1>1, <2>1, <2>2, <3>1, <3>2 DEF Stopped, TypeOK
    <3>4. disconnectTimers'[v] = m /\ sees'[m] = m
      BY <1>1, <2>1, <2>5, <3>1, <3>2 DEF TypeOK
    <3> QED
      BY <3>1, <3>3, <3>4 DEF Doomed
  <2> QED
    BY <1>1, <2>4, <2>5
<1> QED
  BY <1>1, <1>2, <1>3 DEF Schedule

(* A stopped timer belonged to the member it was stopped for. *)
LEMMA StoppingSpares ==
    ASSUME TypeOK, TimersHaveCallers, NEW u \in Member, NEW v \in Member, v # u,
           timer' = Stopped(u), disconnectTimers' = [disconnectTimers EXCEPT ![u] = Nil],
           UNCHANGED sees, Doomed(v)
    PROVE  Doomed(v)'
<1> DEFINE m == disconnectTimers[v]
<1>1. m \in Call /\ caller[m] = v /\ m # Nil /\ sees[m] = m /\ timer[m] \in {"armed", "fired"}
  BY DomainOfCaller DEF Doomed, TimersHaveCallers
<1>2. m # disconnectTimers[u]
  BY <1>1 DEF TimersHaveCallers
<1>3. timer'[m] = timer[m]
  BY <1>1, <1>2 DEF Stopped, TypeOK
<1>4. disconnectTimers'[v] = m /\ sees'[m] = m
  BY <1>1 DEF TypeOK
<1> QED
  BY <1>1, <1>3, <1>4 DEF Doomed

LEMMA BoundedStep ==
    IInv /\ SessionsAreBounded /\ [Next]_vars /\ LateAssignment = FALSE => SessionsAreBounded'
<1> SUFFICES ASSUME IInv, SessionsAreBounded, [Next]_vars, LateAssignment = FALSE
             PROVE  SessionsAreBounded'
  OBVIOUS
<1> SUFFICES ASSUME NEW v \in Member, v \in sessions' PROVE Bounded(v)'
  BY TypeStep DEF SessionsAreBounded, Bounded, Busy, TypeOK
<1> USE DEF IInv
<1>0. v \in sessions => Bounded(v)
  BY DEF SessionsAreBounded, Bounded, Busy
<1>1. ASSUME NEW n \in Call, NEW u \in Member, CheckMember(n, u) \/ Authorize(n, u)
      PROVE  Bounded(v)'
  <2>1. Arrive(n, u) /\ UNCHANGED <<sessions, streamCounts, timers>>
    BY <1>1 DEF CheckMember, Authorize
  <2>2. Doomed(v) => Doomed(v)'
    BY <2>1 DEF timers, Doomed
  <2>3. \A m \in DOMAIN caller : pc'[m] = pc[m] \/ m = n
    BY <1>1, DomainOfCaller DEF CheckMember, Authorize, Become, TypeOK
  <2>4. n \notin DOMAIN caller
    BY <2>1, CallIsNat DEF Arrive, TypeOK
  <2>5. Busy(v) => Busy(v)'
    BY <2>1, <2>3, <2>4, ArriveKeeps DEF Busy
  <2> QED
    BY <1>0, <2>1, <2>2, <2>5 DEF Bounded
<1>2. ASSUME NEW n \in Call, Remember(n) PROVE Bounded(v)'
  <2>1. n \in DOMAIN caller
    BY <1>2, DomainOfCaller DEF Remember
  <2>2. pc'[n] = "remembered" /\ \A m \in Call : m # n => pc'[m] = pc[m]
    BY <1>2 DEF Remember, Become, TypeOK
  <2>3. UNCHANGED <<streamCounts, timers, caller>>
    BY <1>2 DEF Remember
  <2>4. CASE v = caller[n]
    BY <2>1, <2>2, <2>3, <2>4 DEF Bounded, Busy
  <2>5. CASE v # caller[n]
    <3>1. v \in sessions
      BY <1>2, <2>5 DEF Remember
    <3>2. Doomed(v) => Doomed(v)'
      BY <2>3 DEF timers, Doomed
    <3>3. Busy(v) => Busy(v)'
      BY <2>2, <2>3, <2>5, DomainOfCaller DEF Busy
    <3> QED
      BY <1>0, <2>3, <3>1, <3>2, <3>3 DEF Bounded
  <2> QED
    BY <2>4, <2>5
<1>3. ASSUME NEW n \in Call, Issue(n) \/ Leave(n) PROVE Bounded(v)'
  <2>1. n \in DOMAIN caller
    BY <1>3, DomainOfCaller DEF Issue, Leave
  <2>2. PICK soon \in BOOLEAN : Schedule(n, caller[n], soon)
    BY <1>3 DEF Issue, Leave
  <2>3. UNCHANGED <<sessions, streamCounts, caller>>
    BY <1>3 DEF Issue, Leave
  <2>4. CASE v = caller[n]
    BY <2>1, <2>2, <2>3, <2>4, ScheduleDooms DEF Bounded
  <2>5. CASE v # caller[n]
    <3>1. Doomed(v) => Doomed(v)'
      BY <2>1, <2>2, <2>3, <2>5, ScheduleDooms
    <3>2. \A m \in Call : m # n => pc'[m] = pc[m]
      BY <1>3 DEF Issue, Leave, Become, TypeOK
    <3>3. Busy(v) => Busy(v)'
      BY <2>3, <2>5, <3>2, DomainOfCaller DEF Busy
    <3> QED
      BY <1>0, <2>3, <3>1, <3>3 DEF Bounded
  <2> QED
    BY <2>4, <2>5
<1>4. ASSUME NEW n \in Call, Start(n) PROVE Bounded(v)'
  <2>1. n \in DOMAIN caller /\ caller[n] \in Member
    BY <1>4, DomainOfCaller DEF Start
  <2>2. CASE v = caller[n]
    BY <1>4, <2>2 DEF Start, TypeOK, Bounded
  <2>3. CASE v # caller[n]
    <3>1. Doomed(v) => Doomed(v)'
      BY <1>4, <2>1, <2>3, StoppingSpares DEF Start
    <3>2. caller' = caller /\ \A m \in Call : m # n => pc'[m] = pc[m]
      BY <1>4 DEF Start, Become, TypeOK
    <3>3. Busy(v) => Busy(v)'
      BY <2>3, <3>2, DomainOfCaller DEF Busy
    <3>4. v \in sessions /\ streamCounts'[v] = streamCounts[v]
      BY <1>4, <2>1, <2>3 DEF Start, TypeOK
    <3> QED
      BY <1>0, <3>1, <3>3, <3>4 DEF Bounded
  <2> QED
    BY <2>2, <2>3
<1>5. ASSUME NEW n \in Call, End(n) PROVE Bounded(v)'
  <2>1. n \in DOMAIN caller /\ caller[n] \in Member /\ streamCounts[caller[n]] \in Nat
    BY <1>5, DomainOfCaller DEF End, TypeOK
  <2>2. UNCHANGED <<caller, sessions, timers>>
    BY <1>5 DEF End
  <2>3. CASE v = caller[n]
    <3>1. streamCounts'[v] = streamCounts[v] - 1
      BY <1>5, <2>1, <2>3 DEF End, TypeOK
    <3>2. CASE streamCounts[v] - 1 <= 0
      <4>1. pc'[n] = "leaving"
        BY <1>5, <2>3, <3>2 DEF End, Become, TypeOK
      <4> QED
        BY <2>1, <2>2, <2>3, <4>1 DEF Bounded, Busy
    <3> QED
      BY <2>1, <2>3, <3>1, <3>2 DEF Bounded
  <2>4. CASE v # caller[n]
    <3>1. Doomed(v) => Doomed(v)'
      BY <2>2 DEF Doomed, timers
    <3>2. \A m \in Call : m # n => pc'[m] = pc[m]
      BY <1>5 DEF End, Become, TypeOK
    <3>3. Busy(v) => Busy(v)'
      BY <2>2, <2>4, <3>2, DomainOfCaller DEF Busy
    <3>4. streamCounts'[v] = streamCounts[v]
      BY <1>5, <2>1, <2>4 DEF End, TypeOK
    <3> QED
      BY <1>0, <2>2, <3>1, <3>3, <3>4 DEF Bounded
  <2> QED
    BY <2>3, <2>4
<1>6. ASSUME NEW n \in Call, Fire(n) PROVE Bounded(v)'
  <2>1. Doomed(v) => Doomed(v)'
    BY <1>6, CallIsNat DEF Fire, Doomed, TypeOK
  <2> QED
    BY <1>0, <1>6, <2>1 DEF Fire, calls, Bounded, Busy
<1>7. ASSUME NEW n \in Call, Expire(n) PROVE Bounded(v)'
  <2>1. v \in sessions /\ caller' = caller /\ pc' = pc /\ sees' = sees
    BY <1>7, ExpireCases DEF Expires
  <2>2. CASE Expires(caller[n])
    <3>1. v # caller[n]
      BY <2>2 DEF Expires
    <3>2. streamCounts'[v] = streamCounts[v] /\ disconnectTimers'[v] = disconnectTimers[v]
      BY <2>2, <3>1 DEF Expires, TypeOK
    <3>3. Doomed(v) => Doomed(v)'
      BY <1>7, <2>1, <3>1, <3>2, ExpireCases DEF Doomed, TimersHaveCallers, TypeOK
    <3> QED
      BY <1>0, <2>1, <3>2, <3>3 DEF Bounded, Busy
  <2>3. CASE UNCHANGED <<sessions, disconnectTimers, streamCounts, expiring>>
            /\ (caller[n] \notin sessions \/ Stale(n, caller[n]))
    <3>1. CASE v = caller[n]
      <4>1. streamCounts[v] > 0 \/ disconnectTimers[v] # sees[n]
        BY <2>1, <2>3, <3>1 DEF Stale
      <4>2. Doomed(v) /\ disconnectTimers[v] # sees[n] => Doomed(v)'
        BY <1>7, <2>1, <2>3, ExpireCases DEF Doomed, TypeOK
      <4> QED
        BY <1>0, <2>1, <2>3, <4>1, <4>2 DEF Bounded, Busy
    <3>2. CASE v # caller[n]
      <4>1. Doomed(v) => Doomed(v)'
        BY <1>7, <2>1, <2>3, <3>2, ExpireCases DEF Doomed, TimersHaveCallers, TypeOK
      <4> QED
        BY <1>0, <2>1, <2>3, <4>1 DEF Bounded, Busy
    <3> QED
      BY <3>1, <3>2
  <2> QED
    BY <1>7, <2>2, <2>3, ExpireCases
<1>8. ASSUME NEW n \in Call, InstallTarget(n) PROVE Bounded(v)'
  BY <1>0, <1>8 DEF InstallTarget, timers, calls, Bounded, Doomed, Busy
<1>9. CASE Depart \/ UNCHANGED vars
  BY <1>0, <1>9 DEF Depart, vars, timers, calls, Bounded, Doomed, Busy
<1> QED
  BY <1>1, <1>2, <1>3, <1>4, <1>5, <1>6, <1>7, <1>8, <1>9 DEF Next

-----------------------------------------------------------------------------
(* What subscribers are sent follows the sessions *)

LEMMA ViewsStep == IInv /\ [Next]_vars => ViewsFollow'
<1> SUFFICES ASSUME IInv, [Next]_vars PROVE ViewsFollow'
  OBVIOUS
<1> USE DEF IInv
<1>1. CASE UNCHANGED <<sessions, expiring, listed, view>>
  BY <1>1 DEF ViewsFollow, Publishing
<1>2. ASSUME NEW n \in Call, NEW u \in Member, CheckMember(n, u) \/ Authorize(n, u)
      PROVE  ViewsFollow'
  BY <1>1, <1>2 DEF CheckMember, Authorize, views
<1>3. ASSUME NEW n \in Call, Issue(n) \/ Start(n) \/ Leave(n) \/ Fire(n) PROVE ViewsFollow'
  BY <1>1, <1>3 DEF Issue, Start, Leave, Fire, views
<1>4. ASSUME NEW n \in Call, Remember(n) PROVE ViewsFollow'
  <2>1. /\ ~ Publishing /\ ~ Publishing'
        /\ sessions' = sessions \cup {caller[n]} /\ listed' = listed
    BY <1>4 DEF Remember, Publishing
  <2>2. ASSUME NEW m \in listed PROVE view'[m] = sessions'
    <3>1. m \in Call /\ view[m] = sessions
      BY <2>1 DEF ViewsFollow, TypeOK
    <3>2. CASE caller[n] \in sessions
      BY <1>4, <2>1, <3>1, <3>2 DEF Remember
    <3>3. CASE caller[n] \notin sessions
      BY <1>4, <2>1, <3>1, <3>3 DEF Remember, Told
    <3> QED
      BY <3>2, <3>3
  <2> QED
    BY <2>1, <2>2 DEF ViewsFollow
<1>5. ASSUME NEW n \in Call, InstallTarget(n) PROVE ViewsFollow'
  BY <1>5 DEF InstallTarget, ViewsFollow, Publishing, TypeOK
<1>6. ASSUME NEW n \in Call, End(n) PROVE ViewsFollow'
  BY <1>6 DEF End, ViewsFollow, Publishing, TypeOK
<1>7. ASSUME NEW n \in Call, Expire(n) PROVE ViewsFollow'
  <2>1. CASE Expires(caller[n])
    BY <1>7, <2>1, ExpireCases, MemberAssumption DEF Expires, ViewsFollow, Publishing
  <2>2. CASE UNCHANGED <<sessions, expiring>>
    BY <1>1, <1>7, <2>2, ExpireCases
  <2> QED
    BY <1>7, <2>1, <2>2, ExpireCases
<1>8. CASE Depart
  <2>1. ~ Publishing' /\ sessions' = sessions /\ listed' = listed
    BY <1>8 DEF Depart, Publishing
  <2>2. ASSUME NEW m \in listed PROVE view'[m] = sessions
    BY <1>8, <2>2 DEF Depart, ToldGone, ViewsFollow, TypeOK
  <2> QED
    BY <2>1, <2>2 DEF ViewsFollow
<1>9. CASE UNCHANGED vars
  BY <1>1, <1>9 DEF vars, views
<1> QED
  BY <1>2, <1>3, <1>4, <1>5, <1>6, <1>7, <1>8, <1>9 DEF Next

-----------------------------------------------------------------------------
(* Theorems *)

LEMMA InitIInv == Init => IInv
<1> SUFFICES ASSUME Init PROVE IInv
  OBVIOUS
<1>1. TypeOK
  BY CallIsNat DEF Init, TypeOK
<1>2. CountsMatchStreams
  <2>1. \A u \in Member : Streaming(u) = {}
    BY DEF Init, Streaming
  <2> QED
    BY <2>1, FS_EmptySet DEF Init, CountsMatchStreams
<1>3. TimersHaveCallers /\ ViewsFollow
  BY DEF Init, TimersHaveCallers, ViewsFollow, Publishing
<1> QED
  BY <1>1, <1>2, <1>3 DEF IInv

(* The inductive invariant. *)
THEOREM LifecycleInvariant == Spec => []IInv
<1>1. IInv /\ [Next]_vars => IInv'
  BY TypeStep, CountsStep, TimersStep, ViewsStep DEF IInv
<1> QED
  BY InitIInv, <1>1, PTL DEF Spec

(* streamCounts counts the open streams of every member, however many      *)
(* calls and members there are.                                            *)
THEOREM CountsTheorem == Spec => [](TypeOK /\ CountsMatchStreams)
<1>1. IInv => TypeOK /\ CountsMatchStreams
  BY DEF IInv
<1> QED
  BY LifecycleInvariant, <1>1, PTL

(* No session keeps its seat for ever: without a stream it has a timer     *)
(* that will expire it or a call about to set one, provided no callback    *)
(* reads its timer before scheduleDisconnect has assigned it.              *)
THEOREM BoundedTheorem == ASSUME LateAssignment = FALSE PROVE Spec => []SessionsAreBounded
<1>1. Init => SessionsAreBounded
  BY DEF Init, SessionsAreBounded
<1>2. IInv /\ SessionsAreBounded /\ [Next]_vars => SessionsAreBounded'
  BY BoundedStep
<1> QED
  BY LifecycleInvariant, <1>1, <1>2, PTL DEF Spec

(* Between publications every subscriber of docs/__us was sent exactly the *)
(* sessions there are.                                                     *)
THEOREM ViewsTheorem == Spec => []ViewsAgree
<1>1. IInv => ViewsAgree
  BY DEF IInv, ViewsFollow, ViewsAgree
<1> QED
  BY LifecycleInvariant, <1>1, PTL

(* A session under an open stream is not expired by an older timer.        *)
THEOREM KeptTheorem == Spec => StreamsKeepTheirSession
<1> DEFINE Kept ==
      \A n \in DOMAIN caller :
         pc[n] = "open" /\ pc'[n] = "open" /\ caller[n] \in sessions
         => caller[n] \in sessions'
<1>1. IInv /\ [Next]_vars => Kept
  <2> SUFFICES ASSUME IInv, [Next]_vars, NEW n \in DOMAIN caller,
                      pc[n] = "open", caller[n] \in sessions
               PROVE  caller[n] \in sessions'
    OBVIOUS
  <2>1. streamCounts[caller[n]] > 0
    BY OpenIsCounted DEF IInv
  <2>2. ASSUME NEW m \in Call, Expire(m) PROVE caller[n] \in sessions'
    BY <2>1, <2>2, ExpireCases DEF IInv, Expires
  <2>3. ASSUME NEW m \in Call, Remember(m) PROVE caller[n] \in sessions'
    BY <2>3 DEF Remember
  <2>4. CASE UNCHANGED sessions
    BY <2>4
  <2> QED
    BY <2>2, <2>3, <2>4 DEF Next, CheckMember, Authorize, Issue, Start, InstallTarget, End,
                            Leave, Fire, Depart, vars
<1> QED
  BY LifecycleInvariant, <1>1, PTL DEF Spec, StreamsKeepTheirSession
=============================================================================
