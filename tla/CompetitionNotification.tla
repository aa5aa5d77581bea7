---------------------- MODULE CompetitionNotification ----------------------
(***************************************************************************)
(* ReceiveCompetitionNotification of src/competition.go: a participant     *)
(* opens a stream and waits until another one of the same competition      *)
(* comes; both are then told one matching key and search by it.  A call    *)
(* closes its partner's wake channel under the lock, and each call reads   *)
(* its notification later, under the lock again, from a map with one slot  *)
(* per participant and competition.                                        *)
(*                                                                         *)
(* A fresh matching key is named by the two calls it was drawn for.        *)
(***************************************************************************)
EXTENDS Queues, FiniteSets

CONSTANTS
    Player,          (* authenticated NPLN users                           *)
    Competition,     (* competition ids                                    *)
    MaxCalls,        (* bound: ReceiveCompetitionNotification calls        *)
    NoKey            (* no notification was ever written                   *)

Call == 1..MaxCalls    (* the calls, in the order they reach the server *)

ASSUME CallAssumption ==
    MaxCalls \in Nat /\ NoKey \notin Call \X Call

VARIABLES
    queue,           (* s.waiters: competition -> calls in order of coming *)
    notifications,   (* s.notifications: (player, competition) -> key      *)
    stage,           (* where each call stands                             *)
    user, contest,   (* the player and competition of each call so far     *)
    woken,           (* calls whose wake channel is closed                 *)
    hungUp,          (* calls whose context is done                        *)
    keys,            (* history: the matching keys drawn                   *)
    delivered        (* history: the key each matched call sent            *)

calls == <<stage, user, contest>>
notificationVars == <<queue, notifications, calls, woken, hungUp, keys, delivered>>

Finished == {"matched", "canceled", "refused"}
MatchingKey == Call \X Call
Waiting(n) == stage[n] = "waiting"
Live(n) == n \notin hungUp
InQueue(c) == {queue[c][i] : i \in DOMAIN queue[c]}

NotificationTypeOK ==
    /\ queue \in [Competition -> Seq(Call)]
    /\ notifications \in [Player \X Competition -> MatchingKey \cup {NoKey}]
    /\ stage \in [Call -> {"idle", "waiting"} \cup Finished]
    /\ user \in Seq(Player) /\ contest \in Seq(Competition)
    /\ Len(user) = Len(contest) /\ Len(user) <= MaxCalls
    /\ \A n \in Call : stage[n] = "idle" <=> n > Len(user)
    /\ woken \subseteq Call /\ hungUp \subseteq Call /\ keys \subseteq MatchingKey
    /\ delivered \in [Call -> MatchingKey \cup {NoKey}]
    /\ \A n \in Call : stage[n] = "matched" => delivered[n] \in MatchingKey

NotificationInit ==
    /\ queue = [c \in Competition |-> <<>>]
    /\ notifications = [k \in Player \X Competition |-> NoKey]
    /\ stage = [n \in Call |-> "idle"]
    /\ user = <<>> /\ contest = <<>>
    /\ woken = {} /\ hungUp = {} /\ keys = {}
    /\ delivered = [n \in Call |-> NoKey]

-----------------------------------------------------------------------------
(* Mutant: the calls that hung up are not pruned. *)
LiveQueueUnpruned(c) == queue[c]

(* Mutant: the scan starts one waiter too late. *)
LiveQueueSkipsFirst(c) ==
    Without(IF queue[c] = <<>> THEN <<>> ELSE Tail(queue[c]), hungUp)

(* The waiters of c whose context is not done, as the scan leaves them. *)
LiveQueue(c) == Without(queue[c], hungUp)

Refuse(n, c) ==
    /\ queue' = [queue EXCEPT ![c] = LiveQueue(c)]
    /\ stage' = [stage EXCEPT ![n] = "refused"]
    /\ UNCHANGED <<notifications, woken, keys>>

Enqueue(n, c) ==
    /\ queue' = [queue EXCEPT ![c] = Append(LiveQueue(c), n)]
    /\ stage' = [stage EXCEPT ![n] = "waiting"]
    /\ UNCHANGED <<notifications, woken, keys>>

(* The queue without the partner. *)
StillWaiting(q) == Tail(q)

(* Mutant: a key is drawn for each of the two. *)
NotifiedTwoKeys(c, p, other, n) ==
    [notifications EXCEPT ![<<user[other], c>>] = <<other, n>>, ![<<p, c>>] = <<n, other>>]

Notified(c, p, other, n) ==
    [notifications EXCEPT ![<<user[other], c>>] = <<other, n>>, ![<<p, c>>] = <<other, n>>]

(* Mutant: only the new call is woken. *)
WokenNewOnly(other, n) == {n}

Woken(other, n) == {other, n}

(* After the AlreadyExists check no waiter is the caller's own, so the     *)
(* first waiter of another user is the first of all.                       *)
PairUp(n, p, c) ==
    LET other == Head(LiveQueue(c)) IN
    /\ queue' = [queue EXCEPT ![c] = StillWaiting(LiveQueue(c))]
    /\ notifications' = Notified(c, p, other, n)
    /\ stage' = [stage EXCEPT ![n] = "waiting"]
    /\ woken' = woken \cup Woken(other, n)
    /\ keys' = keys \cup {<<other, n>>}

Subscribe(n, p, c) ==
    LET live == LiveQueue(c)
        own  == \E i \in DOMAIN live : user[live[i]] = p
    IN  /\ n = Len(user) + 1
        /\ user' = Append(user, p) /\ contest' = Append(contest, c)
        /\ \/ own /\ Refuse(n, c)
           \/ ~ own /\ live # <<>> /\ PairUp(n, p, c)
           \/ live = <<>> /\ Enqueue(n, c)
        /\ UNCHANGED <<hungUp, delivered>>

(* The client cancels, or its connection is lost. *)
HangUp(n) ==
    /\ Waiting(n) /\ Live(n)
    /\ hungUp' = hungUp \cup {n}
    /\ UNCHANGED <<queue, notifications, calls, woken, keys, delivered>>

(* The wake branch of the select; it may be taken with the context done.   *)
Deliver(n) ==
    /\ Waiting(n) /\ n \in woken
    /\ delivered' = [delivered EXCEPT ![n] = notifications[<<user[n], contest[n]>>]]
    /\ stage' = [stage EXCEPT ![n] = "matched"]
    /\ UNCHANGED <<queue, notifications, user, contest, woken, hungUp, keys>>

(* The other branch: the call leaves the queue, if it is still there       *)
(* (waiter.uid == uid && waiter.wake == wake).                             *)
Withdraw(n) ==
    /\ Waiting(n) /\ ~ Live(n)
    /\ queue' = [queue EXCEPT ![contest[n]] = Without(@, {n})]
    /\ stage' = [stage EXCEPT ![n] = "canceled"]
    /\ UNCHANGED <<notifications, user, contest, woken, hungUp, keys, delivered>>

NotificationNext ==
    \/ \E n \in Call, p \in Player, c \in Competition : Subscribe(n, p, c)
    \/ \E n \in Call : HangUp(n) \/ Deliver(n) \/ Withdraw(n)

NotificationSpec == NotificationInit /\ [][NotificationNext]_notificationVars

(* The goroutine of a call goes on once its select can; players owe nothing. *)
NotificationFairness == \A n \in Call : WF_notificationVars(Deliver(n) \/ Withdraw(n))
NotificationFairSpec == NotificationSpec /\ NotificationFairness

-----------------------------------------------------------------------------
(* SAFETY *)

(* A waiter in the queue has not been woken: its wake channel is closed    *)
(* only once (a second close panics the server), and nobody waits twice.   *)
WakeClosedOnce ==
    \A c \in Competition :
        /\ \A n \in InQueue(c) : Waiting(n) /\ n \notin woken /\ contest[n] = c
        /\ Cardinality(InQueue(c)) = Len(queue[c])

(* A live call still waiting for a partner is where the next one will look *)
(* for it, whatever older calls of the same player do when they end.       *)
NobodyForgotten ==
    \A n \in Call : Waiting(n) /\ n \notin woken /\ Live(n) => n \in InQueue(contest[n])

(* Two participants of a competition never wait past each other: at most   *)
(* one live call is waiting for a partner.                                 *)
NobodyWaitsInVain ==
    \A m, n \in Call :
        /\ Waiting(m) /\ m \notin woken /\ Live(m)
        /\ Waiting(n) /\ n \notin woken /\ Live(n)
        /\ contest[m] = contest[n]
        => m = n

(* So every waiter is woken exactly once, and as soon as he can be.        *)
WaitersAreServed == WakeClosedOnce /\ NobodyForgotten /\ NobodyWaitsInVain

(* A matching key joins two players of one competition, and the player it  *)
(* is delivered to is one of them, also when a slot was overwritten.       *)
KeyNamesItsReader ==
    /\ \A k \in keys : user[k[1]] # user[k[2]] /\ contest[k[1]] = contest[k[2]]
    /\ \A n \in Call : stage[n] = "matched" =>
        /\ delivered[n] \in keys
        /\ \E i \in 1..2 : user[delivered[n][i]] = user[n]

(* A pair whose ends both returned, neither of them hung up. *)
Heard(k) == \A i \in 1..2 : stage[k[i]] = "matched" /\ Live(k[i])

(* A pair is told one and the same key                                     *)
(* (TestCompetitionNotificationPairCarriesMatchingKey), whatever its       *)
(* players' earlier calls and everybody else's are still doing.  A later   *)
(* call of one of the two may come between them: it is not refused, since  *)
(* the woken call has left the queue, and may be paired and overwrite the  *)
(* slot before the woken call has read it.                                 *)
PairHearsOneKey ==
    \A k \in keys :
        /\ Heard(k)
        /\ \A m \in DOMAIN user : m > k[2] => user[m] \notin {user[k[1]], user[k[2]]}
        => delivered[k[1]] = delivered[k[2]]

(* What players search by is theirs, and the same for both of a pair.      *)
KeysAreTrue == KeyNamesItsReader /\ PairHearsOneKey

(* A key is only drawn with a partner that had not hung up.                *)
NoPairWithTheDead == [][\A k \in keys' \ keys : Live(k[1])]_notificationVars

(* LIVENESS *)

(* A call that was paired or hung up returns: no stream is leaked.         *)
PairedOrGoneReturns ==
    \A n \in Call :
        (Waiting(n) /\ (n \in hungUp \/ \E k \in keys : n \in {k[1], k[2]})) ~> (stage[n] \in Finished)
=============================================================================
