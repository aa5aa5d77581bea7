------------------------- MODULE ServerStreamsProofs -------------------------
(***************************************************************************)
(* The waiting participants of competitions and the delivery of Gamesync   *)
(* streams (src/competition.go, src/gamesync_delivery.go), for any number  *)
(* of players, calls and messages, any limits and sizes.  What followers   *)
(* of a trade box are told is the subject of TradeBoxProofs.               *)
(***************************************************************************)
EXTENDS ServerStreams, SequenceLemmas

-----------------------------------------------------------------------------
(* Competition notifications                                               *)
(*                                                                         *)
(* Nobody waits beside somebody he could be paired with, a wake channel is *)
(* closed once, and what a call sends is a key that names its player, the  *)
(* same key for both of a pair.                                            *)
(*                                                                         *)
(* The invariant says who is in the queues and what is in the slots.  The  *)
(* part that takes several calls to see is PairsAreServed: when a key has  *)
(* been drawn, no older call of that competition still waits for a         *)
(* partner, so no older call of one of the two can write over the slot.    *)

(* A live call that has no partner yet. *)
Unserved(n) == Waiting(n) /\ n \notin woken /\ Live(n)

(* Who stands in a queue waits for a partner there, and stands there once. *)
QueuedWait ==
    \A c \in Competition : \A i \in 1..Len(queue[c]) :
        LET n == queue[c][i] IN Waiting(n) /\ n \notin woken /\ contest[n] = c
QueuedOnce ==
    \A c \in Competition : \A i, j \in 1..Len(queue[c]) : queue[c][i] = queue[c][j] => i = j

QueuesHold == QueuedWait /\ QueuedOnce /\ NobodyForgotten /\ NobodyWaitsInVain

(* A key joins two calls that were woken, of two players. *)
KeysJoin ==
    \A k \in keys :
        /\ k[1] \in woken /\ k[2] \in woken
        /\ user[k[1]] # user[k[2]] /\ contest[k[1]] = contest[k[2]]

(* A woken call finds something in its slot. *)
WokenHaveSlots ==
    \A n \in woken : n \in DOMAIN user /\ notifications[<<user[n], contest[n]>>] # NoKey

Names(k, p) == \E i \in 1..2 : user[k[i]] = p

SlotsName ==
    \A p \in Player, c \in Competition :
        notifications[<<p, c>>] # NoKey =>
            notifications[<<p, c>>] \in keys /\ Names(notifications[<<p, c>>], p)
DeliveredName ==
    \A n \in Call : stage[n] = "matched" => delivered[n] \in keys /\ Names(delivered[n], user[n])

PairsAreServed ==
    \A k \in keys, m \in Call : m <= k[2] /\ contest[m] = contest[k[2]] => ~ Unserved(m)

(* Neither of the two has called again. *)
Latest(k) ==
    \A m \in DOMAIN user : m > k[2] => user[m] \notin {user[k[1]], user[k[2]]}

SlotsAreFresh ==
    \A k \in keys : Latest(k) =>
        \A i \in 1..2 : notifications[<<user[k[i]], contest[k[i]]>>] = k
DeliveredFresh ==
    \A k \in keys : Latest(k) => \A i \in 1..2 : stage[k[i]] = "matched" => delivered[k[i]] = k

KeysHold ==
    /\ KeysJoin /\ WokenHaveSlots /\ SlotsName /\ DeliveredName
    /\ PairsAreServed /\ SlotsAreFresh /\ DeliveredFresh

NotifyInv == NotificationTypeOK /\ QueuesHold /\ KeysHold

-----------------------------------------------------------------------------
LEMMA NotifyInvInit == NotificationInit => NotifyInv
<1> SUFFICES ASSUME NotificationInit PROVE NotifyInv
  OBVIOUS
<1>1. Len(<<>>) = 0 /\ 1..0 = {} /\ DOMAIN <<>> = {}
  OBVIOUS
<1>2. NotificationTypeOK
  <2>1. <<>> \in Seq(Call) /\ <<>> \in Seq(Player) /\ <<>> \in Seq(Competition)
    OBVIOUS
  <2>2. \A n \in Call : n > 0
    BY CallAssumption DEF Call
  <2>3. keys \subseteq MatchingKey /\ woken \subseteq Call /\ hungUp \subseteq Call
    BY DEF NotificationInit
  <2>4. /\ queue \in [Competition -> Seq(Call)]
        /\ notifications \in [Player \X Competition -> MatchingKey \cup {NoKey}]
        /\ stage \in [Call -> {"idle", "waiting"} \cup Finished]
        /\ delivered \in [Call -> MatchingKey \cup {NoKey}]
    BY <2>1 DEF NotificationInit
  <2>5. /\ \A n \in Call : stage[n] = "idle" <=> n > Len(user)
        /\ \A n \in Call : stage[n] = "matched" => delivered[n] \in MatchingKey
    BY <1>1, <2>2 DEF NotificationInit
  <2>6. /\ user \in Seq(Player) /\ contest \in Seq(Competition)
        /\ Len(user) = Len(contest) /\ Len(user) <= MaxCalls
    BY <1>1, <2>1, CallAssumption DEF NotificationInit
  <2> QED BY <2>3, <2>4, <2>5, <2>6 DEF NotificationTypeOK
<1>3. QueuesHold
  BY <1>1 DEF NotificationInit, QueuesHold, QueuedWait, QueuedOnce, NobodyForgotten,
              NobodyWaitsInVain, Waiting
<1>4. KeysHold
  BY DEF NotificationInit, KeysHold, KeysJoin, WokenHaveSlots, SlotsName, DeliveredName,
         PairsAreServed, SlotsAreFresh, DeliveredFresh
<1> QED BY <1>2, <1>3, <1>4 DEF NotifyInv

(* The calls of a queue that have not hung up. *)
LEMMA LiveQueueFacts ==
    ASSUME NotifyInv, NEW c \in Competition
    PROVE  /\ LiveQueue(c) \in Seq(Call)
           /\ \A n : (\E i \in 1..Len(LiveQueue(c)) : LiveQueue(c)[i] = n)
                        <=> n \in InQueue(c) /\ Live(n)
           /\ \A i, j \in 1..Len(LiveQueue(c)) : LiveQueue(c)[i] = LiveQueue(c)[j] => i = j
           /\ \A n \in InQueue(c) : n \in Call /\ Waiting(n) /\ n \notin woken /\ contest[n] = c
<1> DEFINE q == queue[c]  w == LiveQueue(c)
<1>1. q \in Seq(Call) /\ DOMAIN q = 1..Len(q)
  BY DEF NotifyInv, NotificationTypeOK
<1>2. InQueue(c) = {q[i] : i \in 1..Len(q)}
  BY <1>1 DEF InQueue
<1>3. \A i, j \in 1..Len(q) : q[i] = q[j] => i = j
  BY DEF NotifyInv, QueuesHold, QueuedOnce
<1>4. \A n \in InQueue(c) : n \in Call /\ Waiting(n) /\ n \notin woken /\ contest[n] = c
  BY <1>1, <1>2 DEF NotifyInv, QueuesHold, QueuedWait
<1>5. w = Without(q, hungUp)
  BY DEF LiveQueue
<1> HIDE DEF w, q
<1>8. q \in Seq(Call)
  BY <1>1
<1>6. /\ w \in Seq(Call)
      /\ {w[i] : i \in 1..Len(w)} = {q[i] : i \in 1..Len(q)} \ hungUp
      /\ \A i, j \in 1..Len(w) : w[i] = w[j] => i = j
  <2>1. Without(q, hungUp) \in Seq(Call)
    BY <1>8, WithoutFacts
  <2>2. {Without(q, hungUp)[i] : i \in 1..Len(Without(q, hungUp))}
           = {q[i] : i \in 1..Len(q)} \ hungUp
    BY <1>8, WithoutFacts
  <2>3. \A i, j \in 1..Len(Without(q, hungUp)) :
           Without(q, hungUp)[i] = Without(q, hungUp)[j] => i = j
    BY <1>3, <1>8, WithoutFacts
  <2> QED BY <1>5, <2>1, <2>2, <2>3
<1>7. \A n : (\E i \in 1..Len(w) : w[i] = n) <=> n \in InQueue(c) /\ Live(n)
  <2>1. \A n : (\E i \in 1..Len(w) : w[i] = n) <=> n \in {w[i] : i \in 1..Len(w)}
    OBVIOUS
  <2> QED BY <1>2, <1>6, <2>1 DEF Live
<1> QED BY <1>4, <1>6, <1>7 DEF w

(* A call comes: what it finds, and what everybody but it still sees. *)
LEMMA Comes ==
    ASSUME NotifyInv, NEW n \in Call, NEW p \in Player, NEW c \in Competition, Subscribe(n, p, c)
    PROVE  /\ n = Len(user) + 1 /\ stage[n] = "idle" /\ n \notin woken
           /\ \A d \in Competition : n \notin InQueue(d)
           /\ user' \in Seq(Player) /\ contest' \in Seq(Competition)
           /\ Len(user') = n /\ Len(contest') = n
           /\ DOMAIN user' = DOMAIN user \cup {n} /\ DOMAIN user = 1..Len(user)
           /\ DOMAIN contest = DOMAIN user
           /\ user'[n] = p /\ contest'[n] = c
           /\ \A m \in DOMAIN user : user'[m] = user[m] /\ contest'[m] = contest[m] /\ m < n
           /\ hungUp' = hungUp /\ delivered' = delivered
           /\ \A m \in Call : m # n => stage'[m] = stage[m]
           /\ \A m \in Call : Waiting(m) => m \in DOMAIN user
           /\ \A d \in Competition : d # c => queue'[d] = queue[d]
           /\ stage' \in [Call -> {"idle", "waiting"} \cup Finished]
<1>1. n = Len(user) + 1 /\ user' = Append(user, p) /\ contest' = Append(contest, c)
      /\ hungUp' = hungUp /\ delivered' = delivered
  BY DEF Subscribe
<1>2. /\ user \in Seq(Player) /\ contest \in Seq(Competition) /\ Len(user) = Len(contest)
      /\ Len(user) \in Nat /\ stage \in [Call -> {"idle", "waiting"} \cup Finished]
      /\ \A m \in Call : stage[m] = "idle" <=> m > Len(user)
  BY DEF NotifyInv, NotificationTypeOK
<1>3. stage[n] = "idle" /\ n > Len(user)
  BY <1>1, <1>2
<1>4. n \notin woken
  <2>1. \A m \in woken : m \in DOMAIN user
    BY DEF NotifyInv, KeysHold, WokenHaveSlots
  <2>2. DOMAIN user = 1..Len(user)
    BY <1>2
  <2> QED BY <1>2, <1>3, <2>1, <2>2
<1>5. ASSUME NEW d \in Competition PROVE n \notin InQueue(d)
  BY <1>3, LiveQueueFacts DEF Waiting
<1>6. /\ user' \in Seq(Player) /\ contest' \in Seq(Competition)
      /\ Len(user') = n /\ Len(contest') = n /\ user'[n] = p /\ contest'[n] = c
      /\ \A m \in 1..Len(user) : user'[m] = user[m] /\ contest'[m] = contest[m] /\ m < n
      /\ DOMAIN user = 1..Len(user) /\ DOMAIN user' = 1..(Len(user) + 1)
      /\ DOMAIN contest = 1..Len(user)
  BY <1>1, <1>2
<1>7. DOMAIN user' = DOMAIN user \cup {n}
  BY <1>1, <1>2, <1>6
<1>8. /\ \A m \in Call : m # n => stage'[m] = stage[m]
      /\ \A d \in Competition : d # c => queue'[d] = queue[d]
      /\ stage' \in [Call -> {"idle", "waiting"} \cup Finished]
  BY <1>2 DEF Subscribe, Refuse, PairUp, Enqueue, Finished, NotifyInv, NotificationTypeOK
<1>9. \A m \in Call : Waiting(m) => m \in DOMAIN user
  BY <1>2, <1>6 DEF Waiting, Call
<1> QED BY <1>1, <1>3, <1>4, <1>5, <1>6, <1>7, <1>8, <1>9

LEMMA OtherQueues ==
    ASSUME NotifyInv, NEW n \in Call, NEW p \in Player, NEW c \in Competition, Subscribe(n, p, c),
           NEW d \in Competition, d # c
    PROVE  queue'[d] = queue[d]
  BY DEF Subscribe, Refuse, PairUp, Enqueue, NotifyInv, NotificationTypeOK

(* The calls a key joins are older than one that comes. *)
LEMMA KeyCalls ==
    ASSUME NotifyInv, NEW k \in keys, NEW i \in 1..2
    PROVE  /\ k \in Call \X Call /\ k[i] \in Call /\ k[i] \in woken /\ k[i] \in DOMAIN user
           /\ user[k[i]] \in Player /\ contest[k[i]] \in Competition
<1>1. k \in Call \X Call
  BY DEF NotifyInv, NotificationTypeOK, MatchingKey
<1>2. i = 1 \/ i = 2
  OBVIOUS
<1>3. k[i] \in woken
  BY <1>2 DEF NotifyInv, KeysHold, KeysJoin
<1>4. k[i] \in DOMAIN user
  BY <1>3 DEF NotifyInv, KeysHold, WokenHaveSlots
<1>5. user[k[i]] \in Player /\ contest[k[i]] \in Competition
  BY <1>4 DEF NotifyInv, NotificationTypeOK
<1> QED BY <1>1, <1>2, <1>3, <1>4, <1>5

LEMMA KeySeen ==
    ASSUME NotifyInv, NEW n \in Call, NEW p \in Player, NEW c \in Competition, Subscribe(n, p, c),
           NEW k \in keys
    PROVE  /\ \A i \in 1..2 : /\ user'[k[i]] = user[k[i]] /\ contest'[k[i]] = contest[k[i]]
                              /\ k[i] < n /\ k[i] # n /\ stage'[k[i]] = stage[k[i]]
           /\ Latest(k)' => Latest(k) /\ p \notin {user[k[1]], user[k[2]]}
<1>1. \A i \in 1..2 : k[i] \in DOMAIN user /\ k[i] \in Call
  BY KeyCalls
<1>2. ASSUME NEW i \in 1..2
      PROVE  /\ user'[k[i]] = user[k[i]] /\ contest'[k[i]] = contest[k[i]]
             /\ k[i] < n /\ k[i] # n /\ stage'[k[i]] = stage[k[i]]
  <2>1. k[i] \in DOMAIN user /\ k[i] \in Call
    BY <1>1
  <2>2. user'[k[i]] = user[k[i]] /\ contest'[k[i]] = contest[k[i]] /\ k[i] < n
    BY <2>1, Comes
  <2>3. k[i] # n
    BY <2>1, <2>2 DEF Call
  <2> QED BY <2>1, <2>2, <2>3, Comes
<1>3. 1 \in 1..2 /\ 2 \in 1..2
  OBVIOUS
<1>4. ASSUME Latest(k)' PROVE Latest(k) /\ p \notin {user[k[1]], user[k[2]]}
  <2>1. \A m \in DOMAIN user' : m > k[2] => user'[m] \notin {user[k[1]], user[k[2]]}
    BY <1>2, <1>3, <1>4 DEF Latest
  <2>2. n \in DOMAIN user' /\ user'[n] = p /\ n > k[2]
    BY <1>2, <1>3, Comes
  <2>3. \A m \in DOMAIN user : m \in DOMAIN user' /\ user'[m] = user[m]
    BY Comes
  <2> QED BY <2>1, <2>2, <2>3 DEF Latest
<1> QED BY <1>2, <1>4

(* A call that draws no key changes nothing for the keys there are. *)
LEMMA KeysStay ==
    ASSUME NotifyInv, NEW n \in Call, NEW p \in Player, NEW c \in Competition, Subscribe(n, p, c),
           UNCHANGED <<notifications, woken, keys>>, stage'[n] # "matched"
    PROVE  KeysHold'
<1>1. /\ \A m \in DOMAIN user : user'[m] = user[m] /\ contest'[m] = contest[m]
      /\ DOMAIN user \subseteq DOMAIN user'
      /\ \A m \in Call : m # n => stage'[m] = stage[m]
      /\ delivered' = delivered /\ hungUp' = hungUp
  BY Comes
<1>12. n = Len(user) + 1 /\ DOMAIN user = 1..Len(user)
  BY Comes
<1>9. ASSUME NEW k \in keys, NEW i \in 1..2
      PROVE  /\ user'[k[i]] = user[k[i]] /\ contest'[k[i]] = contest[k[i]]
             /\ k[i] < n /\ k[i] # n /\ stage'[k[i]] = stage[k[i]]
             /\ k[i] \in DOMAIN user /\ k[i] \in Call
  BY KeySeen, KeyCalls
<1>10. \A k \in keys : Latest(k)' => Latest(k)
  BY KeySeen
<1>11. 1 \in 1..2 /\ 2 \in 1..2
  OBVIOUS
<1>2. KeysJoin'
  <2> SUFFICES ASSUME NEW k \in keys
               PROVE  /\ k[1] \in woken' /\ k[2] \in woken'
                      /\ user'[k[1]] # user'[k[2]] /\ contest'[k[1]] = contest'[k[2]]
    BY DEF KeysJoin
  <2>2. /\ user'[k[1]] = user[k[1]] /\ user'[k[2]] = user[k[2]]
        /\ contest'[k[1]] = contest[k[1]] /\ contest'[k[2]] = contest[k[2]]
    BY <1>9, <1>11
  <2> QED BY <2>2 DEF NotifyInv, KeysHold, KeysJoin
<1>3. WokenHaveSlots'
  BY <1>1 DEF NotifyInv, KeysHold, WokenHaveSlots
<1>4. SlotsName'
  <2> SUFFICES ASSUME NEW r \in Player, NEW d \in Competition, notifications[<<r, d>>] # NoKey
               PROVE  notifications[<<r, d>>] \in keys /\ Names(notifications[<<r, d>>], r)'
    BY DEF SlotsName
  <2>1. notifications[<<r, d>>] \in keys /\ Names(notifications[<<r, d>>], r)
    BY DEF NotifyInv, KeysHold, SlotsName
  <2> QED BY <1>9, <2>1 DEF Names
<1>5. DeliveredName'
  <2> SUFFICES ASSUME NEW m \in Call, stage'[m] = "matched"
               PROVE  delivered[m] \in keys /\ Names(delivered[m], user[m])'
    BY <1>1 DEF DeliveredName
  <2>1. m # n /\ stage[m] = "matched"
    BY <1>1
  <2>2. delivered[m] \in keys /\ Names(delivered[m], user[m])
    BY <2>1 DEF NotifyInv, KeysHold, DeliveredName
  <2>3. m \in DOMAIN user
    BY <2>1 DEF NotifyInv, NotificationTypeOK, Call
  <2>4. user'[m] = user[m]
    BY <1>1, <2>3
  <2>5. PICK i \in 1..2 : user[delivered[m][i]] = user[m]
    BY <2>2 DEF Names
  <2>6. user'[delivered[m][i]] = user'[m]
    BY <1>9, <2>2, <2>4, <2>5
  <2> QED BY <1>1, <2>2, <2>6 DEF Names
<1>6. PairsAreServed'
  <2> SUFFICES ASSUME NEW k \in keys, NEW m \in Call, m <= k[2], contest'[m] = contest'[k[2]]
               PROVE  ~ Unserved(m)'
    BY DEF PairsAreServed
  <2>2. k[2] < n /\ k[2] \in DOMAIN user /\ contest'[k[2]] = contest[k[2]] /\ k[2] \in Call
    BY <1>9, <1>11
  <2>3. m # n /\ m \in DOMAIN user
    BY <1>12, <2>2 DEF Call
  <2>4. ~ Unserved(m)
    BY <1>1, <2>2, <2>3 DEF NotifyInv, KeysHold, PairsAreServed
  <2> QED BY <1>1, <2>3, <2>4 DEF Unserved, Waiting, Live
<1>7. SlotsAreFresh'
  <2> SUFFICES ASSUME NEW k \in keys, Latest(k)', NEW i \in 1..2
               PROVE  notifications[<<user'[k[i]], contest'[k[i]]>>] = k
    BY DEF SlotsAreFresh
  <2>1. notifications[<<user[k[i]], contest[k[i]]>>] = k
    BY <1>10 DEF NotifyInv, KeysHold, SlotsAreFresh
  <2> QED BY <1>9, <2>1
<1>8. DeliveredFresh'
  <2> SUFFICES ASSUME NEW k \in keys, Latest(k)', NEW i \in 1..2, stage'[k[i]] = "matched"
               PROVE  delivered[k[i]] = k
    BY <1>1 DEF DeliveredFresh
  <2> QED BY <1>9, <1>10 DEF NotifyInv, KeysHold, DeliveredFresh
<1> QED BY <1>2, <1>3, <1>4, <1>5, <1>6, <1>7, <1>8 DEF KeysHold

(* The queues after a call came for c: elsewhere they are what they were,  *)
(* there they hold some live calls of the old queue and perhaps the new.   *)
LEMMA QueuesAfter ==
    ASSUME NotifyInv, NEW n \in Call, NEW p \in Player, NEW c \in Competition, Subscribe(n, p, c),
           queue'[c] \in Seq(Call),
           \A i, j \in 1..Len(queue'[c]) : queue'[c][i] = queue'[c][j] => i = j,
           \A i \in 1..Len(queue'[c]) :
               \/ queue'[c][i] \in InQueue(c) /\ queue'[c][i] \notin woken'
               \/ queue'[c][i] = n /\ stage'[n] = "waiting" /\ n \notin woken',
           \A d \in Competition : d # c => \A m \in InQueue(d) : m \notin woken'
    PROVE  QueuedWait' /\ QueuedOnce'
<1>0. \A d \in Competition : queue[d] \in Seq(Call) /\ DOMAIN queue[d] = 1..Len(queue[d])
  BY DEF NotifyInv, NotificationTypeOK
<1>4. /\ \A d \in Competition : d # c => queue'[d] = queue[d]
      /\ \A m \in Call : m # n => stage'[m] = stage[m]
      /\ \A m \in Call : Waiting(m) => m \in DOMAIN user
      /\ \A m \in DOMAIN user : contest'[m] = contest[m]
  <2>1. \A d \in Competition : d # c => queue'[d] = queue[d]
    BY OtherQueues
  <2>2. \A m \in Call : m # n => stage'[m] = stage[m]
    BY Comes
  <2>3. \A m \in Call : Waiting(m) => m \in DOMAIN user
    BY Comes
  <2>4. \A m \in DOMAIN user : contest'[m] = contest[m]
    BY Comes
  <2> QED BY <2>1, <2>2, <2>3, <2>4
<1>5. stage[n] = "idle" /\ contest'[n] = c
  BY Comes
<1>1. QueuedOnce'
  <2> SUFFICES ASSUME NEW d \in Competition
               PROVE  \A i, j \in 1..Len(queue'[d]) : queue'[d][i] = queue'[d][j] => i = j
    BY DEF QueuedOnce
  <2>1. CASE d = c
    BY <2>1
  <2>2. CASE d # c
    BY <1>4, <2>2 DEF NotifyInv, QueuesHold, QueuedOnce
  <2> QED BY <2>1, <2>2
<1>2. ASSUME NEW d \in Competition, NEW m \in InQueue(d), m \notin woken'
      PROVE  stage'[m] = "waiting" /\ contest'[m] = d
  <2>1. m \in Call /\ Waiting(m) /\ contest[m] = d
    BY LiveQueueFacts
  <2>2. m # n /\ m \in DOMAIN user
    BY <1>4, <1>5, <2>1 DEF Waiting
  <2> QED BY <1>4, <2>1, <2>2 DEF Waiting
<1>3. QueuedWait'
  <2> SUFFICES ASSUME NEW d \in Competition, NEW i \in 1..Len(queue'[d])
               PROVE  /\ stage'[queue'[d][i]] = "waiting" /\ queue'[d][i] \notin woken'
                      /\ contest'[queue'[d][i]] = d
    BY DEF QueuedWait, Waiting
  <2>1. CASE d = c
    BY <1>2, <1>4, <1>5, <2>1
  <2>2. CASE d # c
    <3>1. queue'[d] = queue[d]
      BY <1>4, <2>2
    <3>2. queue[d][i] \in InQueue(d)
      BY <1>0, <3>1 DEF InQueue
    <3> QED BY <1>2, <2>2, <3>1, <3>2
  <2> QED BY <2>1, <2>2
<1> QED BY <1>1, <1>3

(* Nobody is left out of the queues, and no two wait in one of them. *)
LEMMA ServedAfter ==
    ASSUME NotifyInv, NEW n \in Call, NEW p \in Player, NEW c \in Competition, Subscribe(n, p, c),
           queue'[c] \in Seq(Call), woken \subseteq woken',
           \A m \in InQueue(c) : Live(m) /\ m \notin woken' =>
               \E i \in 1..Len(queue'[c]) : queue'[c][i] = m,
           Unserved(n)' => /\ \E i \in 1..Len(queue'[c]) : queue'[c][i] = n
                           /\ \A m \in InQueue(c) : ~ Live(m)
    PROVE  NobodyForgotten' /\ NobodyWaitsInVain'
<1>1. \A d \in Competition : d # c => queue'[d] = queue[d]
  BY OtherQueues
<1>2. /\ \A m \in Call : m # n => stage'[m] = stage[m]
      /\ hungUp' = hungUp /\ contest'[n] = c
  BY Comes
<1>3. \A m \in Call : Waiting(m) => m \in DOMAIN user
  BY Comes
<1>4. \A m \in DOMAIN user : contest'[m] = contest[m]
  BY Comes
<1>5. ASSUME NEW m \in Call, m # n, Unserved(m)'
      PROVE  Unserved(m) /\ contest'[m] = contest[m] /\ m \in InQueue(contest[m])
  <2>1. Unserved(m)
    BY <1>2, <1>5 DEF Unserved, Waiting, Live
  <2>2. contest'[m] = contest[m]
    BY <1>3, <1>4, <2>1 DEF Unserved
  <2>3. m \in InQueue(contest[m])
    BY <2>1 DEF NotifyInv, QueuesHold, NobodyForgotten, Unserved
  <2> QED BY <2>1, <2>2, <2>3
<1>6. DOMAIN queue'[c] = 1..Len(queue'[c])
  OBVIOUS
<1>7. ASSUME NEW m \in Call, Unserved(m)' PROVE m \in InQueue(contest[m])'
  <2>1. CASE m = n
    BY <1>2, <1>6, <1>7, <2>1 DEF InQueue
  <2>2. CASE m # n
    <3>1. Unserved(m) /\ contest'[m] = contest[m] /\ m \in InQueue(contest[m])
      BY <1>5, <1>7, <2>2
    <3>2. CASE contest[m] = c
      <4>1. m \notin woken' /\ Live(m)
        BY <1>2, <1>7, <3>1 DEF Unserved, Live
      <4> QED BY <1>6, <3>1, <3>2, <4>1 DEF InQueue
    <3>3. CASE contest[m] # c
      <4>1. contest[m] \in Competition
        BY <1>3, <3>1 DEF Unserved, NotifyInv, NotificationTypeOK
      <4> QED BY <1>1, <3>1, <3>3, <4>1 DEF InQueue
    <3> QED BY <3>2, <3>3
  <2> QED BY <2>1, <2>2
<1>8. NobodyForgotten'
  BY <1>7 DEF NobodyForgotten, Unserved
<1>9. ASSUME NEW m \in Call, Unserved(m)', Unserved(n)', contest'[m] = c PROVE m = n
  <2> SUFFICES ASSUME m # n PROVE FALSE
    OBVIOUS
  <2>1. Unserved(m) /\ contest'[m] = contest[m] /\ m \in InQueue(contest[m])
    BY <1>5, <1>9
  <2> QED BY <1>9, <2>1 DEF Unserved
<1>10. ASSUME NEW m \in Call, NEW o \in Call, Unserved(m)', Unserved(o)',
              contest'[m] = contest'[o]
       PROVE  m = o
  <2>1. CASE m # n /\ o # n
    <3>1. Unserved(m) /\ Unserved(o) /\ contest[m] = contest[o]
      BY <1>5, <1>10, <2>1
    <3> QED BY <3>1 DEF NotifyInv, QueuesHold, NobodyWaitsInVain, Unserved
  <2> QED BY <1>2, <1>9, <1>10, <2>1
<1>11. NobodyWaitsInVain'
  BY <1>10 DEF NobodyWaitsInVain, Unserved
<1> QED BY <1>8, <1>11

LEMMA TypeAfter ==
    ASSUME NotifyInv, NEW n \in Call, NEW p \in Player, NEW c \in Competition, Subscribe(n, p, c),
           queue' \in [Competition -> Seq(Call)],
           notifications' \in [Player \X Competition -> MatchingKey \cup {NoKey}],
           woken' \subseteq Call, keys' \subseteq MatchingKey,
           stage'[n] \in {"waiting", "refused"}
    PROVE  NotificationTypeOK'
<1>1. n = Len(user) + 1 /\ Len(user') = n /\ Len(contest') = n
  BY Comes
<1>2. /\ user' \in Seq(Player) /\ contest' \in Seq(Competition)
      /\ hungUp' = hungUp /\ delivered' = delivered
      /\ stage' \in [Call -> {"idle", "waiting"} \cup Finished]
  BY Comes
<1>3. \A m \in Call : m # n => stage'[m] = stage[m]
  BY Comes
<1>4. Len(user') <= MaxCalls
  BY <1>1, CallAssumption DEF Call
<1>5. \A m \in Call : stage'[m] = "idle" <=> m > Len(user')
  BY <1>1, <1>3 DEF NotifyInv, NotificationTypeOK, Call
<1>6. \A m \in Call : stage'[m] = "matched" => delivered'[m] \in MatchingKey
  BY <1>2, <1>3 DEF NotifyInv, NotificationTypeOK
<1> QED BY <1>1, <1>2, <1>4, <1>5, <1>6 DEF NotifyInv, NotificationTypeOK

-----------------------------------------------------------------------------
LEMMA RefuseInv ==
    ASSUME NotifyInv, NEW n \in Call, NEW p \in Player, NEW c \in Competition,
           Subscribe(n, p, c), Refuse(n, c)
    PROVE  NotifyInv'
<1>1. /\ queue' = [queue EXCEPT ![c] = LiveQueue(c)]
      /\ stage' = [stage EXCEPT ![n] = "refused"]
      /\ UNCHANGED <<notifications, woken, keys>>
  BY DEF Refuse
<1>2. queue'[c] = LiveQueue(c) /\ stage'[n] = "refused"
  BY <1>1 DEF NotifyInv, NotificationTypeOK
<1>3. queue'[c] \in Seq(Call)
  BY <1>2, LiveQueueFacts
<1>4. \A m : (\E i \in 1..Len(queue'[c]) : queue'[c][i] = m) <=> m \in InQueue(c) /\ Live(m)
  BY <1>2, LiveQueueFacts
<1>5. \A d \in Competition : \A m \in InQueue(d) : m \notin woken'
  BY <1>1, LiveQueueFacts
<1>6. KeysHold'
  BY <1>1, <1>2, KeysStay
<1>7. QueuedWait' /\ QueuedOnce'
  <2>1. \A i, j \in 1..Len(queue'[c]) : queue'[c][i] = queue'[c][j] => i = j
    BY <1>2, LiveQueueFacts
  <2>2. \A i \in 1..Len(queue'[c]) : queue'[c][i] \in InQueue(c) /\ queue'[c][i] \notin woken'
    BY <1>4, <1>5
  <2> QED BY <1>3, <1>5, <2>1, <2>2, QueuesAfter
<1>8. NobodyForgotten' /\ NobodyWaitsInVain'
  <2>1. ~ Unserved(n)'
    BY <1>2 DEF Unserved, Waiting
  <2> QED BY <1>1, <1>3, <1>4, <2>1, ServedAfter
<1>9. NotificationTypeOK'
  <2>1. queue' \in [Competition -> Seq(Call)]
    BY <1>1, <1>2, <1>3 DEF NotifyInv, NotificationTypeOK
  <2> QED BY <1>1, <1>2, <2>1, TypeAfter DEF NotifyInv, NotificationTypeOK
<1> QED BY <1>6, <1>7, <1>8, <1>9 DEF NotifyInv, QueuesHold

LEMMA EnqueueInv ==
    ASSUME NotifyInv, NEW n \in Call, NEW p \in Player, NEW c \in Competition,
           Subscribe(n, p, c), LiveQueue(c) = <<>>, Enqueue(n, c)
    PROVE  NotifyInv'
<1>1. /\ queue' = [queue EXCEPT ![c] = Append(LiveQueue(c), n)]
      /\ stage' = [stage EXCEPT ![n] = "waiting"]
      /\ UNCHANGED <<notifications, woken, keys>>
  BY DEF Enqueue
<1>2. queue'[c] = <<n>> /\ stage'[n] = "waiting"
  <2>1. Append(<<>>, n) = <<n>>
    OBVIOUS
  <2> QED BY <1>1, <2>1 DEF NotifyInv, NotificationTypeOK
<1>3. queue'[c] \in Seq(Call) /\ Len(queue'[c]) = 1 /\ queue'[c][1] = n
  BY <1>2
<1>4. \A m \in InQueue(c) : ~ Live(m)
  <2>1. \A i \in 1..Len(LiveQueue(c)) : FALSE
    OBVIOUS
  <2> QED BY <2>1, LiveQueueFacts
<1>5. \A d \in Competition : \A m \in InQueue(d) : m \notin woken'
  BY <1>1, LiveQueueFacts
<1>6. KeysHold'
  BY <1>1, <1>2, KeysStay
<1>10. n \notin woken'
  BY <1>1, Comes
<1>7. QueuedWait' /\ QueuedOnce'
  <2>1. \A i, j \in 1..Len(queue'[c]) : queue'[c][i] = queue'[c][j] => i = j
    BY <1>3
  <2>2. \A i \in 1..Len(queue'[c]) :
           queue'[c][i] = n /\ stage'[n] = "waiting" /\ n \notin woken'
    BY <1>2, <1>3, <1>10
  <2> QED BY <1>3, <1>5, <2>1, <2>2, QueuesAfter
<1>8. NobodyForgotten' /\ NobodyWaitsInVain'
  <2>1. \E i \in 1..Len(queue'[c]) : queue'[c][i] = n
    BY <1>3
  <2> QED BY <1>1, <1>3, <1>4, <2>1, ServedAfter
<1>9. NotificationTypeOK'
  <2>1. queue' \in [Competition -> Seq(Call)]
    BY <1>1, <1>2, <1>3 DEF NotifyInv, NotificationTypeOK
  <2> QED BY <1>1, <1>2, <2>1, TypeAfter DEF NotifyInv, NotificationTypeOK
<1> QED BY <1>6, <1>7, <1>8, <1>9 DEF NotifyInv, QueuesHold

(* The pair of a key that is drawn. *)
LEMMA KeyDrawn ==
    ASSUME NotifyInv, NEW n \in Call, NEW p \in Player, NEW c \in Competition, Subscribe(n, p, c),
           LiveQueue(c) # <<>>, \A i \in DOMAIN LiveQueue(c) : user[LiveQueue(c)[i]] # p,
           PairUp(n, p, c)
    PROVE  \E other \in InQueue(c) :
              /\ other \in Call /\ other \in DOMAIN user /\ Live(other) /\ other # n
              /\ user[other] # p /\ contest[other] = c
              /\ \A m \in InQueue(c) : Live(m) => m = other \/ m \in InQueue(c)'
              /\ queue'[c] \in Seq(Call)
              /\ \A i \in 1..Len(queue'[c]) :
                    queue'[c][i] \in InQueue(c) /\ queue'[c][i] # other /\ Live(queue'[c][i])
              /\ \A i, j \in 1..Len(queue'[c]) : queue'[c][i] = queue'[c][j] => i = j
              /\ notifications' = Notified(c, p, other, n)
              /\ woken' = woken \cup {other, n} /\ keys' = keys \cup {<<other, n>>}
              /\ queue' \in [Competition -> Seq(Call)] /\ stage'[n] = "waiting"
<1> DEFINE w == LiveQueue(c)  other == Head(w)
<1>1. /\ queue' = [queue EXCEPT ![c] = Tail(w)]
      /\ notifications' = Notified(c, p, other, n)
      /\ stage' = [stage EXCEPT ![n] = "waiting"]
      /\ woken' = woken \cup {other, n} /\ keys' = keys \cup {<<other, n>>}
  BY DEF PairUp, StillWaiting, Woken
<1>2. w \in Seq(Call) /\ w # <<>>
  BY LiveQueueFacts
<1>3. \A m : (\E i \in 1..Len(w) : w[i] = m) <=> m \in InQueue(c) /\ Live(m)
  BY LiveQueueFacts
<1>4. \A i, j \in 1..Len(w) : w[i] = w[j] => i = j
  BY LiveQueueFacts
<1>5. \A i \in 1..Len(w) : user[w[i]] # p
  <2>1. DOMAIN w = 1..Len(w)
    BY <1>2
  <2> QED BY <2>1
<1> HIDE DEF w
<1>6. /\ Len(w) \in Nat /\ Len(w) >= 1 /\ other = w[1] /\ other \in Call
      /\ Tail(w) \in Seq(Call) /\ Len(Tail(w)) = Len(w) - 1
      /\ \A i \in 1..Len(Tail(w)) : Tail(w)[i] = w[i + 1] /\ i + 1 \in 1..Len(w) /\ i + 1 # 1
  BY <1>2
<1>7. other \in InQueue(c) /\ Live(other) /\ user[other] # p
  BY <1>3, <1>5, <1>6
<1>8. other \in DOMAIN user /\ other # n /\ contest[other] = c
  <2>1. Waiting(other) /\ contest[other] = c
    BY <1>7, LiveQueueFacts
  <2>2. \A m \in Call : Waiting(m) => m \in DOMAIN user
    BY Comes
  <2>3. n \notin InQueue(c)
    BY Comes
  <2> QED BY <1>6, <1>7, <2>1, <2>2, <2>3
<1>9. queue'[c] = Tail(w) /\ stage'[n] = "waiting" /\ queue' \in [Competition -> Seq(Call)]
  BY <1>1, <1>6 DEF NotifyInv, NotificationTypeOK
<1>10. \A i \in 1..Len(Tail(w)) :
          Tail(w)[i] \in InQueue(c) /\ Tail(w)[i] # other /\ Live(Tail(w)[i])
  <2> SUFFICES ASSUME NEW i \in 1..Len(Tail(w))
               PROVE  Tail(w)[i] \in InQueue(c) /\ Tail(w)[i] # other /\ Live(Tail(w)[i])
    OBVIOUS
  <2>1. Tail(w)[i] = w[i + 1] /\ i + 1 \in 1..Len(w) /\ i + 1 # 1 /\ 1 \in 1..Len(w)
    BY <1>6
  <2> QED BY <1>3, <1>4, <1>6, <2>1
<1>11. \A i, j \in 1..Len(Tail(w)) : Tail(w)[i] = Tail(w)[j] => i = j
  <2> SUFFICES ASSUME NEW i \in 1..Len(Tail(w)), NEW j \in 1..Len(Tail(w)),
                      Tail(w)[i] = Tail(w)[j]
               PROVE  i = j
    OBVIOUS
  <2>1. i + 1 = j + 1
    BY <1>4, <1>6
  <2> QED BY <2>1
<1>12. ASSUME NEW m \in InQueue(c), Live(m), m # other PROVE m \in InQueue(c)'
  <2>1. PICK i \in 1..Len(w) : w[i] = m
    BY <1>3, <1>12
  <2>2. i # 1 /\ i - 1 \in 1..Len(Tail(w)) /\ Tail(w)[i - 1] = m
    BY <1>6, <1>12, <2>1
  <2>3. DOMAIN Tail(w) = 1..Len(Tail(w))
    BY <1>6
  <2> QED BY <1>9, <2>2, <2>3 DEF InQueue
<1>13. other \in Call
  BY <1>6
<1>14. /\ queue'[c] \in Seq(Call)
       /\ \A i \in 1..Len(queue'[c]) :
             queue'[c][i] \in InQueue(c) /\ queue'[c][i] # other /\ Live(queue'[c][i])
       /\ \A i, j \in 1..Len(queue'[c]) : queue'[c][i] = queue'[c][j] => i = j
  BY <1>6, <1>9, <1>10, <1>11
<1> HIDE DEF other
<1>15. \A m \in InQueue(c) : Live(m) => m = other \/ m \in InQueue(c)'
  BY <1>12
<1>16. other \in InQueue(c)
  BY <1>7
<1> USE <1>16
<1> WITNESS other \in InQueue(c)
<1> QED BY <1>1, <1>7, <1>8, <1>9, <1>13, <1>14, <1>15

LEMMA PairUpQueues ==
    ASSUME NotifyInv, NEW n \in Call, NEW p \in Player, NEW c \in Competition, Subscribe(n, p, c),
           LiveQueue(c) # <<>>, \A i \in DOMAIN LiveQueue(c) : user[LiveQueue(c)[i]] # p,
           PairUp(n, p, c)
    PROVE  QueuesHold'
<1>1. PICK other \in InQueue(c) :
        /\ contest[other] = c
        /\ \A m \in InQueue(c) : Live(m) => m = other \/ m \in InQueue(c)'
        /\ queue'[c] \in Seq(Call)
        /\ \A i \in 1..Len(queue'[c]) :
              queue'[c][i] \in InQueue(c) /\ queue'[c][i] # other /\ Live(queue'[c][i])
        /\ \A i, j \in 1..Len(queue'[c]) : queue'[c][i] = queue'[c][j] => i = j
        /\ woken' = woken \cup {other, n}
  BY KeyDrawn
<1>2. \A d \in Competition : n \notin InQueue(d)
  BY Comes
<1>3. \A d \in Competition : \A m \in InQueue(d) : m \notin woken /\ contest[m] = d
  BY LiveQueueFacts
<1>4. \A d \in Competition : d # c => \A m \in InQueue(d) : m \notin woken'
  BY <1>1, <1>2, <1>3
<1>5. QueuedWait' /\ QueuedOnce'
  <2>1. \A i \in 1..Len(queue'[c]) : queue'[c][i] \in InQueue(c) /\ queue'[c][i] \notin woken'
    BY <1>1, <1>2, <1>3
  <2> QED BY <1>1, <1>4, <2>1, QueuesAfter
<1>6. NobodyForgotten' /\ NobodyWaitsInVain'
  <2>1. ~ Unserved(n)'
    BY <1>1 DEF Unserved
  <2>2. DOMAIN queue'[c] = 1..Len(queue'[c])
    BY <1>1
  <2>3. \A m \in InQueue(c) : Live(m) /\ m \notin woken' =>
           \E i \in 1..Len(queue'[c]) : queue'[c][i] = m
    BY <1>1, <2>2 DEF InQueue
  <2>4. woken \subseteq woken'
    BY <1>1
  <2> QED BY <1>1, <2>1, <2>3, <2>4, ServedAfter
<1> QED BY <1>5, <1>6 DEF QueuesHold

(* The one slot of a player that a new key is written to was, if another   *)
(* key was in it, that of a player who has called again since.             *)
LEMMA PairUpKeys ==
    ASSUME NotifyInv, NEW n \in Call, NEW p \in Player, NEW c \in Competition, Subscribe(n, p, c),
           LiveQueue(c) # <<>>, \A i \in DOMAIN LiveQueue(c) : user[LiveQueue(c)[i]] # p,
           PairUp(n, p, c)
    PROVE  KeysHold'
<1>1. PICK other \in InQueue(c) :
        /\ other \in Call /\ other \in DOMAIN user /\ Live(other) /\ other # n
        /\ user[other] # p /\ contest[other] = c
        /\ notifications' = Notified(c, p, other, n)
        /\ woken' = woken \cup {other, n} /\ keys' = keys \cup {<<other, n>>}
        /\ stage'[n] = "waiting"
  BY KeyDrawn
<1>2. Unserved(other)
  <2>1. Waiting(other) /\ other \notin woken
    BY LiveQueueFacts
  <2> QED BY <1>1, <2>1 DEF Unserved
<1> DEFINE key == <<other, n>>
<1>3. /\ n = Len(user) + 1 /\ DOMAIN user = 1..Len(user) /\ DOMAIN user' = DOMAIN user \cup {n}
      /\ user'[n] = p /\ contest'[n] = c /\ delivered' = delivered /\ hungUp' = hungUp
  BY Comes
<1>4. \A m \in DOMAIN user : user'[m] = user[m] /\ contest'[m] = contest[m] /\ m < n
  BY Comes
<1>5. \A m \in Call : m # n => stage'[m] = stage[m]
  BY Comes
<1>6. /\ key[1] = other /\ key[2] = n /\ key \in MatchingKey /\ key # NoKey
      /\ user'[other] = user[other] /\ user[other] \in Player /\ contest'[other] = c
  <2>1. key \in Call \X Call
    BY <1>1
  <2> QED BY <1>1, <1>4, <2>1, CallAssumption DEF MatchingKey, NotifyInv, NotificationTypeOK
<1>7. ASSUME NEW r \in Player, NEW d \in Competition
      PROVE  notifications'[<<r, d>>] =
                IF d = c /\ r \in {p, user[other]} THEN key ELSE notifications[<<r, d>>]
  <2>1. DOMAIN notifications = Player \X Competition
    BY DEF NotifyInv, NotificationTypeOK
  <2>2. <<r, d>> \in DOMAIN notifications
    BY <2>1
  <2>3. <<r, d>> = <<user[other], c>> <=> r = user[other] /\ d = c
    OBVIOUS
  <2>4. <<r, d>> = <<p, c>> <=> r = p /\ d = c
    OBVIOUS
  <2>5. notifications' = [notifications EXCEPT ![<<user[other], c>>] = key, ![<<p, c>>] = key]
    BY <1>1 DEF Notified
  <2> HIDE DEF key
  <2> QED BY <2>2, <2>3, <2>4, <2>5
<1>8. ASSUME NEW k \in keys, NEW i \in 1..2
      PROVE  /\ user'[k[i]] = user[k[i]] /\ contest'[k[i]] = contest[k[i]]
             /\ k[i] < n /\ k[i] # n /\ stage'[k[i]] = stage[k[i]]
             /\ k[i] \in DOMAIN user /\ k[i] \in Call
             /\ user[k[i]] \in Player /\ contest[k[i]] \in Competition
  BY KeySeen, KeyCalls
<1>9. \A k \in keys : Latest(k)' => Latest(k) /\ p \notin {user[k[1]], user[k[2]]}
  BY KeySeen
<1>10. 1 \in 1..2 /\ 2 \in 1..2
  OBVIOUS
<1>11. KeysJoin'
  <2> SUFFICES ASSUME NEW k \in keys'
               PROVE  /\ k[1] \in woken' /\ k[2] \in woken'
                      /\ user'[k[1]] # user'[k[2]] /\ contest'[k[1]] = contest'[k[2]]
    BY DEF KeysJoin
  <2>1. CASE k = key
    BY <1>1, <1>3, <1>6, <2>1
  <2>2. CASE k \in keys
    <3>1. /\ user'[k[1]] = user[k[1]] /\ user'[k[2]] = user[k[2]]
          /\ contest'[k[1]] = contest[k[1]] /\ contest'[k[2]] = contest[k[2]]
      BY <1>8, <1>10, <2>2
    <3> QED BY <1>1, <2>2, <3>1 DEF NotifyInv, KeysHold, KeysJoin
  <2> QED BY <1>1, <2>1, <2>2
<1> HIDE DEF key
<1>12. WokenHaveSlots'
  <2> SUFFICES ASSUME NEW m \in woken'
               PROVE  m \in DOMAIN user' /\ notifications'[<<user'[m], contest'[m]>>] # NoKey
    BY DEF WokenHaveSlots
  <2>1. CASE m = n
    BY <1>3, <1>6, <1>7, <2>1
  <2>2. CASE m = other
    BY <1>1, <1>3, <1>6, <1>7, <2>2
  <2>3. CASE m \in woken
    <3>1. m \in DOMAIN user /\ notifications[<<user[m], contest[m]>>] # NoKey
      BY <2>3 DEF NotifyInv, KeysHold, WokenHaveSlots
    <3>2. user[m] \in Player /\ contest[m] \in Competition
      BY <3>1 DEF NotifyInv, NotificationTypeOK
    <3>3. user'[m] = user[m] /\ contest'[m] = contest[m] /\ m \in DOMAIN user'
      BY <1>3, <1>4, <3>1
    <3>4. notifications'[<<user[m], contest[m]>>] # NoKey
      BY <1>6, <1>7, <3>1, <3>2
    <3> QED BY <3>3, <3>4
  <2> QED BY <1>1, <2>1, <2>2, <2>3
<1>13. SlotsName'
  <2> SUFFICES ASSUME NEW r \in Player, NEW d \in Competition, notifications'[<<r, d>>] # NoKey
               PROVE  /\ notifications'[<<r, d>>] \in keys'
                      /\ \E i \in 1..2 : user'[notifications'[<<r, d>>][i]] = r
    BY DEF SlotsName, Names
  <2>1. CASE d = c /\ r \in {p, user[other]}
    <3>1. notifications'[<<r, d>>] = key
      BY <1>7, <2>1
    <3>2. key \in keys'
      BY <1>1 DEF key
    <3> QED BY <1>3, <1>6, <1>10, <2>1, <3>1, <3>2
  <2>2. CASE ~ (d = c /\ r \in {p, user[other]})
    <3>1. notifications'[<<r, d>>] = notifications[<<r, d>>]
      BY <1>7, <2>2
    <3>2. PICK i \in 1..2 : /\ notifications[<<r, d>>] \in keys
                            /\ user[notifications[<<r, d>>][i]] = r
      BY <3>1 DEF NotifyInv, KeysHold, SlotsName, Names
    <3> QED BY <1>1, <1>8, <3>1, <3>2
  <2> QED BY <2>1, <2>2
<1>14. DeliveredName'
  <2> SUFFICES ASSUME NEW m \in Call, stage'[m] = "matched"
               PROVE  /\ delivered[m] \in keys'
                      /\ \E i \in 1..2 : user'[delivered[m][i]] = user'[m]
    BY <1>3 DEF DeliveredName, Names
  <2>1. m # n /\ stage[m] = "matched"
    BY <1>1, <1>5
  <2>2. PICK i \in 1..2 : delivered[m] \in keys /\ user[delivered[m][i]] = user[m]
    BY <2>1 DEF NotifyInv, KeysHold, DeliveredName, Names
  <2>3. m \in DOMAIN user
    BY <1>3, <2>1 DEF NotifyInv, NotificationTypeOK, Call
  <2> QED BY <1>1, <1>4, <1>8, <2>2, <2>3
<1>15. PairsAreServed'
  <2> SUFFICES ASSUME NEW k \in keys', NEW m \in Call, m <= k[2],
                      contest'[m] = contest'[k[2]], Unserved(m)'
               PROVE  FALSE
    BY DEF PairsAreServed
  <2>1. m # n /\ m # other
    BY <1>1 DEF Unserved
  <2>2. m \in DOMAIN user /\ Unserved(m)
    <3>1. Unserved(m)
      BY <1>1, <1>3, <1>5, <2>1 DEF Unserved, Waiting, Live
    <3>2. \A x \in Call : Waiting(x) => x \in DOMAIN user
      BY Comes
    <3> QED BY <3>1, <3>2 DEF Unserved
  <2>3. CASE k = key
    <3>1. contest[m] = c
      BY <1>3, <1>4, <1>6, <2>2, <2>3
    <3> QED BY <1>1, <1>2, <2>1, <2>2, <3>1
            DEF NotifyInv, QueuesHold, NobodyWaitsInVain, Unserved
  <2>4. CASE k \in keys
    <3>1. contest[m] = contest[k[2]]
      BY <1>4, <1>8, <1>10, <2>2, <2>4
    <3> QED BY <2>2, <2>4, <3>1 DEF NotifyInv, KeysHold, PairsAreServed
  <2> QED BY <1>1, <2>3, <2>4 DEF key
<1>16. SlotsAreFresh'
  <2> SUFFICES ASSUME NEW k \in keys', Latest(k)', NEW i \in 1..2
               PROVE  notifications'[<<user'[k[i]], contest'[k[i]]>>] = k
    BY DEF SlotsAreFresh
  <2>1. CASE k = key
    <3>1. i = 1 \/ i = 2
      OBVIOUS
    <3> QED BY <1>3, <1>6, <1>7, <2>1, <3>1
  <2>2. CASE k \in keys
    <3>1. Latest(k) /\ p \notin {user[k[1]], user[k[2]]}
      BY <1>9, <2>2
    <3>2. notifications[<<user[k[i]], contest[k[i]]>>] = k
      BY <2>2, <3>1 DEF NotifyInv, KeysHold, SlotsAreFresh
    <3>3. i = 1 \/ i = 2
      OBVIOUS
    <3>4. user[k[i]] # p /\ contest[k[i]] = contest[k[2]]
      BY <2>2, <3>1, <3>3 DEF NotifyInv, KeysHold, KeysJoin
    <3>5. ASSUME contest[k[i]] = c, user[k[i]] = user[other] PROVE FALSE
      <4>1. CASE other <= k[2]
        BY <1>1, <1>2, <2>2, <3>4, <3>5, <4>1 DEF NotifyInv, KeysHold, PairsAreServed
      <4>2. CASE other > k[2]
        BY <1>1, <3>1, <3>3, <3>5, <4>2 DEF Latest
      <4>3. other \in Nat /\ k[2] \in Nat
        BY <1>1, <1>8, <1>10, <2>2 DEF Call
      <4> QED BY <4>1, <4>2, <4>3
    <3> QED BY <1>7, <1>8, <2>2, <3>2, <3>4, <3>5
  <2> QED BY <1>1, <2>1, <2>2 DEF key
<1>17. DeliveredFresh'
  <2> SUFFICES ASSUME NEW k \in keys', Latest(k)', NEW i \in 1..2, stage'[k[i]] = "matched"
               PROVE  delivered[k[i]] = k
    BY <1>3 DEF DeliveredFresh
  <2>1. CASE k = key
    <3>1. i = 1 \/ i = 2
      OBVIOUS
    <3>2. stage'[other] = "waiting" /\ stage'[n] = "waiting"
      BY <1>1, <1>2, <1>5 DEF Unserved, Waiting
    <3> QED BY <1>6, <2>1, <3>1, <3>2
  <2>2. CASE k \in keys
    BY <1>8, <1>9, <2>2 DEF NotifyInv, KeysHold, DeliveredFresh
  <2> QED BY <1>1, <2>1, <2>2 DEF key
<1> QED BY <1>11, <1>12, <1>13, <1>14, <1>15, <1>16, <1>17 DEF KeysHold

LEMMA PairUpInv ==
    ASSUME NotifyInv, NEW n \in Call, NEW p \in Player, NEW c \in Competition, Subscribe(n, p, c),
           LiveQueue(c) # <<>>, \A i \in DOMAIN LiveQueue(c) : user[LiveQueue(c)[i]] # p,
           PairUp(n, p, c)
    PROVE  NotifyInv'
<1>1. NotificationTypeOK'
  <2>1. PICK other \in InQueue(c) :
          /\ other \in Call /\ other \in DOMAIN user
          /\ notifications' = Notified(c, p, other, n)
          /\ woken' = woken \cup {other, n} /\ keys' = keys \cup {<<other, n>>}
          /\ queue' \in [Competition -> Seq(Call)] /\ stage'[n] = "waiting"
    BY KeyDrawn
  <2>2. <<other, n>> \in MatchingKey
    BY <2>1 DEF MatchingKey
  <2>3. woken' \subseteq Call /\ keys' \subseteq MatchingKey
    BY <2>1, <2>2 DEF NotifyInv, NotificationTypeOK
  <2>4. notifications' \in [Player \X Competition -> MatchingKey \cup {NoKey}]
    BY <2>1, <2>2 DEF NotifyInv, NotificationTypeOK, Notified
  <2> QED BY <2>1, <2>3, <2>4, TypeAfter
<1> QED BY <1>1, PairUpQueues, PairUpKeys DEF NotifyInv

LEMMA SubscribeInv ==
    ASSUME NotifyInv, NEW n \in Call, NEW p \in Player, NEW c \in Competition, Subscribe(n, p, c)
    PROVE  NotifyInv'
<1> DEFINE w == LiveQueue(c)  own == \E i \in DOMAIN w : user[w[i]] = p
<1>1. \/ own /\ Refuse(n, c)
      \/ ~ own /\ w # <<>> /\ PairUp(n, p, c)
      \/ w = <<>> /\ Enqueue(n, c)
  BY DEF Subscribe
<1>2. CASE Refuse(n, c)
  BY <1>2, RefuseInv
<1>3. CASE ~ own /\ w # <<>> /\ PairUp(n, p, c)
  BY <1>3, PairUpInv
<1>4. CASE w = <<>> /\ Enqueue(n, c)
  BY <1>4, EnqueueInv
<1> QED BY <1>1, <1>2, <1>3, <1>4

-----------------------------------------------------------------------------
(* Hanging up changes nothing but that the call is live no more. *)
LEMMA HangUpInv ==
    ASSUME NotifyInv, NEW n \in Call, HangUp(n) PROVE NotifyInv'
<1>1. /\ hungUp' = hungUp \cup {n}
      /\ UNCHANGED <<queue, notifications, stage, user, contest, woken, keys, delivered>>
  BY DEF HangUp, calls
<1>2. \A m \in Call : Unserved(m)' => Unserved(m)
  BY <1>1 DEF Unserved, Waiting, Live
<1>3. NotificationTypeOK'
  BY <1>1 DEF NotifyInv, NotificationTypeOK
<1>4. QueuedWait' /\ QueuedOnce'
  BY <1>1 DEF NotifyInv, QueuesHold, QueuedWait, QueuedOnce, Waiting
<1>5. NobodyForgotten' /\ NobodyWaitsInVain'
  BY <1>1 DEF NotifyInv, QueuesHold, NobodyForgotten, NobodyWaitsInVain, Waiting, Live, InQueue
<1>6. KeysJoin' /\ WokenHaveSlots' /\ SlotsName' /\ DeliveredName'
  BY <1>1 DEF NotifyInv, KeysHold, KeysJoin, WokenHaveSlots, SlotsName, DeliveredName, Names
<1>7. PairsAreServed'
  BY <1>1, <1>2 DEF NotifyInv, KeysHold, PairsAreServed
<1>8. SlotsAreFresh' /\ DeliveredFresh'
  BY <1>1 DEF NotifyInv, KeysHold, SlotsAreFresh, DeliveredFresh, Latest
<1> QED BY <1>3, <1>4, <1>5, <1>6, <1>7, <1>8 DEF NotifyInv, QueuesHold, KeysHold

(* A call ends: the queue of its contest loses it at most, the keys and    *)
(* slots stay, and nobody else's stage or answer changes.                  *)
LEMMA EndsInv ==
    ASSUME NotifyInv, NEW n \in Call, Waiting(n), n \in woken \/ ~ Live(n),
           UNCHANGED <<notifications, user, contest, woken, hungUp, keys>>,
           NEW last \in {"matched", "canceled"}, stage' = [stage EXCEPT ![n] = last],
           queue' \in [Competition -> Seq(Call)],
           \A d \in Competition : {queue'[d][i] : i \in 1..Len(queue'[d])} = InQueue(d) \ {n},
           QueuedOnce',
           delivered' \in [Call -> MatchingKey \cup {NoKey}],
           \A m \in Call : m # n => delivered'[m] = delivered[m],
           last = "matched" =>
               n \in woken /\ delivered'[n] = notifications[<<user[n], contest[n]>>]
    PROVE  NotifyInv'
<1>1. stage'[n] = last /\ \A m \in Call : m # n => stage'[m] = stage[m]
  BY DEF NotifyInv, NotificationTypeOK
<1>2. \A m \in Call : Unserved(m)' <=> Unserved(m)
  BY <1>1 DEF Unserved, Waiting, Live
<1>3. \A d \in Competition : InQueue(d)' = InQueue(d) \ {n}
  <2> SUFFICES ASSUME NEW d \in Competition PROVE InQueue(d)' = InQueue(d) \ {n}
    OBVIOUS
  <2>1. queue'[d] \in Seq(Call) /\ DOMAIN queue'[d] = 1..Len(queue'[d])
    OBVIOUS
  <2> QED BY <2>1 DEF InQueue
<1>4. ASSUME n \in woken
      PROVE  /\ notifications[<<user[n], contest[n]>>] \in keys
             /\ Names(notifications[<<user[n], contest[n]>>], user[n])
             /\ notifications[<<user[n], contest[n]>>] \in MatchingKey
  <2>1. n \in DOMAIN user /\ notifications[<<user[n], contest[n]>>] # NoKey
    BY <1>4 DEF NotifyInv, KeysHold, WokenHaveSlots
  <2>2. user[n] \in Player /\ contest[n] \in Competition
    BY <2>1 DEF NotifyInv, NotificationTypeOK
  <2> QED BY <2>1, <2>2 DEF NotifyInv, KeysHold, SlotsName, NotificationTypeOK
<1>5. NotificationTypeOK'
  <2>1. stage' \in [Call -> {"idle", "waiting"} \cup Finished]
    BY DEF NotifyInv, NotificationTypeOK, Finished
  <2>2. \A m \in Call : stage'[m] = "idle" <=> m > Len(user)
    BY <1>1 DEF NotifyInv, NotificationTypeOK, Waiting
  <2>3. \A m \in Call : stage'[m] = "matched" => delivered'[m] \in MatchingKey
    BY <1>1, <1>4 DEF NotifyInv, NotificationTypeOK
  <2> QED BY <2>1, <2>2, <2>3 DEF NotifyInv, NotificationTypeOK
<1>6. QueuedWait'
  <2> SUFFICES ASSUME NEW d \in Competition, NEW i \in 1..Len(queue'[d])
               PROVE  /\ stage'[queue'[d][i]] = "waiting" /\ queue'[d][i] \notin woken
                      /\ contest[queue'[d][i]] = d
    BY DEF QueuedWait, Waiting
  <2>1. queue'[d][i] \in InQueue(d) /\ queue'[d][i] # n
    OBVIOUS
  <2>2. /\ queue'[d][i] \in Call /\ Waiting(queue'[d][i]) /\ queue'[d][i] \notin woken
        /\ contest[queue'[d][i]] = d
    BY <2>1, LiveQueueFacts
  <2> QED BY <1>1, <2>1, <2>2 DEF Waiting
<1>7. NobodyForgotten' /\ NobodyWaitsInVain'
  <2>1. \A m \in Call : Unserved(m)' => m # n /\ m \in InQueue(contest[m])
    BY <1>1, <1>2 DEF NotifyInv, QueuesHold, NobodyForgotten, Unserved, Waiting
  <2>2. \A m \in Call : Unserved(m) => contest[m] \in Competition
    BY DEF NotifyInv, NotificationTypeOK, Unserved, Waiting, Call
  <2>3. \A m \in Call : Unserved(m)' => m \in InQueue(contest[m])'
    BY <1>2, <1>3, <2>1, <2>2
  <2>4. NobodyForgotten'
    BY <2>3 DEF NobodyForgotten, Unserved
  <2>5. \A m, o \in Call : Unserved(m)' /\ Unserved(o)' /\ contest[m] = contest[o] => m = o
    BY <1>2 DEF NotifyInv, QueuesHold, NobodyWaitsInVain, Unserved
  <2> QED BY <2>4, <2>5 DEF NobodyWaitsInVain, Unserved
<1>8. KeysJoin' /\ WokenHaveSlots' /\ SlotsName'
  BY DEF NotifyInv, KeysHold, KeysJoin, WokenHaveSlots, SlotsName, Names
<1>9. DeliveredName'
  BY <1>1, <1>4 DEF NotifyInv, KeysHold, DeliveredName, Names
<1>10. PairsAreServed'
  BY <1>2 DEF NotifyInv, KeysHold, PairsAreServed
<1>13. \A k : Latest(k)' <=> Latest(k)
  BY DEF Latest
<1>11. SlotsAreFresh'
  BY <1>13 DEF NotifyInv, KeysHold, SlotsAreFresh
<1>12. DeliveredFresh'
  <2> SUFFICES ASSUME NEW k \in keys, Latest(k), NEW i \in 1..2, stage'[k[i]] = "matched"
               PROVE  delivered'[k[i]] = k
    BY <1>13 DEF DeliveredFresh
  <2>1. k[i] \in Call
    BY KeyCalls
  <2>2. notifications[<<user[k[i]], contest[k[i]]>>] = k
    BY DEF NotifyInv, KeysHold, SlotsAreFresh
  <2>3. CASE k[i] = n
    BY <1>1, <2>2, <2>3
  <2>4. CASE k[i] # n
    BY <1>1, <2>1, <2>4 DEF NotifyInv, KeysHold, DeliveredFresh
  <2> QED BY <2>3, <2>4
<1> QED BY <1>5, <1>6, <1>7, <1>8, <1>9, <1>10, <1>11, <1>12 DEF NotifyInv, QueuesHold, KeysHold

LEMMA DeliverInv ==
    ASSUME NotifyInv, NEW n \in Call, Deliver(n) PROVE NotifyInv'
<1>1. /\ Waiting(n) /\ n \in woken
      /\ delivered' = [delivered EXCEPT ![n] = notifications[<<user[n], contest[n]>>]]
      /\ stage' = [stage EXCEPT ![n] = "matched"]
      /\ UNCHANGED <<queue, notifications, user, contest, woken, hungUp, keys>>
  BY DEF Deliver
<1>2. \A d \in Competition : queue[d] \in Seq(Call) /\ DOMAIN queue[d] = 1..Len(queue[d])
  BY DEF NotifyInv, NotificationTypeOK
<1>3. \A d \in Competition : n \notin InQueue(d)
  BY <1>1, LiveQueueFacts
<1>4. \A d \in Competition : {queue'[d][i] : i \in 1..Len(queue'[d])} = InQueue(d) \ {n}
  BY <1>1, <1>2, <1>3 DEF InQueue
<1>5. QueuedOnce'
  BY <1>1 DEF NotifyInv, QueuesHold, QueuedOnce
<1>6. /\ delivered'[n] = notifications[<<user[n], contest[n]>>]
      /\ \A m \in Call : m # n => delivered'[m] = delivered[m]
      /\ queue' \in [Competition -> Seq(Call)]
  BY <1>1 DEF NotifyInv, NotificationTypeOK
<1>7. delivered' \in [Call -> MatchingKey \cup {NoKey}]
  <2>1. n \in DOMAIN user
    BY <1>1 DEF NotifyInv, KeysHold, WokenHaveSlots
  <2>2. user[n] \in Player /\ contest[n] \in Competition
    BY <2>1 DEF NotifyInv, NotificationTypeOK
  <2>3. notifications[<<user[n], contest[n]>>] \in MatchingKey \cup {NoKey}
    BY <2>2 DEF NotifyInv, NotificationTypeOK
  <2> QED BY <1>1, <2>3 DEF NotifyInv, NotificationTypeOK
<1> QED BY <1>1, <1>4, <1>5, <1>6, <1>7, EndsInv

LEMMA WithdrawInv ==
    ASSUME NotifyInv, NEW n \in Call, Withdraw(n) PROVE NotifyInv'
<1>1. /\ Waiting(n) /\ ~ Live(n)
      /\ queue' = [queue EXCEPT ![contest[n]] = Without(@, {n})]
      /\ stage' = [stage EXCEPT ![n] = "canceled"]
      /\ UNCHANGED <<notifications, user, contest, woken, hungUp, keys, delivered>>
  BY DEF Withdraw
<1>2. contest[n] \in Competition
  BY <1>1 DEF NotifyInv, NotificationTypeOK, Waiting, Call
<1>3. ASSUME NEW d \in Competition
      PROVE  /\ queue[d] \in Seq(Call) /\ InQueue(d) = {queue[d][i] : i \in 1..Len(queue[d])}
             /\ \A i, j \in 1..Len(queue[d]) : queue[d][i] = queue[d][j] => i = j
             /\ d # contest[n] => n \notin InQueue(d)
  <2>1. queue[d] \in Seq(Call) /\ DOMAIN queue[d] = 1..Len(queue[d])
    BY DEF NotifyInv, NotificationTypeOK
  <2>2. d # contest[n] => n \notin InQueue(d)
    BY LiveQueueFacts
  <2> QED BY <2>1, <2>2 DEF InQueue, NotifyInv, QueuesHold, QueuedOnce
<1>4. ASSUME NEW d \in Competition
      PROVE  /\ queue'[d] \in Seq(Call)
             /\ {queue'[d][i] : i \in 1..Len(queue'[d])} = InQueue(d) \ {n}
             /\ \A i, j \in 1..Len(queue'[d]) : queue'[d][i] = queue'[d][j] => i = j
  <2>1. CASE d # contest[n]
    <3>1. queue'[d] = queue[d]
      BY <1>1, <2>1 DEF NotifyInv, NotificationTypeOK
    <3> QED BY <1>3, <2>1, <3>1
  <2>2. CASE d = contest[n]
    <3> DEFINE q == queue[d]  own == {n}
    <3>1. queue'[d] = Without(q, own)
      BY <1>1, <1>2, <2>2 DEF NotifyInv, NotificationTypeOK
    <3>2. q \in Seq(Call)
      BY <1>3
    <3>3. \A i, j \in 1..Len(q) : q[i] = q[j] => i = j
      BY <1>3
    <3>4. InQueue(d) = {q[i] : i \in 1..Len(q)}
      BY <1>3
    <3> HIDE DEF q, own
    <3>5. Without(q, own) \in Seq(Call)
      BY <3>2, WithoutFacts
    <3>6. {Without(q, own)[i] : i \in 1..Len(Without(q, own))} = {q[i] : i \in 1..Len(q)} \ own
      BY <3>2, WithoutFacts
    <3>7. \A i, j \in 1..Len(Without(q, own)) :
             Without(q, own)[i] = Without(q, own)[j] => i = j
      BY <3>2, <3>3, WithoutFacts
    <3> QED BY <3>1, <3>4, <3>5, <3>6, <3>7 DEF own
  <2> QED BY <2>1, <2>2
<1>5. queue' \in [Competition -> Seq(Call)]
  BY <1>1, <1>4 DEF NotifyInv, NotificationTypeOK
<1>6. QueuedOnce'
  BY <1>4 DEF QueuedOnce
<1>7. /\ \A m \in Call : m # n => delivered'[m] = delivered[m]
      /\ delivered' \in [Call -> MatchingKey \cup {NoKey}]
  BY <1>1 DEF NotifyInv, NotificationTypeOK
<1>8. \A d \in Competition : {queue'[d][i] : i \in 1..Len(queue'[d])} = InQueue(d) \ {n}
  BY <1>4
<1> QED BY <1>1, <1>5, <1>6, <1>7, <1>8, EndsInv

-----------------------------------------------------------------------------
LEMMA NotifyInvStep == NotifyInv /\ [NotificationNext]_notificationVars => NotifyInv'
<1> SUFFICES ASSUME NotifyInv, [NotificationNext]_notificationVars PROVE NotifyInv'
  OBVIOUS
<1>1. CASE \E n \in Call, p \in Player, c \in Competition : Subscribe(n, p, c)
  BY <1>1, SubscribeInv
<1>2. CASE \E n \in Call : HangUp(n) \/ Deliver(n) \/ Withdraw(n)
  BY <1>2, HangUpInv, DeliverInv, WithdrawInv
<1>3. CASE UNCHANGED notificationVars
  <2>1. UNCHANGED <<queue, notifications, stage, user, contest, woken, hungUp, keys, delivered>>
    BY <1>3 DEF notificationVars, calls
  <2>2. NotificationTypeOK'
    BY <2>1 DEF NotifyInv, NotificationTypeOK
  <2>3. QueuesHold'
    BY <2>1 DEF NotifyInv, QueuesHold, QueuedWait, QueuedOnce, NobodyForgotten, NobodyWaitsInVain,
                Waiting, Live, InQueue
  <2>4. KeysJoin' /\ WokenHaveSlots' /\ SlotsName' /\ DeliveredName'
    BY <2>1 DEF NotifyInv, KeysHold, KeysJoin, WokenHaveSlots, SlotsName, DeliveredName, Names
  <2>5. PairsAreServed' /\ SlotsAreFresh' /\ DeliveredFresh'
    BY <2>1 DEF NotifyInv, KeysHold, PairsAreServed, SlotsAreFresh, DeliveredFresh, Latest,
                Unserved, Waiting, Live
  <2> QED BY <2>2, <2>3, <2>4, <2>5 DEF NotifyInv, KeysHold
<1> QED BY <1>1, <1>2, <1>3 DEF NotificationNext

(* The queues, keys and slots of the streams, at any time. *)
THEOREM NotificationInvariant == NotificationSpec => []NotifyInv
<1>1. NotificationInit => NotifyInv
  BY NotifyInvInit
<1>2. NotifyInv /\ [NotificationNext]_notificationVars => NotifyInv'
  BY NotifyInvStep
<1> QED BY <1>1, <1>2, PTL DEF NotificationSpec

(* Who stands in a queue waits, and nobody stands there twice.             *)
LEMMA WaitersFollow == NotifyInv => WaitersAreServed
<1> SUFFICES ASSUME NotifyInv PROVE WaitersAreServed
  OBVIOUS
<1>1. ASSUME NEW c \in Competition
      PROVE  /\ \A n \in InQueue(c) : Waiting(n) /\ n \notin woken /\ contest[n] = c
             /\ Cardinality(InQueue(c)) = Len(queue[c])
  <2>1. queue[c] \in Seq(Call) /\ DOMAIN queue[c] = 1..Len(queue[c])
    BY DEF NotifyInv, NotificationTypeOK
  <2>2. \A i, j \in 1..Len(queue[c]) : queue[c][i] = queue[c][j] => i = j
    BY DEF NotifyInv, QueuesHold, QueuedOnce
  <2>3. Cardinality({queue[c][i] : i \in 1..Len(queue[c])}) = Len(queue[c])
    BY <2>1, <2>2, DistinctCount
  <2>4. InQueue(c) = {queue[c][i] : i \in 1..Len(queue[c])}
    BY <2>1 DEF InQueue
  <2> QED BY <2>3, <2>4, LiveQueueFacts
<1>2. WakeClosedOnce
  BY <1>1 DEF WakeClosedOnce
<1> QED BY <1>2 DEF WaitersAreServed, NotifyInv, QueuesHold

(* Nobody waits beside somebody he could be paired with, nobody is left    *)
(* out of the queue, and a wake channel is closed once: of the waiting     *)
(* lists of receiveCompetitionNotification, for any number of calls.       *)
THEOREM WaitersTheorem == NotificationSpec => []WaitersAreServed
  BY WaitersFollow, NotificationInvariant, PTL

(* Who has heard a key is one of its two, and their slots are fresh.       *)
LEMMA KeysFollow == NotifyInv => KeysAreTrue
<1> SUFFICES ASSUME NotifyInv PROVE KeysAreTrue
  OBVIOUS
<1>1. KeyNamesItsReader
  BY DEF KeyNamesItsReader, NotifyInv, KeysHold, KeysJoin, DeliveredName, Names
<1>2. PairHearsOneKey
  <2> SUFFICES ASSUME NEW k \in keys, Heard(k), Latest(k)
               PROVE  delivered[k[1]] = delivered[k[2]]
    BY DEF PairHearsOneKey, Latest
  <2>1. 1 \in 1..2 /\ 2 \in 1..2
    OBVIOUS
  <2>2. \A i \in 1..2 : delivered[k[i]] = k
    BY DEF Heard, NotifyInv, KeysHold, DeliveredFresh
  <2> QED BY <2>1, <2>2
<1> QED BY <1>1, <1>2 DEF KeysAreTrue

(* What a call sends is a matching key that names its player, and a pair   *)
(* hears one and the same, whatever the other calls of the two do.         *)
THEOREM KeysTheorem == NotificationSpec => []KeysAreTrue
  BY KeysFollow, NotificationInvariant, PTL

(* No key is drawn with a call that has hung up: the queue is pruned       *)
(* before a partner is taken from it.                                      *)
THEOREM DeadTheorem == NotificationSpec => NoPairWithTheDead
<1>1. NotifyInv /\ [NotificationNext]_notificationVars
         => [\A k \in keys' \ keys : Live(k[1])]_notificationVars
  <2> SUFFICES ASSUME NotifyInv, NotificationNext PROVE \A k \in keys' \ keys : Live(k[1])
    OBVIOUS
  <2>1. CASE \E n \in Call : HangUp(n) \/ Deliver(n) \/ Withdraw(n)
    BY <2>1 DEF HangUp, Deliver, Withdraw
  <2>2. ASSUME NEW n \in Call, NEW p \in Player, NEW c \in Competition, Subscribe(n, p, c)
        PROVE  \A k \in keys' \ keys : Live(k[1])
    <3> DEFINE w == LiveQueue(c)  own == \E i \in DOMAIN w : user[w[i]] = p
    <3>1. \/ Refuse(n, c) \/ Enqueue(n, c)
          \/ ~ own /\ w # <<>> /\ PairUp(n, p, c)
      BY <2>2 DEF Subscribe
    <3>2. CASE Refuse(n, c) \/ Enqueue(n, c)
      BY <3>2 DEF Refuse, Enqueue
    <3>3. CASE ~ own /\ w # <<>> /\ PairUp(n, p, c)
      <4>1. PICK other \in InQueue(c) : Live(other) /\ keys' = keys \cup {<<other, n>>}
        BY <2>2, <3>3, KeyDrawn
      <4> QED BY <4>1
    <3> QED BY <3>1, <3>2, <3>3
  <2> QED BY <2>1, <2>2 DEF NotificationNext
<1> QED BY <1>1, NotificationInvariant, PTL DEF NotificationSpec, NoPairWithTheDead

-----------------------------------------------------------------------------
(* The delivery of a KeepUserSession stream                                *)
(*                                                                         *)
(* It is an ordered stream.  The invariant says where every accepted       *)
(* message is: with the client, in the hands of the writing goroutine, or  *)
(* in the outbox.                                                          *)

(* The part of DeliveryTypeOK the argument needs. *)
DeliveryTypes ==
    /\ offered \in 0..MaxMessages
    /\ outbox \in Seq(Message)
    /\ failed \in BOOLEAN
    /\ run \in {"select", "taken", "sending", "sent", "ended"}
    /\ run \in {"taken", "sending", "sent"} => held \in Message
    /\ accepted \in Seq(Message)
    /\ arrived \in Seq(Message)

(* Once the goroutine has ended, what has arrived still is what was        *)
(* accepted first.                                                         *)
Prefix ==
    /\ Len(arrived) <= Len(accepted)
    /\ \A i \in 1..Len(arrived) : arrived[i] = accepted[i]

DeliveryInv ==
    /\ DeliveryTypes
    /\ NothingLost
    /\ Prefix
    /\ run = "ended" => failed
    /\ NothingDropped

-----------------------------------------------------------------------------
LEMMA MessageIsNat == Message \subseteq Nat \ {0}
  BY DeliveryAssumption DEF Message

(* What is in hand is a sequence of messages. *)
LEMMA InHandType == ASSUME DeliveryTypes PROVE InHand \in Seq(Message)
  BY DEF DeliveryTypes, InHand

(* A sequence cut at its head. *)
LEMMA CutHead ==
    ASSUME NEW S, NEW a \in Seq(S), NEW q \in Seq(S), q # <<>>
    PROVE  /\ Head(q) \in S /\ Tail(q) \in Seq(S)
           /\ a \o <<>> \o q = a \o <<Head(q)>> \o Tail(q)
<1>1. Head(q) \in S /\ Tail(q) \in Seq(S) /\ Len(Tail(q)) = Len(q) - 1 /\ Len(q) > 0
  BY HeadTailProperties, EmptySeq
<1>2. Len(a \o <<>> \o q) = Len(a \o <<Head(q)>> \o Tail(q))
  BY <1>1
<1>3. ASSUME NEW i \in 1..Len(a \o <<>> \o q)
      PROVE  (a \o <<>> \o q)[i] = (a \o <<Head(q)>> \o Tail(q))[i]
  BY <1>1
<1>4. a \o <<>> \o q \in Seq(S) /\ a \o <<Head(q)>> \o Tail(q) \in Seq(S)
  BY <1>1
<1> QED BY <1>1, <1>2, <1>3, <1>4, SeqEqual

(* Where the parts of what is written stand in the whole. *)
LEMMA PartsOfWritten ==
    ASSUME NEW S, NEW a \in Seq(S), NEW h \in S, NEW q \in Seq(S)
    PROVE  /\ Len(a \o <<h>> \o q) = Len(a) + 1 + Len(q)
           /\ \A i \in 1..Len(a) : (a \o <<h>> \o q)[i] = a[i]
           /\ (a \o <<h>> \o q)[Len(a) + 1] = h
           /\ Append(a, h) \o <<>> \o q = a \o <<h>> \o q
<1>1. Append(a, h) \in Seq(S) /\ Len(Append(a, h)) = Len(a) + 1
  OBVIOUS
<1> DEFINE b == a \o <<h>>
<1>2. /\ b \in Seq(S) /\ Len(b) = Len(a) + 1 /\ b[Len(a) + 1] = h
      /\ \A i \in 1..Len(a) : b[i] = a[i]
  OBVIOUS
<1>3. Len(Append(a, h) \o <<>> \o q) = Len(a \o <<h>> \o q)
  BY <1>1
<1>4. ASSUME NEW i \in 1..Len(a \o <<h>> \o q)
      PROVE  (Append(a, h) \o <<>> \o q)[i] = (a \o <<h>> \o q)[i]
  BY <1>1
<1>5. Append(a, h) \o <<>> \o q \in Seq(S) /\ a \o <<h>> \o q \in Seq(S)
  BY <1>1
<1>6. Append(a, h) \o <<>> \o q = a \o <<h>> \o q
  BY <1>3, <1>4, <1>5, SeqEqual
<1> HIDE DEF b
<1>7. /\ Len(b \o q) = Len(a) + 1 + Len(q)
      /\ \A i \in 1..(Len(a) + 1) : (b \o q)[i] = b[i]
  BY <1>2
<1>8. /\ \A i \in 1..Len(a) : (b \o q)[i] = a[i]
      /\ (b \o q)[Len(a) + 1] = h
  BY <1>2, <1>7
<1> QED BY <1>6, <1>7, <1>8 DEF b

(* A message put into the outbox is the last of what was accepted. *)
LEMMA PutLast ==
    ASSUME NEW S, NEW a \in Seq(S), NEW h \in Seq(S), NEW q \in Seq(S), NEW m \in S
    PROVE  a \o h \o Append(q, m) = Append(a \o h \o q, m)
<1>1. a \o h \o Append(q, m) \in Seq(S) /\ Append(a \o h \o q, m) \in Seq(S)
  OBVIOUS
<1>2. Len(a \o h \o Append(q, m)) = Len(Append(a \o h \o q, m))
  OBVIOUS
<1>3. ASSUME NEW i \in 1..Len(a \o h \o Append(q, m))
      PROVE  (a \o h \o Append(q, m))[i] = Append(a \o h \o q, m)[i]
  OBVIOUS
<1> QED BY <1>1, <1>2, <1>3, SeqEqual

-----------------------------------------------------------------------------
LEMMA DeliveryInvInit == DeliveryInit => DeliveryInv
<1> SUFFICES ASSUME DeliveryInit PROVE DeliveryInv
  OBVIOUS
<1>1. DeliveryTypes
  <2>1. offered \in 0..MaxMessages
    BY DeliveryAssumption DEF DeliveryInit
  <2>2. <<>> \in Seq(Message)
    OBVIOUS
  <2> QED BY <2>1, <2>2 DEF DeliveryInit, DeliveryTypes
<1>2. NothingLost
  <2>1. <<>> \o <<>> \o <<>> = <<>>
    OBVIOUS
  <2> QED BY <2>1 DEF NothingLost, InHand, DeliveryInit
<1>3. NothingDropped
  <2>1. \A m \in 1..offered : FALSE
    BY DEF DeliveryInit
  <2>2. [m \in 1..offered |-> m] = <<>>
    BY <2>1
  <2> QED BY <2>2 DEF NothingDropped, DeliveryInit
<1>4. Prefix
  BY DEF Prefix, DeliveryInit
<1> QED BY <1>1, <1>2, <1>3, <1>4 DEF DeliveryInv, DeliveryInit

(* A step that leaves what was offered, accepted, queued and arrived alone. *)
LEMMA QuietStep ==
    ASSUME DeliveryInv, UNCHANGED <<offered, outbox, held, accepted, arrived>>,
           failed' \in BOOLEAN, failed => failed',
           \/ run' = run
           \/ run \in {"taken", "sending"} /\ run' \in {"taken", "sending"}
    PROVE  DeliveryInv'
<1>1. DeliveryTypes'
  BY DEF DeliveryInv, DeliveryTypes
<1>2. run' # "ended" => run # "ended" /\ InHand' = InHand
  BY DEF InHand
<1>3. NothingLost'
  BY <1>2 DEF DeliveryInv, NothingLost
<1>4. Prefix'
  BY DEF DeliveryInv, Prefix
<1>5. NothingDropped'
  BY DEF DeliveryInv, NothingDropped
<1> QED BY <1>1, <1>3, <1>4, <1>5 DEF DeliveryInv

(* The goroutine ends, and the stream has failed. *)
LEMMA QuitStep ==
    ASSUME DeliveryInv, Quit, failed', UNCHANGED <<offered, outbox, accepted, arrived>>,
           failed' \in BOOLEAN
    PROVE  DeliveryInv'
<1>1. DeliveryTypes'
  BY DEF DeliveryInv, DeliveryTypes, Quit
<1>2. NothingLost' /\ NothingDropped'
  BY DEF Quit, NothingLost, NothingDropped
<1>3. Prefix'
  BY DEF DeliveryInv, Prefix
<1> QED BY <1>1, <1>2, <1>3 DEF DeliveryInv

LEMMA SendInv == ASSUME DeliveryInv, NEW m \in Message, Send(m) PROVE DeliveryInv'
<1>1. CASE ~ failed /\ Fits(m)
  <2>1. /\ m = offered + 1 /\ offered' = m /\ outbox' = Append(outbox, m)
        /\ accepted' = Append(accepted, m)
        /\ UNCHANGED <<failed, run, held, arrived>>
    BY <1>1 DEF Send
  <2>2. DeliveryTypes'
    BY <2>1 DEF DeliveryInv, DeliveryTypes, Message
  <2>3. run # "ended" /\ accepted = arrived \o InHand \o outbox
    BY <1>1 DEF DeliveryInv, NothingLost
  <2>4. InHand' = InHand /\ InHand \in Seq(Message)
    BY <2>1, InHandType DEF InHand, DeliveryInv
  <2>5. NothingLost'
    <3>1. arrived \in Seq(Message) /\ outbox \in Seq(Message)
      BY DEF DeliveryInv, DeliveryTypes
    <3>2. arrived \o InHand \o Append(outbox, m) = Append(arrived \o InHand \o outbox, m)
      BY <2>4, <3>1, PutLast
    <3> QED BY <2>1, <2>3, <2>4, <3>2 DEF NothingLost
  <2>6. Prefix'
    BY <2>1 DEF Prefix, DeliveryInv, DeliveryTypes
  <2>7. accepted = [i \in 1..offered |-> i]
    BY <1>1 DEF DeliveryInv, NothingDropped
  <2>8. accepted' = [i \in 1..offered' |-> i]
    <3>1. accepted' \in Seq(Message) /\ Len(accepted') = offered'
      BY <2>1, <2>7 DEF DeliveryInv, DeliveryTypes
    <3>2. \A i \in 1..offered' : accepted'[i] = i
      BY <2>1, <2>7 DEF DeliveryInv, DeliveryTypes
    <3>3. accepted' = [i \in 1..offered' |-> accepted'[i]]
      BY <3>1
    <3> QED BY <3>2, <3>3
  <2> QED BY <2>1, <2>2, <2>3, <2>5, <2>6, <2>8 DEF DeliveryInv, NothingDropped
<1>2. CASE failed \/ ~ Fits(m)
  <2>1. /\ offered' = m /\ failed' = TRUE
        /\ UNCHANGED <<outbox, accepted, run, held, arrived>>
    BY <1>2 DEF Send
  <2>2. DeliveryTypes'
    BY <2>1 DEF DeliveryInv, DeliveryTypes, Message
  <2>3. NothingLost'
    BY <2>1 DEF DeliveryInv, NothingLost, InHand
  <2>4. Prefix'
    BY <2>1 DEF DeliveryInv, Prefix
  <2> QED BY <2>1, <2>2, <2>3, <2>4 DEF DeliveryInv, NothingDropped
<1> QED BY <1>1, <1>2

LEMMA TakeInv == ASSUME DeliveryInv, Take PROVE DeliveryInv'
<1>1. /\ run = "select" /\ outbox # <<>> /\ run' = "taken"
      /\ held' = Head(outbox) /\ outbox' = Tail(outbox)
      /\ UNCHANGED <<offered, failed, accepted, arrived>>
  BY DEF Take, history
<1>2. /\ Head(outbox) \in Message /\ Tail(outbox) \in Seq(Message)
      /\ arrived \o <<>> \o outbox = arrived \o <<Head(outbox)>> \o Tail(outbox)
  BY <1>1, CutHead DEF DeliveryInv, DeliveryTypes
<1>3. DeliveryTypes'
  BY <1>1, <1>2 DEF DeliveryInv, DeliveryTypes
<1>4. InHand = <<>> /\ InHand' = <<Head(outbox)>>
  BY <1>1 DEF InHand
<1>5. NothingLost'
  BY <1>1, <1>2, <1>4 DEF DeliveryInv, NothingLost
<1>6. Prefix' /\ NothingDropped'
  BY <1>1 DEF DeliveryInv, Prefix, NothingDropped
<1> QED BY <1>1, <1>3, <1>5, <1>6 DEF DeliveryInv

(* The message in hand is the next one the client is to get. *)
LEMMA TransmitFacts ==
    ASSUME DeliveryInv, Transmit
    PROVE  /\ held \in Message
           /\ Len(arrived) < Len(accepted)
           /\ held = accepted[Len(arrived) + 1]
           /\ accepted = Append(arrived, held) \o <<>> \o outbox
<1>1. run = "sending" /\ held \in Message /\ InHand = <<held>>
  BY DEF Transmit, DeliveryInv, DeliveryTypes, InHand
<1>2. accepted = arrived \o <<held>> \o outbox
  BY <1>1 DEF DeliveryInv, NothingLost
<1>3. arrived \in Seq(Message) /\ outbox \in Seq(Message)
  BY DEF DeliveryInv, DeliveryTypes
<1>4. held \in Message
  BY <1>1
<1> DEFINE all == arrived \o <<held>> \o outbox
<1>5. /\ Len(all) = Len(arrived) + 1 + Len(outbox)
      /\ all[Len(arrived) + 1] = held
      /\ Append(arrived, held) \o <<>> \o outbox = all
  BY ONLY <1>3, <1>4, PartsOfWritten
<1>6. /\ Len(accepted) = Len(arrived) + 1 + Len(outbox)
      /\ accepted[Len(arrived) + 1] = held
      /\ Append(arrived, held) \o <<>> \o outbox = accepted
  BY <1>2, <1>5
<1>7. Len(arrived) \in Nat /\ Len(outbox) \in Nat
  BY <1>3
<1> QED BY <1>4, <1>6, <1>7

LEMMA TransmitInv == ASSUME DeliveryInv, Transmit PROVE DeliveryInv'
<1>1. /\ run' = "sent" /\ arrived' = Append(arrived, held)
      /\ UNCHANGED <<offered, outbox, failed, held, accepted>>
  BY DEF Transmit
<1>2. held \in Message
  BY TransmitFacts
<1>3. DeliveryTypes'
  BY <1>1, <1>2 DEF DeliveryInv, DeliveryTypes
<1>4. InHand' = <<>>
  BY <1>1 DEF InHand
<1>5. NothingLost'
  BY <1>1, <1>4, TransmitFacts DEF NothingLost
<1>6. Prefix'
  <2>1. Len(arrived') = Len(arrived) + 1 /\ arrived'[Len(arrived) + 1] = held
    BY <1>1, <1>2 DEF DeliveryInv, DeliveryTypes
  <2>2. \A i \in 1..Len(arrived) : arrived'[i] = arrived[i]
    BY <1>1, <1>2 DEF DeliveryInv, DeliveryTypes
  <2> QED BY <1>1, <2>1, <2>2, TransmitFacts DEF DeliveryInv, Prefix, DeliveryTypes
<1>7. NothingDropped'
  BY <1>1 DEF DeliveryInv, NothingDropped
<1> QED BY <1>1, <1>3, <1>5, <1>6, <1>7 DEF DeliveryInv, Transmit

LEMMA AccountInv == ASSUME DeliveryInv, Account PROVE DeliveryInv'
<1>1. /\ run = "sent" /\ run' = "select" /\ held' = 0
      /\ UNCHANGED <<offered, outbox, failed, accepted, arrived>>
  BY DEF Account, history
<1>2. DeliveryTypes'
  BY <1>1 DEF DeliveryInv, DeliveryTypes
<1>3. InHand' = InHand
  BY <1>1 DEF InHand
<1>4. NothingLost' /\ Prefix' /\ NothingDropped'
  BY <1>1, <1>3 DEF DeliveryInv, NothingLost, Prefix, NothingDropped
<1> QED BY <1>1, <1>2, <1>4 DEF DeliveryInv

(* The handler, its reader and the client touch none of it but failed. *)
LEMMA HandlerInv ==
    ASSUME DeliveryInv, Recv \/ ReadRequest \/ ReadEnd \/ Wake \/ ClientGone
    PROVE  DeliveryInv'
<1>1. /\ UNCHANGED <<offered, outbox, held, accepted, arrived, run>>
      /\ failed' = failed \/ failed' = TRUE
  BY DEF Recv, ReadRequest, ReadEnd, Wake, Return, ClientGone, history
<1>2. failed' \in BOOLEAN /\ (failed => failed')
  BY <1>1 DEF DeliveryInv, DeliveryTypes
<1> QED BY <1>1, <1>2, QuietStep

LEMMA DeliveryInvStep == DeliveryInv /\ [DeliveryNext]_deliveryVars => DeliveryInv'
<1> SUFFICES ASSUME DeliveryInv, [DeliveryNext]_deliveryVars PROVE DeliveryInv'
  OBVIOUS
<1>1. CASE UNCHANGED deliveryVars
  <2>1. UNCHANGED <<offered, outbox, held, accepted, arrived, run, failed>>
    BY <1>1 DEF deliveryVars, history
  <2> QED BY <2>1, QuietStep DEF DeliveryInv, DeliveryTypes
<1>2. CASE \E m \in Message : Send(m)
  BY <1>2, SendInv
<1>3. CASE SeeDone
  BY <1>3, QuitStep DEF SeeDone, history
<1>4. CASE SeeContextDone
  BY <1>4, QuitStep DEF SeeContextDone, history
<1>5. CASE Take
  BY <1>5, TakeInv
<1>6. CASE CheckFailure
  <2>1. CASE failed
    BY <1>6, <2>1, QuitStep DEF CheckFailure, history
  <2>2. CASE ~ failed
    <3>1. /\ run = "taken" /\ run' = "sending"
          /\ UNCHANGED <<offered, outbox, held, accepted, arrived, failed>>
      BY <1>6, <2>2 DEF CheckFailure, history
    <3> QED BY <3>1, QuietStep DEF DeliveryInv, DeliveryTypes
  <2> QED BY <2>1, <2>2
<1>7. CASE Transmit
  BY <1>7, TransmitInv
<1>8. CASE TransmitFails
  BY <1>8, QuitStep DEF TransmitFails, history
<1>9. CASE Account
  BY <1>9, AccountInv
<1>10. CASE Recv \/ ReadRequest \/ ReadEnd \/ Wake \/ ClientGone
  BY <1>10, HandlerInv
<1> QED BY <1>1, <1>2, <1>3, <1>4, <1>5, <1>6, <1>7, <1>8, <1>9, <1>10 DEF DeliveryNext

-----------------------------------------------------------------------------
(* Through any sends, failures and hang-ups the invariant of the queue and *)
(* its goroutine (src/gamesync_delivery.go) holds.                         *)
THEOREM DeliveryInvariant == DeliverySpec => []DeliveryInv
  BY DeliveryInvInit, DeliveryInvStep, PTL DEF DeliverySpec

(* A stream that has not failed has accepted every message offered to it,  *)
(* in order: saturation fails the stream and never passes a message over.  *)
THEOREM NeverDropped == DeliverySpec => []NothingDropped
<1>1. DeliveryInv => NothingDropped
  BY DEF DeliveryInv
<1> QED BY <1>1, DeliveryInvariant, PTL

(* What was accepted and has not arrived is still on its way.              *)
THEOREM NeverLost == DeliverySpec => []NothingLost
<1>1. DeliveryInv => NothingLost
  BY DEF DeliveryInv
<1> QED BY <1>1, DeliveryInvariant, PTL

(* The outbox with its goroutine, limits and failures is an ordered stream: *)
(* sends are accepts, the transport delivers, everything else fails the    *)
(* stream or is invisible.                                                 *)
THEOREM Implements == DeliverySpec => ImplementsOrderedStream
<1>1. DeliveryInit => Promise!Init
  BY DEF DeliveryInit, Promise!Init
<1>2. DeliveryInv /\ [DeliveryNext]_deliveryVars => [Promise!Next]_(Promise!vars)
  <2> SUFFICES ASSUME DeliveryInv, [DeliveryNext]_deliveryVars PROVE [Promise!Next]_(Promise!vars)
    OBVIOUS
  <2>1. ASSUME UNCHANGED <<accepted, arrived>>, failed' = failed \/ failed' = TRUE
        PROVE  [Promise!Next]_(Promise!vars)
    BY <2>1 DEF Promise!Next, Promise!Fail, Promise!vars
  <2>2. CASE UNCHANGED deliveryVars
    BY <2>1, <2>2 DEF deliveryVars, history
  <2>3. ASSUME NEW m \in Message, Send(m) PROVE [Promise!Next]_(Promise!vars)
    <3>1. CASE ~ failed /\ Fits(m)
      BY <2>3, <3>1 DEF Send, Promise!Next, Promise!Accept
    <3>2. CASE failed \/ ~ Fits(m)
      BY <2>1, <2>3, <3>2 DEF Send
    <3> QED BY <3>1, <3>2
  <2>4. CASE Transmit
    <3>1. UNCHANGED <<accepted, failed>> /\ arrived' = Append(arrived, held)
      BY <2>4 DEF Transmit
    <3> QED BY <2>4, <3>1, TransmitFacts DEF Promise!Next, Promise!Deliver
  <2>5. CASE SeeDone \/ SeeContextDone \/ Take \/ CheckFailure \/ TransmitFails \/ Account
    <3>1. UNCHANGED <<accepted, arrived>> /\ (failed' = failed \/ failed' = TRUE)
      BY <2>5 DEF SeeDone, SeeContextDone, Take, CheckFailure, TransmitFails, Account, history
    <3> QED BY <2>1, <3>1
  <2>6. CASE Recv \/ ReadRequest \/ ReadEnd \/ Wake \/ ClientGone
    <3>1. UNCHANGED <<accepted, arrived>> /\ (failed' = failed \/ failed' = TRUE)
      BY <2>6 DEF Recv, ReadRequest, ReadEnd, Wake, Return, ClientGone, history
    <3> QED BY <2>1, <3>1
  <2> QED BY <2>2, <2>3, <2>4, <2>5, <2>6 DEF DeliveryNext
<1> QED BY <1>1, <1>2, DeliveryInvariant, PTL DEF DeliverySpec, ImplementsOrderedStream, Promise!Spec

-----------------------------------------------------------------------------
(* The byte count                                                          *)
(*                                                                         *)
(* It is a sum over a queue that grows at one end and is cut at the other, *)
(* while what is written leaves it later than the queue.                   *)

(* The first n sums by which SizeOf goes through a queue. *)
Adds(size, q, n) ==
    size = [i \in 0..n |-> IF i = 0 THEN 0 ELSE size[i - 1] + Size[q[i]]]

(* What is known of such sums. *)
Sums(size, q) ==
    /\ size[0] = 0
    /\ \A i \in 1..Len(q) : size[i] = size[i - 1] + Size[q[i]]
    /\ \A i \in 0..Len(q) : size[i] \in Nat

LEMMA AddsExist ==
    ASSUME NEW q, NEW n \in Nat
    PROVE  \E size : Adds(size, q, n)
<1> DEFINE T == {m \in Nat : \E size : Adds(size, q, m)}
<1>1. 0 \in T
  <2> DEFINE size == [i \in 0..0 |-> 0]
  <2>1. Adds(size, q, 0)
    BY DEF Adds
  <2> QED BY <2>1
<1>2. ASSUME NEW m \in Nat, m \in T PROVE m + 1 \in T
  <2>1. PICK size : Adds(size, q, m)
    BY <1>2
  <2> DEFINE more == [i \in 0..(m + 1) |-> IF i <= m THEN size[i] ELSE size[m] + Size[q[m + 1]]]
             Step(f, i) == IF i = 0 THEN 0 ELSE f[i - 1] + Size[q[i]]
  <2>2. ASSUME NEW i \in 0..(m + 1) PROVE more[i] = Step(more, i)
    <3>1. CASE i = m + 1
      BY <3>1
    <3>2. CASE i # m + 1
      <4>1. i \in 0..m /\ (i # 0 => i - 1 \in 0..m)
        BY <3>2
      <4>2. size[i] = Step(size, i)
        BY <2>1, <4>1 DEF Adds
      <4>3. more[i] = size[i] /\ (i # 0 => more[i - 1] = size[i - 1])
        BY <4>1
      <4> QED BY <4>2, <4>3
    <3> QED BY <3>1, <3>2
  <2>3. Adds(more, q, m + 1)
    BY <2>2 DEF Adds
  <2> QED BY <2>3
<1> HIDE DEF T
<1>3. n \in T
  BY <1>1, <1>2, HoldsAll
<1> QED BY <1>3 DEF T

LEMMA SizeOfSums ==
    ASSUME NEW q \in Seq(Message)
    PROVE  \E size : Sums(size, q) /\ SizeOf(q) = size[Len(q)]
<1> DEFINE size == CHOOSE f : Adds(f, q, Len(q))
<1>1. Adds(size, q, Len(q))
  BY AddsExist
<1>2. SizeOf(q) = size[Len(q)]
  BY DEF SizeOf, Adds
<1> HIDE DEF size
<1>3. size[0] = 0
  BY <1>1 DEF Adds
<1>4. ASSUME NEW i \in 1..Len(q) PROVE size[i] = size[i - 1] + Size[q[i]]
  <2>1. Len(q) \in Nat /\ i \in 0..Len(q) /\ i # 0
    OBVIOUS
  <2> QED BY <1>1, <2>1 DEF Adds
<1> DEFINE T == {n \in Nat : n <= Len(q) => size[n] \in Nat}
<1>5. ASSUME NEW n \in Nat, n \in T PROVE n + 1 \in T
  <2> SUFFICES ASSUME n + 1 <= Len(q) PROVE size[n + 1] \in Nat
    OBVIOUS
  <2>1. n + 1 \in 1..Len(q) /\ (n + 1) - 1 = n /\ size[n] \in Nat
    BY <1>5
  <2>2. Size[q[n + 1]] \in Nat
    BY <2>1, DeliveryAssumption
  <2> QED BY <1>4, <2>1, <2>2
<1>6. 0 \in T
  BY <1>3
<1>7. Nat \subseteq T
  <2> HIDE DEF T
  <2> QED BY <1>5, <1>6, HoldsAll
<1>8. \A i \in 0..Len(q) : size[i] \in Nat
  BY <1>7
<1> QED BY <1>2, <1>3, <1>4, <1>8 DEF Sums

(* The sums of a stretch of a queue. *)
LEMMA StretchOfSums ==
    ASSUME NEW q \in Seq(Message), NEW r \in Seq(Message), NEW k \in Nat,
           NEW f, NEW g, Sums(f, q), Sums(g, r),
           k + Len(r) <= Len(q), \A i \in 1..Len(r) : r[i] = q[k + i]
    PROVE  f[k + Len(r)] = f[k] + g[Len(r)]
<1> DEFINE T == {n \in Nat : n <= Len(r) => f[k + n] = f[k] + g[n]}
<1>1. 0 \in T
  <2>1. k \in 0..Len(q)
    OBVIOUS
  <2>2. f[k] \in Nat /\ g[0] = 0 /\ k + 0 = k
    BY <2>1 DEF Sums
  <2> QED BY <2>2
<1>2. ASSUME NEW n \in Nat, n \in T PROVE n + 1 \in T
  <2> SUFFICES ASSUME n + 1 <= Len(r) PROVE f[k + (n + 1)] = f[k] + g[n + 1]
    OBVIOUS
  <2>1. /\ n + 1 \in 1..Len(r) /\ (n + 1) - 1 = n /\ n \in 0..Len(r)
        /\ k + (n + 1) \in 1..Len(q) /\ (k + (n + 1)) - 1 = k + n /\ k \in 0..Len(q)
    OBVIOUS
  <2>2. f[k + n] = f[k] + g[n]
    BY <1>2
  <2>3. /\ f[k + (n + 1)] = f[k + n] + Size[q[k + (n + 1)]]
        /\ g[n + 1] = g[n] + Size[r[n + 1]]
        /\ f[k] \in Nat /\ g[n] \in Nat
    BY <2>1 DEF Sums
  <2>4. r[n + 1] = q[k + (n + 1)] /\ r[n + 1] \in Message
    BY <2>1
  <2>5. Size[r[n + 1]] \in Nat
    BY <2>4, DeliveryAssumption
  <2> QED BY <2>2, <2>3, <2>4, <2>5
<1>3. Nat \subseteq T
  <2> HIDE DEF T
  <2> QED BY <1>1, <1>2, HoldsAll
<1>4. Len(r) \in Nat
  OBVIOUS
<1> QED BY <1>3, <1>4

(* What a queue weighs when it is empty, one longer, or cut at its head. *)
LEMMA SizeOfFacts ==
    ASSUME NEW q \in Seq(Message)
    PROVE  /\ SizeOf(q) \in Nat
           /\ q = <<>> => SizeOf(q) = 0
           /\ \A m \in Message : SizeOf(Append(q, m)) = SizeOf(q) + Size[m]
           /\ q # <<>> => SizeOf(q) = Size[Head(q)] + SizeOf(Tail(q))
<1>1. PICK f : Sums(f, q) /\ SizeOf(q) = f[Len(q)]
  BY SizeOfSums
<1>2. SizeOf(q) \in Nat /\ (q = <<>> => SizeOf(q) = 0)
  <2>1. Len(q) \in 0..Len(q) /\ (q = <<>> => Len(q) = 0)
    OBVIOUS
  <2> QED BY <1>1, <2>1 DEF Sums
<1>3. ASSUME NEW m \in Message PROVE SizeOf(Append(q, m)) = SizeOf(q) + Size[m]
  <2> DEFINE a == Append(q, m)
  <2>1. /\ a \in Seq(Message) /\ Len(a) = Len(q) + 1 /\ a[Len(q) + 1] = m
        /\ \A i \in 1..Len(q) : q[i] = a[0 + i]
        /\ 0 + Len(q) = Len(q) /\ Len(q) + 1 \in 1..Len(a) /\ (Len(q) + 1) - 1 = Len(q)
    OBVIOUS
  <2> HIDE DEF a
  <2>2. PICK g : Sums(g, a) /\ SizeOf(a) = g[Len(a)]
    BY <2>1, SizeOfSums
  <2>3. g[0 + Len(q)] = g[0] + f[Len(q)]
    <3>1. /\ 0 \in Nat /\ 0 + Len(q) <= Len(a)
          /\ \A i \in 1..Len(q) : q[i] = a[0 + i]
          /\ a \in Seq(Message) /\ q \in Seq(Message)
      BY <2>1
    <3>2. Sums(g, a) /\ Sums(f, q)
      BY <1>1, <2>2
    <3> QED BY ONLY <3>1, <3>2, StretchOfSums
  <2>4. g[0] = 0 /\ g[Len(q) + 1] = g[Len(q)] + Size[m]
    BY <2>1, <2>2 DEF Sums
  <2> QED BY <1>1, <1>2, <2>1, <2>2, <2>3, <2>4 DEF a
<1>4. ASSUME q # <<>> PROVE SizeOf(q) = Size[Head(q)] + SizeOf(Tail(q))
  <2> DEFINE t == Tail(q)
  <2>1. /\ t \in Seq(Message) /\ Len(t) = Len(q) - 1 /\ Len(q) > 0
        /\ \A i \in 1..Len(t) : t[i] = q[1 + i]
        /\ Head(q) = q[1]
    BY <1>4, HeadTailProperties, EmptySeq
  <2> HIDE DEF t
  <2>2. PICK g : Sums(g, t) /\ SizeOf(t) = g[Len(t)]
    BY <2>1, SizeOfSums
  <2>3. f[1 + Len(t)] = f[1] + g[Len(t)]
    <3>1. /\ 1 \in Nat /\ 1 + Len(t) <= Len(q)
          /\ \A i \in 1..Len(t) : t[i] = q[1 + i]
          /\ q \in Seq(Message) /\ t \in Seq(Message)
      BY <2>1
    <3>2. Sums(f, q) /\ Sums(g, t)
      BY <1>1, <2>2
    <3> QED BY ONLY <3>1, <3>2, StretchOfSums
  <2>4. f[1] = f[0] + Size[q[1]] /\ f[0] = 0
    <3>1. 1 \in 1..Len(q) /\ 1 - 1 = 0
      BY <2>1
    <3> QED BY <1>1, <3>1 DEF Sums
  <2>5. 1 + Len(t) = Len(q) /\ Size[q[1]] \in Nat
    <3>1. q[1] \in Message
      BY <2>1
    <3> QED BY <2>1, <3>1, DeliveryAssumption
  <2> QED BY <1>1, <2>1, <2>2, <2>3, <2>4, <2>5 DEF t
<1> QED BY <1>2, <1>3, <1>4

-----------------------------------------------------------------------------
(* What the goroutine has in hand weighs, also while it is being written   *)
(* and accounted.                                                          *)
HeldSize == IF held = 0 THEN 0 ELSE Size[held]

CountInv == DeliveryTypeOK /\ BytesAreWaiting

LEMMA HeldSizeType == ASSUME DeliveryTypeOK PROVE HeldSize \in Nat
<1>1. held = 0 \/ held \in Message
  BY DEF DeliveryTypeOK
<1>2. held \in Message => Size[held] \in Nat
  BY DeliveryAssumption
<1> QED BY <1>1, <1>2 DEF HeldSize

LEMMA CountInvInit == DeliveryInit => CountInv
<1> SUFFICES ASSUME DeliveryInit PROVE CountInv
  OBVIOUS
<1>1. DeliveryTypeOK
  <2>1. <<>> \in Seq(Message) /\ Len(<<>>) = 0
    OBVIOUS
  <2>2. outbox \in Seq(Message) /\ accepted \in Seq(Message) /\ arrived \in Seq(Message)
    BY <2>1 DEF DeliveryInit
  <2>3. Len(outbox) <= QueueLimit
    BY <2>1, DeliveryAssumption DEF DeliveryInit
  <2>4. offered \in 0..MaxMessages /\ requests \in 0..MaxRequests /\ bytes \in Nat
    BY DeliveryAssumption DEF DeliveryInit
  <2> QED BY <2>2, <2>3, <2>4 DEF DeliveryInit, DeliveryTypeOK
<1>2. BytesAreWaiting
  <2>1. <<>> \in Seq(Message)
    OBVIOUS
  <2>2. SizeOf(<<>>) = 0
    BY <2>1, SizeOfFacts
  <2> QED BY <2>2 DEF DeliveryInit, BytesAreWaiting
<1> QED BY <1>1, <1>2 DEF CountInv

(* A step that leaves the queue, its count and what is in hand alone.      *)
LEMMA UncountedStep ==
    ASSUME CountInv, DeliveryTypeOK', UNCHANGED <<outbox, bytes, held>>,
           run' # "ended" => run # "ended"
    PROVE  CountInv'
<1>1. BytesAreWaiting'
  BY DEF CountInv, BytesAreWaiting, SizeOf
<1> QED BY <1>1 DEF CountInv

LEMMA SendCounts == ASSUME CountInv, NEW m \in Message, Send(m) PROVE CountInv'
<1>1. m \in 1..MaxMessages /\ Size[m] \in Nat
  BY DeliveryAssumption DEF Message
<1>2. CASE ~ failed /\ Fits(m)
  <2>1. /\ offered' = m /\ outbox' = Append(outbox, m) /\ accepted' = Append(accepted, m)
        /\ bytes' = bytes + Size[m] /\ Len(outbox) < QueueLimit
        /\ UNCHANGED <<failed, run, held, client, handler, receiver, requests, arrived>>
    BY <1>2 DEF Send, Fits, input
  <2>2. DeliveryTypeOK'
    <3>1. outbox' \in Seq(Message) /\ Len(outbox') <= QueueLimit /\ accepted' \in Seq(Message)
      BY <2>1, DeliveryAssumption DEF CountInv, DeliveryTypeOK
    <3>2. bytes' \in Nat /\ offered' \in 0..MaxMessages
      BY <1>1, <2>1 DEF CountInv, DeliveryTypeOK
    <3> QED BY <2>1, <3>1, <3>2 DEF CountInv, DeliveryTypeOK
  <2>3. BytesAreWaiting'
    <3>1. SizeOf(outbox') = SizeOf(outbox) + Size[m] /\ SizeOf(outbox) \in Nat
      BY <2>1, SizeOfFacts DEF CountInv, DeliveryTypeOK
    <3>2. HeldSize \in Nat /\ HeldSize' = HeldSize
      BY <2>1, HeldSizeType DEF CountInv, HeldSize
    <3>3. run' # "ended" => bytes = SizeOf(outbox) + HeldSize
      BY <2>1 DEF CountInv, BytesAreWaiting, HeldSize
    <3>4. run' # "ended" => bytes' = SizeOf(outbox') + HeldSize'
      BY <1>1, <2>1, <3>1, <3>2, <3>3
    <3> QED BY <3>4 DEF BytesAreWaiting, HeldSize
  <2> QED BY <2>2, <2>3 DEF CountInv
<1>3. CASE failed \/ ~ Fits(m)
  <2>1. /\ offered' = m /\ failed' = TRUE
        /\ UNCHANGED <<outbox, bytes, accepted, run, held, client, handler, receiver, requests, arrived>>
    BY <1>3 DEF Send, input
  <2>2. DeliveryTypeOK'
    BY <1>1, <2>1 DEF CountInv, DeliveryTypeOK
  <2> QED BY <2>1, <2>2, UncountedStep
<1> QED BY <1>2, <1>3

(* What is taken out of the queue still counts. *)
LEMMA TakeCounts == ASSUME CountInv, Take PROVE CountInv'
<1>1. /\ run = "select" /\ outbox # <<>> /\ run' = "taken"
      /\ held' = Head(outbox) /\ outbox' = Tail(outbox)
      /\ UNCHANGED <<offered, bytes, failed, client, handler, receiver, requests, accepted, arrived>>
  BY DEF Take, history, input
<1>2. outbox \in Seq(Message) /\ Len(outbox) <= QueueLimit /\ held = 0
  BY <1>1 DEF CountInv, DeliveryTypeOK
<1>3. /\ Head(outbox) \in Message /\ Tail(outbox) \in Seq(Message)
      /\ Len(Tail(outbox)) <= QueueLimit
  BY <1>1, <1>2, HeadTailProperties, EmptySeq, DeliveryAssumption
<1>4. held' \in Message /\ held' # 0
  BY <1>1, <1>3, MessageIsNat
<1>5. DeliveryTypeOK'
  BY <1>1, <1>3, <1>4 DEF CountInv, DeliveryTypeOK
<1>6. SizeOf(outbox) = Size[Head(outbox)] + SizeOf(Tail(outbox))
  BY <1>1, <1>2, SizeOfFacts
<1>7. SizeOf(Tail(outbox)) \in Nat /\ Size[Head(outbox)] \in Nat /\ SizeOf(outbox) \in Nat
  BY <1>2, <1>3, SizeOfFacts, DeliveryAssumption
<1>8. bytes = SizeOf(outbox) + 0
  BY <1>1, <1>2 DEF CountInv, BytesAreWaiting
<1>9. bytes = SizeOf(Tail(outbox)) + Size[Head(outbox)]
  BY <1>6, <1>7, <1>8
<1>10. BytesAreWaiting'
  BY <1>1, <1>4, <1>9 DEF BytesAreWaiting
<1> QED BY <1>5, <1>10 DEF CountInv

LEMMA AccountCounts == ASSUME CountInv, Account PROVE CountInv'
<1>1. /\ run = "sent" /\ run' = "select" /\ held' = 0 /\ bytes' = bytes - Size[held]
      /\ UNCHANGED <<offered, outbox, failed, client, handler, receiver, requests, accepted, arrived>>
  BY DEF Account, history, input
<1>2. held \in Message /\ held # 0
  BY <1>1 DEF CountInv, DeliveryTypeOK
<1>3. Size[held] \in Nat /\ SizeOf(outbox) \in Nat
  BY <1>2, SizeOfFacts, DeliveryAssumption DEF CountInv, DeliveryTypeOK
<1>4. bytes = SizeOf(outbox) + Size[held]
  BY <1>1, <1>2 DEF CountInv, BytesAreWaiting
<1>5. bytes' = SizeOf(outbox) /\ bytes' \in Nat
  BY <1>1, <1>3, <1>4
<1>6. DeliveryTypeOK'
  BY <1>1, <1>5 DEF CountInv, DeliveryTypeOK
<1>7. BytesAreWaiting'
  <2>1. bytes' = SizeOf(outbox) + 0
    BY <1>3, <1>5
  <2> QED BY <1>1, <2>1 DEF BytesAreWaiting
<1> QED BY <1>6, <1>7 DEF CountInv

(* The goroutine ends: what it still had no longer matters. *)
LEMMA QuitCounts ==
    ASSUME CountInv, Quit, failed' \in BOOLEAN, UNCHANGED <<offered, outbox, bytes, input, history>>
    PROVE  CountInv'
<1>1. DeliveryTypeOK'
  BY DEF CountInv, DeliveryTypeOK, Quit, input, history
<1>2. BytesAreWaiting'
  BY DEF Quit, BytesAreWaiting
<1> QED BY <1>1, <1>2 DEF CountInv

LEMMA TransmitCounts == ASSUME CountInv, Transmit PROVE CountInv'
<1>1. /\ run = "sending" /\ run' = "sent" /\ arrived' = Append(arrived, held)
      /\ UNCHANGED <<offered, outbox, bytes, failed, held, client, handler, receiver, requests, accepted>>
  BY DEF Transmit, input
<1>2. held \in Message
  BY <1>1 DEF CountInv, DeliveryTypeOK
<1>3. DeliveryTypeOK'
  BY <1>1, <1>2 DEF CountInv, DeliveryTypeOK
<1> QED BY <1>1, <1>3, UncountedStep

LEMMA HandlerCounts ==
    ASSUME CountInv, Recv \/ ReadRequest \/ ReadEnd \/ Wake \/ ClientGone
    PROVE  CountInv'
<1>1. UNCHANGED <<offered, outbox, bytes, run, held, accepted, arrived>>
  BY DEF Recv, ReadRequest, ReadEnd, Wake, Return, ClientGone, history
<1>2. DeliveryTypeOK'
  <2>1. CASE Recv
    BY <1>1, <2>1 DEF CountInv, DeliveryTypeOK, Recv
  <2>2. CASE ReadRequest
    <3>1. requests' \in 0..MaxRequests
      BY <2>2, DeliveryAssumption DEF CountInv, DeliveryTypeOK, ReadRequest
    <3> QED BY <1>1, <2>2, <3>1 DEF CountInv, DeliveryTypeOK, ReadRequest
  <2>3. CASE ReadEnd
    BY <1>1, <2>3 DEF CountInv, DeliveryTypeOK, ReadEnd
  <2>4. CASE Wake
    BY <1>1, <2>4 DEF CountInv, DeliveryTypeOK, Wake, Return
  <2>5. CASE ClientGone
    BY <1>1, <2>5 DEF CountInv, DeliveryTypeOK, ClientGone
  <2> QED BY <2>1, <2>2, <2>3, <2>4, <2>5
<1> QED BY <1>1, <1>2, UncountedStep

LEMMA CountInvStep == CountInv /\ [DeliveryNext]_deliveryVars => CountInv'
<1> SUFFICES ASSUME CountInv, [DeliveryNext]_deliveryVars PROVE CountInv'
  OBVIOUS
<1>1. CASE UNCHANGED deliveryVars
  <2>1. UNCHANGED <<offered, outbox, bytes, failed, run, held, client, handler,
                    receiver, requests, accepted, arrived>>
    BY <1>1 DEF deliveryVars, history, input
  <2>2. DeliveryTypeOK'
    BY <2>1 DEF CountInv, DeliveryTypeOK
  <2> QED BY <2>1, <2>2, UncountedStep
<1>2. CASE \E m \in Message : Send(m)
  BY <1>2, SendCounts
<1>3. CASE SeeDone \/ SeeContextDone \/ TransmitFails
  <2>1. /\ Quit /\ UNCHANGED <<offered, outbox, bytes, input, history>>
        /\ failed' = failed \/ failed' = TRUE
    BY <1>3 DEF SeeDone, SeeContextDone, TransmitFails
  <2>2. failed' \in BOOLEAN
    BY <2>1 DEF CountInv, DeliveryTypeOK
  <2> QED BY <2>1, <2>2, QuitCounts
<1>4. CASE Take
  BY <1>4, TakeCounts
<1>5. CASE CheckFailure
  <2>1. CASE failed
    <3>1. failed' \in BOOLEAN
      BY <1>5 DEF CheckFailure, CountInv, DeliveryTypeOK
    <3> QED BY <1>5, <2>1, <3>1, QuitCounts DEF CheckFailure
  <2>2. CASE ~ failed
    <3>1. /\ run = "taken" /\ run' = "sending"
          /\ UNCHANGED <<offered, outbox, bytes, failed, held, client, handler,
                         receiver, requests, accepted, arrived>>
      BY <1>5, <2>2 DEF CheckFailure, history, input
    <3>2. DeliveryTypeOK'
      BY <3>1 DEF CountInv, DeliveryTypeOK
    <3> QED BY <3>1, <3>2, UncountedStep
  <2> QED BY <2>1, <2>2
<1>6. CASE Transmit
  BY <1>6, TransmitCounts
<1>7. CASE Account
  BY <1>7, AccountCounts
<1>8. CASE Recv \/ ReadRequest \/ ReadEnd \/ Wake \/ ClientGone
  BY <1>8, HandlerCounts
<1> QED BY <1>1, <1>2, <1>3, <1>4, <1>5, <1>6, <1>7, <1>8 DEF DeliveryNext

LEMMA SoundFollows == DeliveryInv /\ CountInv => DeliveryIsSound
  BY DEF DeliveryInv, CountInv, DeliveryIsSound

(* A stream that has not failed passed no message over, and what counts    *)
(* against its limit of bytes is what its client has not got yet: a client *)
(* who keeps up never loses his stream, however much he is sent, and no    *)
(* message is ever taken off the count twice.                              *)
THEOREM DeliveryTheorem == DeliverySpec => []DeliveryIsSound
<1>1. DeliverySpec => []CountInv
  BY CountInvInit, CountInvStep, PTL DEF DeliverySpec
<1> QED BY <1>1, DeliveryInvariant, SoundFollows, PTL

-----------------------------------------------------------------------------
(* The streams together *)

(* A step of any stream is a step or a stutter of each component.          *)
LEMMA StreamsStep ==
    [StreamsNext]_streamVars =>
        [NotificationNext]_notificationVars /\ [DeliveryNext]_deliveryVars
  BY DEF StreamsNext, streamVars, BoxesAlone, NotificationsAlone, DeliveryAlone

(* Whatever kind of stream a behaviour of the process uses, its waiters    *)
(* are served, its keys are true and its messages are not passed over.     *)
THEOREM StreamsTheorem == StreamsSpec => [](WaitersAreServed /\ KeysAreTrue /\ DeliveryIsSound)
<1>1. StreamsInit => NotifyInv /\ DeliveryInv /\ CountInv
  BY NotifyInvInit, DeliveryInvInit, CountInvInit DEF StreamsInit
<1>2. NotifyInv /\ DeliveryInv /\ CountInv /\ [StreamsNext]_streamVars
         => (NotifyInv /\ DeliveryInv /\ CountInv)'
  BY StreamsStep, NotifyInvStep, DeliveryInvStep, CountInvStep
<1>3. NotifyInv /\ DeliveryInv /\ CountInv => WaitersAreServed /\ KeysAreTrue /\ DeliveryIsSound
  BY WaitersFollow, KeysFollow, SoundFollows
<1> QED BY <1>1, <1>2, <1>3, PTL DEF StreamsSpec
=============================================================================
