------------------------------ MODULE TradeBox ------------------------------
(***************************************************************************)
(* The Timber surprise-trade service, src/trade_box.go: tradeBoxServer,    *)
(* its four calls and the TrackTradeBox streams that follow a box.         *)
(*                                                                         *)
(* A *tradeBoxEntry outlives its place in the boxes map: TrackTradeBox     *)
(* replaces a canceled entry and DeleteTradeBox removes one while streams  *)
(* still hold the pointer.  Entry is the set of those heap objects.  The   *)
(* payload and signature of a box are written once, when the box is        *)
(* created, and every copy is a clone, so a payload is named by the entry  *)
(* whose box holds it: result[e] is the entry whose payload e received.    *)
(***************************************************************************)
EXTENDS Naturals, Sequences

CONSTANTS
    Owner,      (* authenticated NPLN users                                *)
    BoxId,      (* the (application id, trade_box_id) pairs of one user    *)
    Entry,      (* tradeBoxEntry objects the server may allocate           *)
    Stream,     (* TrackTradeBox calls that may be in progress             *)
    NoEntry     (* the nil *tradeBoxEntry                                  *)

ASSUME EntryAssumption == NoEntry \notin Entry

VARIABLES
    boxes,      (* storage key -> entry, NoEntry when the map has no key   *)
    waiting,    (* s.waiting: storage keys, oldest first                   *)
    keyOf,      (* the storage key each allocated entry was made for       *)
    created,    (* entries with created = true                             *)
    matched,    (* entries with matched = true                             *)
    canceled,   (* entries with canceled = true                            *)
    result,     (* whose payload the result of a matched entry carries     *)
    token,      (* entries whose notify channel (capacity 1) is full       *)
    pc,         (* where each TrackTradeBox call stands                    *)
    follows,    (* the entry pointer each call holds                       *)
    answered    (* history: entries whose end some stream has read         *)

exchange == <<boxes, waiting, keyOf, created, matched, canceled, result>>
streams  == <<pc, follows, answered>>
vars     == <<exchange, token, streams>>

Key == Owner \X BoxId
OwnerOf(k) == k[1]

Allocated == DOMAIN keyOf
Offered == created \ (canceled \cup matched)

(* Where a TrackTradeBox call stands.  It holds an entry while it is open. *)
Ended == {"idle", "result", "canceled", "gone"}
Open == {"opening", "following", "woken"}
Followers(e) == {s \in Stream : pc[s] \in Open /\ follows[s] = e}

TypeOK ==
    /\ boxes \in [Key -> Entry \cup {NoEntry}]
    /\ waiting \in Seq(Key)
    /\ DOMAIN keyOf \subseteq Entry
    /\ keyOf \in [DOMAIN keyOf -> Key]
    /\ created \subseteq Allocated
    /\ matched \subseteq created
    /\ canceled \subseteq Allocated
    /\ token \subseteq Allocated
    /\ answered \subseteq Allocated
    /\ result \in [matched -> created]
    /\ pc \in [Stream -> Ended \cup Open]
    /\ follows \in [Stream -> Entry \cup {NoEntry}]
    /\ \A s \in Stream : pc[s] \in Open => follows[s] \in Allocated

Init ==
    /\ boxes = [k \in Key |-> NoEntry]
    /\ waiting = <<>>
    /\ keyOf = [e \in {} |-> NoEntry]
    /\ created = {} /\ matched = {} /\ canceled = {}
    /\ result = [e \in {} |-> NoEntry]
    /\ token = {}
    /\ pc = [s \in Stream |-> "idle"]
    /\ follows = [s \in Stream |-> NoEntry]
    /\ answered = {}

-----------------------------------------------------------------------------
(* The entry a handler works on for key k: the one in the map, or, when    *)
(* replace says so, a new one that takes its place.                        *)
Allocate(k, e, replace) ==
    IF replace
    THEN /\ e \in Entry \ Allocated
         /\ boxes' = [boxes EXCEPT ![k] = e]
         /\ keyOf' = [x \in Allocated \cup {e} |-> IF x = e THEN k ELSE keyOf[x]]
    ELSE /\ e = boxes[k]
         /\ UNCHANGED <<boxes, keyOf>>

(* Positions of s.waiting the scan of createForOwnerApp does not skip: the *)
(* key still maps to a created entry, neither canceled nor matched.  The   *)
(* new entry e is already in the map and created when the scan starts.     *)
Found(k, e, i) == IF waiting[i] = k THEN e ELSE boxes[waiting[i]]

(* Mutant: the scan forgets "|| candidate.canceled". *)
CandidatesCanceled(k, e) ==
    {i \in DOMAIN waiting : Found(k, e, i) \in (created \cup {e}) \ matched}

Candidates(k, e) ==
    {i \in DOMAIN waiting :
        Found(k, e, i) \in (created \cup {e}) \ (canceled \cup matched)}

FirstCandidate(k, e, i) ==
    i \in Candidates(k, e) /\ \A j \in Candidates(k, e) : i <= j

After(i) == SubSeq(waiting, i + 1, Len(waiting))

(* Mutant: the notify channel has no buffer, so a signal reaches only a    *)
(* call that is in its select.                                             *)
SignalUnbuffered(S) ==
    token' = token \cup {e \in S : \E s \in Stream : pc[s] = "following" /\ follows[s] = e}

(* signalLocked: a full channel stays full. *)
Signal(S) == token' = token \cup S

(* No key was left to offer the new box to. *)
EnqueueAlone(k, e) ==
    /\ Candidates(k, e) = {}
    /\ waiting' = <<k>>
    /\ Signal({e})
    /\ UNCHANGED <<matched, result>>

(* Mutant: the caller's own offer is taken off the queue and not put back. *)
EnqueueBehindDropsHead(k, e, i) ==
    /\ FirstCandidate(k, e, i)
    /\ OwnerOf(waiting[i]) = OwnerOf(k)
    /\ waiting' = Append(After(i), k)
    /\ Signal({e})
    /\ UNCHANGED <<matched, result>>

(* The oldest candidate is the caller's own: it goes to the back and the   *)
(* scan stops, so the keys behind it are not looked at.                    *)
EnqueueBehind(k, e, i) ==
    /\ FirstCandidate(k, e, i)
    /\ OwnerOf(waiting[i]) = OwnerOf(k)
    /\ waiting' = Append(Append(After(i), waiting[i]), k)
    /\ Signal({e})
    /\ UNCHANGED <<matched, result>>

(* The cross-copy: each of the two receives the other's payload. *)
Crossed(c, e) ==
    [x \in matched \cup {c, e} |-> IF x = c THEN e ELSE IF x = e THEN c ELSE result[x]]

(* The oldest candidate belongs to somebody else: the payloads cross. *)
Pair(k, e, i) ==
    LET c == boxes[waiting[i]] IN
    /\ FirstCandidate(k, e, i)
    /\ OwnerOf(waiting[i]) # OwnerOf(k)
    /\ waiting' = After(i)
    /\ matched' = matched \cup {c, e}
    /\ result' = Crossed(c, e)
    /\ Signal({c, e})

(* No AlreadyExists: the key has no entry, or a placeholder TrackTradeBox  *)
(* made and nobody canceled.                                               *)
Vacant(k) == boxes[k] # NoEntry => boxes[k] \notin created \cup canceled

(* CreateTradeBox: take the placeholder over or make an entry, then scan.  *)
Create(k, e) ==
    /\ Vacant(k)
    /\ Allocate(k, e, boxes[k] = NoEntry)
    /\ created' = created \cup {e}
    /\ \/ EnqueueAlone(k, e)
       \/ \E i \in DOMAIN waiting : EnqueueBehind(k, e, i) \/ Pair(k, e, i)
    /\ UNCHANGED <<canceled, streams>>

(* CancelTradeBox, and DeleteTradeBox when remove is true.  Neither looks  *)
(* at matched, and neither takes the key out of s.waiting.                 *)
Cancel(k, remove) ==
    /\ boxes[k] # NoEntry
    /\ canceled' = canceled \cup {boxes[k]}
    /\ Signal({boxes[k]})
    /\ boxes' = IF remove THEN [boxes EXCEPT ![k] = NoEntry] ELSE boxes
    /\ UNCHANGED <<waiting, keyOf, created, matched, result, streams>>

-----------------------------------------------------------------------------
(* The key has no entry a new call may follow. *)
Untrackable(k) == boxes[k] = NoEntry \/ boxes[k] \in canceled

(* TrackTradeBox, first critical section: find or make the entry. *)
TrackOpen(s, k, e) ==
    /\ pc[s] \in Ended
    /\ Allocate(k, e, Untrackable(k))
    /\ pc' = [pc EXCEPT ![s] = "opening"]
    /\ follows' = [follows EXCEPT ![s] = e]
    /\ UNCHANGED <<waiting, created, matched, canceled, result, token, answered>>

(* Second critical section: report the entry as it is now.  A finished     *)
(* exchange ends the call; anything else, a canceled box included, is      *)
(* followed.                                                               *)
TrackInitial(s) ==
    LET e == follows[s] IN
    /\ pc[s] = "opening"
    /\ IF e \in created /\ e \in matched
       THEN /\ pc' = [pc EXCEPT ![s] = "result"]
            /\ answered' = answered \cup {e}
       ELSE /\ pc' = [pc EXCEPT ![s] = "following"]
            /\ UNCHANGED answered
    /\ UNCHANGED <<exchange, token, follows>>

(* The select receives from entry.notify: one waiting call takes the token. *)
TrackWake(s) ==
    /\ pc[s] = "following"
    /\ follows[s] \in token
    /\ token' = token \ {follows[s]}
    /\ pc' = [pc EXCEPT ![s] = "woken"]
    /\ UNCHANGED <<exchange, follows, answered>>

(* The critical section after a wake-up: end with Canceled, end with the   *)
(* result, or go back to the select.                                       *)
TrackRead(s) ==
    LET e == follows[s] IN
    /\ pc[s] = "woken"
    /\ \/ /\ e \in canceled \ matched
          /\ pc' = [pc EXCEPT ![s] = "canceled"]
          /\ answered' = answered \cup {e}
       \/ /\ e \in matched
          /\ pc' = [pc EXCEPT ![s] = "result"]
          /\ answered' = answered \cup {e}
       \/ /\ e \notin canceled \cup matched
          /\ pc' = [pc EXCEPT ![s] = "following"]
          /\ UNCHANGED answered
    /\ UNCHANGED <<exchange, token, follows>>

(* The client went away: Context().Done() in the select, or a SendMsg that *)
(* failed after a read that found the exchange unfinished.                 *)
TrackGone(s) ==
    /\ pc[s] = "following"
    /\ pc' = [pc EXCEPT ![s] = "gone"]
    /\ UNCHANGED <<exchange, token, follows, answered>>

ServeStream(s) == TrackInitial(s) \/ TrackWake(s) \/ TrackRead(s)

Next ==
    \/ \E k \in Key, e \in Entry : Create(k, e)
    \/ \E k \in Key, remove \in BOOLEAN : Cancel(k, remove)
    \/ \E s \in Stream, k \in Key, e \in Entry : TrackOpen(s, k, e)
    \/ \E s \in Stream : ServeStream(s) \/ TrackGone(s)

Spec == Init /\ [][Next]_vars

(* The handler goroutines run; clients owe nothing. *)
Fairness == \A s \in Stream : WF_vars(ServeStream(s))
FairSpec == Spec /\ Fairness

-----------------------------------------------------------------------------
(* SAFETY *)

(* Every exchange is a swap between two users: whoever received a payload  *)
(* gave his own to the one he received it from.  So no box is traded away  *)
(* twice or into nothing (the cross-copy of createForOwnerApp).            *)
ExchangeIsMutual ==
    \A e \in matched :
        /\ result[e] \in matched
        /\ result[result[e]] = e
        /\ OwnerOf(keyOf[result[e]]) # OwnerOf(keyOf[e])

(* No exchange is missed: two offers of different users are never both     *)
(* open, although createForOwnerApp looks at one live candidate only and   *)
(* stops the scan at an offer of the caller's own.                         *)
NoMissedExchange ==
    \A e, f \in Offered : OwnerOf(keyOf[e]) = OwnerOf(keyOf[f])

(* No offer is lost: an open offer is the one its key maps to and the key  *)
(* is still queued, whatever was popped, put back, deleted or replaced.    *)
OfferIsQueued ==
    \A e \in Offered :
        /\ boxes[keyOf[e]] = e
        /\ \E i \in DOMAIN waiting : waiting[i] = keyOf[e]

(* Why looking at one candidate is enough: the keys in s.waiting, stale    *)
(* ones included, all belong to one user, so the oldest live one speaks    *)
(* for the whole queue.                                                    *)
QueueHasOneOwner ==
    \A i, j \in DOMAIN waiting : OwnerOf(waiting[i]) = OwnerOf(waiting[j])

(* The queue loses nothing and swaps what meets in it.                     *)
ExchangeIsSound == ExchangeIsMutual /\ OfferIsQueued /\ NoMissedExchange

(* What a stream was told stays true: a box reported Canceled is never     *)
(* traded later, and a reported result is the payload of a real partner.   *)
ReportsAreFinal ==
    \A s \in Stream :
        /\ pc[s] = "canceled" => follows[s] \in canceled \ matched
        /\ pc[s] = "result" => follows[s] \in matched

(* A signal is never lost on the capacity-one channel: from the moment an  *)
(* entry is matched or canceled the token is there for a call to take, some *)
(* call has taken it and is about to read, or one has read it.             *)
NoLostWakeup ==
    \A e \in matched \cup canceled :
        \/ e \in token \cup answered
        \/ \E s \in Followers(e) : pc[s] = "woken"

(* A stream hears of the end of its box, and what it hears is the truth.   *)
StreamsAreTold == ReportsAreFinal /\ NoLostWakeup

(* A finished exchange is never undone or redirected: cancel, delete,      *)
(* re-create and re-track leave every result as it was.                    *)
ResultsStand ==
    [][/\ matched \subseteq matched'
       /\ \A e \in matched : result'[e] = result[e]]_vars

(* LIVENESS: once an entry somebody waits on is matched or canceled, one   *)
(* of its calls reports it, unless they have all hung up.                  *)
EndIsReported ==
    \A e \in Entry :
        (e \in matched \cup canceled /\ Followers(e) # {})
            ~> (e \in answered \/ Followers(e) = {})

(* REFINEMENT: under the map, the queue and the streams is the exchange of *)
(* TradeExchange; every handler is one of its steps or none.               *)
Trades == INSTANCE TradeExchange WITH
    User <- Owner, Box <- Entry,
    owner <- [e \in created |-> OwnerOf(keyOf[e])],
    open <- Offered, partner <- result
ImplementsExchange == Trades!TSpec
=============================================================================
