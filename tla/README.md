# A TLA+ model of the Scarlet/Violet NPLN server

The server (Go, `package main`) answers the network services of Pokémon Scarlet and Violet: players
find each other, meet in rooms, keep a stream to the room, exchange documents there, and have trades
and ranked battles settled. All state is in memory behind mutexes, except the ranked results, which
are written to a file. Every RPC runs in a goroutine of its own, several RPCs are long streams, and
disconnects are driven by timers. So the questions worth asking are about interleavings: what one
call read before another one changed it, who is still in a queue when his stream has ended, what a
late timer does, what a client makes of a list that changes while he reads it.

This directory models the parts that keep state and coordinate players. TLC checks them on small
instances; TLAPS proves, for every instance, each safety property these checks are about. Liveness
is only checked.

## Inventory

| Part (source) | State | Operations | What is hard, what must hold |
|---|---|---|---|
| Surprise Trade (`trade_box.go`) | `boxes`, `waiting`; per entry a capacity-one `notify` | Create, Cancel, Delete, Track (stream) | stale and repeated names in the queue; entries replaced under open streams; signals shared by streams. An exchange is a swap of two users, none is missed, none undone, and its end is reported |
| Matchmaking tickets (`matchmaking.go`) | `tickets`, `ticketSessions`, `sessionsByPool`, `pooled` | Create, Track (polls, deferred clean-up), Cancel; creation tickets | a search is a loop of critical sections; partners cancel or depart between them. Groups are complete, closed to others, never two half-empty rooms, searchers meet |
| Session registry (`session_registry.go`) | `sessions`, `pooled`, `configs` | member, depart, raidNeedsReopen, updateRoomControl | shared by three services; a seat is kept in three places. They agree; terminated rooms stay terminated |
| Session service (`session_service.go`) | the registry | Join, Get, Query, List, IssueMatchmakingIdToken | joins against matchmaking; pages without a snapshot. A walk misses nothing that was there all the time |
| Circle codes (`session_alias.go`) | `aliases` | Create, Get | expiry, renewal, colliding codes. A code finds its room for the promised hour |
| Gamesync lifecycle (`gamesync.go`, `gamesync_store.go`) | `sessions`, `streamCounts`, `disconnectTimers`, `subscribers` | IssueToken, KeepUserSession, streamStarted, streamEnded, expireSession | three locks, timers against streams against tokens. No session is left without a way out, none expires under a stream, subscribers see the sessions there are |
| Gamesync documents (`gamesync_store.go`) | `documents`, `owners`, `globalValues`, `deferments` | WriteDocuments (writes, transforms, deferments); expiry; targets | commits on copies, two locks, owners, deferred deletes. All or nothing, what is told is what is there, nothing outlives its owner |
| Gamesync delivery (`gamesync_delivery.go`) | queue of 256 messages, byte count, error | Send, run, Recv, stop | a full queue ends the stream; messages keep their order, none is dropped, no goroutine stays |
| Gamesync reads (`gamesync_reads.go`) | none | ReadDocuments, ListDocuments | pages over documents that are committed and deleted meanwhile |
| Ranked results (`ranked_state.go`) | `participants`, `processed`, a file | recordConsensus, stats | retries, failed writes, restarts. Every agreed battle counts once |
| Competition notifications (`competition.go`) | `waiters`, `notifications` | ReceiveCompetitionNotification (stream), Get | hang-ups and repeated calls while pairs form. Pairs hear one key, nobody is forgotten |
| Competition hosting (`competition.go`) | `hosted`, `aliases`, `users`, `official` | Host, GetAlias, Search, Create/ActivateParticipant, UpdateUser | two competitions with one code; messages edited without decoding. A code leads to what it was given for, what is stored is read back |
| Rental teams, penalties (`ugcstore_violet.go`) | `rentalDocuments`, `rentalOwners`, `rentalAliases`, `penalties` | Commit, CreateDocumentShortAlias, reads one by one and in bulk | codes that outlive a team, codes chosen and counted. A code names a team and keeps naming it |
| Datastore (`datastore.go`) | `contents` | Create, Get, Search, Delete | names from a clock that is read before the mutex is taken |
| Dashboard (`dashboard.go`) | `present`, `peak` | trackPresence, stats | counts of streams; a page made under three locks in turn |
| Friends, messaging (`friends.go`, `messaging.go`) | none of their own | lists, heartbeats | |
| Authentication (`auth.go`, `token_jwt.go`, `account_client.go`, ...) | a cache of user ids | tokens | cryptography |
| Front end, validation, NAT, observation, wiring | none that the protocol reads | | |

How they interact. `buildServer` (`main.go`) gives Gamesync, the matchmaker and the session service
*one* registry: a matchmaking poll seats a player there, `IssueToken` looks him up there, and
`expireSession` takes him off. Gamesync and the competitions share *one* ranked store:
`WriteDocuments` feeds battle reports to it, the competition service reads the statistics. A commit
to `docs/__gs/m` calls back into the registry (`updateRoomControl`). The dashboard reads Gamesync and
the registry and is told of presence streams. The trade service, the notification queue, the rental
teams and the datastore stand alone.

`PROJECT.json` lists every part with its status and, under `hazards`, the places in the code that
are hard to test, each with the properties that watch it or the reason why none does.

## Plan

In order of what matters most to players; all of it is done.

1. `TradeBox` and its abstract specification `TradeExchange`; `TradeBoxProofs`.
2. `RankedStore`; `RankedStoreProofs`.
3. `CompetitionNotification`.
4. `Matchmaking`, which composes tickets, registry, joining and the registry's side of Gamesync;
   `MatchmakingProofs`.
5. `GamesyncLifecycle`; `GamesyncLifecycleProofs`.
6. `GamesyncStore` over `GamesyncMessages`; `GamesyncStoreProofs`. `GamesyncDelivery` and its
   abstract specification `OrderedStream`.
7. `UgcStore` over `UgcMessages`; `UnionCircle`; `PagedReads` over `SessionMessages`;
   `CompetitionHosting`, `Dashboard`, `Datastore`.
8. Compositions: `ServerStreams` (the long streams), `TitleServices` (the services with maps of
   their own); `ServerStreamsProofs`, `TitleServicesProofs`, which are about them and their parts,
   and `SequenceLemmas`, the lemmas about queues and numbers they need.

## The modules

An action is one critical section: what a handler does between taking a mutex and releasing it. A
handler that takes a lock several times is several actions, with the call's place in a variable
(`pc`, `stage`, `token`, ...); everything may happen in between. Where a call is numbered, the
numbers are in order of arrival, which loses nothing since the numbers are only names. The modules
`...Messages` give the messages of the generated code as sets of records, as far as handlers read
them. A definition commented *Mutant* is a plausible mistake in the definition that follows it;
`PROJECT.json` pairs each with the property that exposes it, and no specification uses one.

### TradeBox, TradeExchange (`src/trade_box.go`)

Entries are heap objects: a stream holds a pointer while the map may name another entry by now.
`boxes`, `waiting`, `created`, `matched`, `canceled` and `result` are the fields of the same names;
`token` is the state of the `notify` channels. `Create` is `createForOwner` with its whole scan of
the queue; `Cancel` is both CancelTradeBox and DeleteTradeBox; `TrackOpen`, `TrackInitial`,
`TrackWake`, `TrackRead` and `TrackGone` are TrackTradeBox between its locks and channel operations.
`TradeExchange` says what it is for, without keys or queue: users post boxes, two boxes of different
users are swapped at once, an open box may be withdrawn.

### RankedStore (`src/ranked_state.go`, reports in `src/gamesync_store.go`)

A session has two seats, each of which may write or delete a report; `RecordConsensus` is
`matchingRankedReports` followed by `recordConsensus`, which run under the publication lock together
with the commit. `Persist` may fail at either end of the rename; `Restart` reloads what the last
rename left. `applyRankedResult` is spelled out with its floors and its reset at rating 0.

### CompetitionNotification (`src/competition.go`)

`Subscribe` is the locked part of ReceiveCompetitionNotification: prune, refuse, pair or wait.
`HangUp` is the client's side, `Deliver` and `Withdraw` are the two arms of the `select`. When a
call is both woken and gone, Go chooses either arm, and so does the model. Calls leave the middle of
a queue by `Without` of the module `Queues`.

### Matchmaking (`src/matchmaking.go`, `src/session_service.go`, `src/session_registry.go`)

A room carries its roster three times, as in the code: `users` (UserSessions), `members` (the pooled
members) and `count`. `Poll` is one turn of the loop of TrackMatchmakingTicket, which selects or
creates a room, admits, and answers or goes on searching; `SendResult` is the phases that follow a
match; `EndTracking` is the deferred clean-up, at any time; `Cancel` is CancelMatchmakingTicket.
`CreateCreation` and `CompleteCreation` are creation tickets, with the size the client asks for (0:
the configuration's; out of 1..64: the ticket fails) and whether the room is hidden from searches;
`Join` is JoinGameSession. `Connect` and `Depart` are what Gamesync does to the registry, `Reopen`
the second half of the expiry of a raid's guest, and `Control` what the connected owner of
`docs/__gs/m` writes to it: he may open, close and hide a room of any pool, a coded one too. A raid
has a `Posting` (its attributes), and a search for raids names the postings that match; Go's map
order is a choice of any room in a random raid search, and slice order elsewhere.

What clients do is in constants, so that every hypothesis is visible: `SearchRequests`,
`CreationRequests` and `ControlRequests` are what they ask for and write, `JoinByName` the pools
whose rooms they join by name, `PromptPolls` an assumption about time. Only `SearchersCanBeJoined`
and `SearchersMeet` need restrictions: nobody joins a coded room by name, no owner writes the control
document of a coded room (`ControlRequests` has no such request), and polls are prompt. A searcher
who was let into a reopened room may have it closed on him by its owner, and nothing in the code
prevents it. `NoStrangerEnters` and `OneRoomToMeetIn` hold whatever owners write, and say so: a group
shares its room with others only after its connected owner has opened it, and of the rooms nobody
has connected to, which nobody can have reopened, at most one of a coded pool can be joined.

### GamesyncLifecycle (`src/gamesync.go`, `src/gamesync_store.go`)

One room. `IssueToken` is `CheckMember` (registry lock), `Remember` (publication and `g.mu`) and
`Issue` (scheduleDisconnect, answer); `KeepUserSession` is `Authorize`, `Start`, `InstallTarget`,
`End` and `Leave`; a timer is `Fire` and `Expire`, and `Depart` is the rest of `expireSession` after
it has released `g.mu`. `view` is what the subscribers of `docs/__us` were sent. The publication
lock is held only by `Depart`'s predecessor (`expiring`): the other holders are single steps. The
callback of a timer is a closure over the variable `timer`, assigned after `time.AfterFunc` has
returned; `LateAssignment` says whether the callback of a timer without delay may read it earlier,
which the Go memory model allows.

### GamesyncStore (`src/gamesync_store.go`, subscribers in `src/gamesync.go`)

One room and its documents. `WriteDocuments` is `Authorize`, `Begin` (both locks, the second check of
the session, the copies), `Write` and `Defer` (one operation each, on the copies in `work`), `Commit`
(the copies replace the maps, `g.mu` is released) and `PublishCommit` (the registry and the streams
are told, the publication lock is released). `Writable` is `writableDocument` with its rule per
collection, `Transform` is `applyFieldTransform` with loads, stores, increments at the limits of the
integers, and the refusals. `Expire`, `Depart`, `CheckReopen` and `PublishExpiry` are `expireSession`;
`InitializeFixedData` and `Remember` belong to `IssueToken`. A stream is what its messages add up to
(`sent`), folded over the messages themselves. *When* a session expires is `GamesyncLifecycle`'s.

### GamesyncDelivery, OrderedStream (`src/gamesync_delivery.go`)

`Send`, the goroutine `run` (take, write to the transport, account) and the handler with its
receiver, step by step: the queue is bounded in messages and in bytes, and a full one fails the
stream. `OrderedStream` is the promise: what was accepted arrives in order, a prefix of it.

### UgcStore (`src/ugcstore_violet.go`), UnionCircle (`src/session_alias.go`)

`CommitDocuments` with its single write, its masks and the conditions the game sends; codes that a
caller chooses and codes that are counted; reads. Everything is forgotten by a restart while clients
keep names and codes. `UnionCircle` adds to the map of codes a history variable `promised`: until when a room's code was given out. Its rooms are of any kind (the alias service asks for
membership only), so one may end with its host, as a raid does, while players are still in it and ask
for its code; the answer leads nowhere. `owners` are the players of team "owner", which the clients
name themselves.

### PagedReads (`src/session_service.go`, `src/gamesync_reads.go`)

Requests and answers of the reads, and a client who walks through QueryGameSessions,
ListUserSessions or ListDocuments page by page while rooms are opened, joined, left and ended
(a raid with its host, whose guests stay on its list) and documents come and go. A search for raids
names a ceiling of difficulty and does not find a room without a difficulty.

### CompetitionHosting (`src/competition.go`), Datastore (`src/datastore.go`), Dashboard (`src/dashboard.go`)

Messages that the server edits without decoding are sequences of fields, of which the last of a kind
counts. `HostCompetition` takes any name a client gives, a season's and the official one's included
(`canonicalHostedCompetitionName` checks its form only). Hosting the official name makes its entry
show a code of its own while the server goes on answering `OfficialCode` for it, so `CodesLeadHome`
excepts that one code from then on. A creation in the datastore is two steps, `NameContent` with the clock before the mutex and `StoreContent`. The page
of who is online is three copies under three locks, with everything in between.

### ServerStreams, TitleServices (`src/main.go`)

The compositions behind two runs. Their components share no variable and no lock, and every property
speaks of one of them; projected to one component, a behaviour of all of them together is a behaviour
of that component. So each behaviour uses one component only, chosen at the start: nothing is lost,
and the instances add up instead of multiplying. `ServerStreams` carries the choice in `kind`, so
that the fairness of each component is asked for only where it runs.

## The runs

| Run | Instance | Question |
|---|---|---|
| `trade_exchange` | 3 users, 2 boxes each, 5 entries, no streams, symmetric | Is every exchange mutual, none missed, none undone, and is it an implementation of `TradeExchange`? |
| `streams` | trade: 2 users, 1 box each, 2 entries, 2 streams; notifications: 3 participants, 4 calls; delivery: 5 messages, a queue of 2 and 3 units; fair handlers | Are ends reported with one channel shared by streams; do pairs hear one key and everybody return; does a slow client lose his stream and nothing else? |
| `ranked` | 3 players, 2 sessions, 4 outcomes (agreeing, contradicting, impossible) | Is each battle counted once through retries, failed writes, restarts and departures? |
| `ranked_zero_rating` | as above, with a start that one defeat exhausts | A counterexample: see findings |
| `groups` | 3 players, 3 tickets, 1 creation, coded pools of two and three and one joined by name, a circle and a raid with two postings | Do rosters agree, are groups complete and their rooms their own, and do joins, searches and created rooms respect the limit, while searches are canceled, owners reopen and close rooms and members depart? |
| `pairs_liveness` | 2 players, 3 tickets, prompt and fair polls, no joins by name, no control of coded rooms | Do two searchers with one code word find each other? |
| `connected_release` | 3 players, 3 tickets | A counterexample: see findings |
| `lifecycle` | 2 members, 4 calls, fair handlers and timers | Are sessions bounded, counted, visible, and do the disconnected depart? |
| `timer_race` | as above, `LateAssignment` | A counterexample: see findings |
| `stale_token` | as above, no fairness | A counterexample: see findings |
| `documents` | a raid's host and guest, 5 requests, 1 stream, 5 commits | Are commits all or nothing, owners respected, numbers unique, and is what a stream was told what a read would answer? |
| `services` | 2 users; 2 competitions with one code; 2 teams, 3 codes; a season and the official name to host; 4 rooms, 3 of them raids, 3 changes; 2 ticks | Do codes lead where they were given, do walks miss nothing, is what was stored found again? |

Some properties are conjunctions of named parts, one per question, each with its own comment in its
module: `ExchangeIsSound` (`ExchangeIsMutual`, `OfferIsQueued`, `NoMissedExchange`),
`StreamsAreTold` (`ReportsAreFinal`, `NoLostWakeup`), `WaitersAreServed` (`WakeClosedOnce`,
`NobodyForgotten`, `NobodyWaitsInVain`) and `KeysAreTrue` (`KeyNamesItsReader`, `PairHearsOneKey`)
of the notifications, `DeliveryIsSound` (types,
`NothingDropped`, `BytesAreWaiting`), `RoomsAreSound` of `Matchmaking` (types, `RosterAgrees`, `EmptyRoomsAreGone`,
`NeverOverfull`), `ServicesAreSound` (types of all services, `ReferencesAreOwn`,
`ContentsAreFound`), and `StreamsFollow`, which includes the types of `GamesyncStore`.

### Bounds, and why they are enough

- Trade: a scan of the queue meets an own offer, a stale name and a foreign offer only with three
  users and two names for one of them; five entries allow two exchanges and a replacement. Two
  streams on one entry are the least that can take each other's signal.
- Ranked: one participant plays in both sessions, so that counts accumulate across them; a third
  player makes the sessions differ. The rating starts at 1500, far from 0 for two battles; the other
  configuration scales the distance down instead of playing fifty battles.
- Notification: two calls make a pair; the third and fourth are a participant coming back, before or
  after the first pair has read its notification, and a stranger.
- Delivery: one message is as large as two, so that each of the two limits is met first in some
  behaviour; five messages fill the queue twice.
- Matchmaking: three players fill a pair and leave one over; two rooms allow searchers to be kept
  apart; a repeated ticket of one player and the cancellation of another are within three tickets.
  `MaxAdmissions` lets a seat be taken again once. Of a pair, the owner can reopen the room, the other
  depart and the third take his place, which is the longest way for a stranger in; the room of a trio
  is not controlled in the run, since three admissions leave no seat to enter it again. The lobby is a
  coded pool whose rooms are also made by creation tickets and joined by name; creations ask for the
  server's size, a larger one and one that is too large, for a hidden room, and for a raid of one
  posting, which one of two searches matches.
- Lifecycle: a token, a stream, its reconnection and a token refresh are four calls; they may all be
  one member's, or two members' against each other. The safety properties were also run with six
  calls.
- Documents: five commits are the seeding, two arrivals and two writes or a write and a reopening.
  The requests contain each kind Violet makes, one whose second operation is refused, and one with a
  deferment; integers end at -2 and 2, so that a counter meets its limit. One stream is enough for
  what is told, since streams are told independently.
- Services: submitted messages of up to eight fields, with room for the six the server may add (14
  fields in all, which no number of edits exceeds); a colliding pair of codes and one alone; an hour
  of one tick in three points of time, so that a code is renewed, is good and runs out, and two rooms
  of one behaviour (`MaxCircles`), any of the four, since a code is contested by two; a page size
  of one puts a change between any two entries; three changes during a walk allow an entry to go,
  come and move; three openings let a player's only presence move from one stream to another while
  the page is made; two clock ticks for three creations make two share a name.

Symmetry is declared only where no liveness is checked and the values are used in no ordering.
Deadlock is not checked: every instance ends when its bounded calls are used up, and the server
itself may always idle.

### Fairness

Only the server's own steps are fair: handler goroutines between their locks, polls of the tracking
loop, timers and their callbacks, the writing goroutine of a stream. Clients owe nothing: they may
never call, poll, cancel or hang up. Weak fairness suffices for a handler in a `select` or waiting
for a mutex, since what it waits for either stays available or, for the publication lock, is
released by a callback that runs once.

`PromptPolls` is an assumption about time: a search polls (every 250 ms) before another one is past
its result phases (350 ms each). `pairs_liveness` needs it. Without it a player may be matched,
connect and depart before the partner's next poll; the partner then goes on searching in a room that
was closed and that nobody can join. The delay of the phases is configurable
(`NPLN_MATCH_PHASE_DELAY`), so an operator can break the assumption; all the other runs do without
it.

### Findings

Four runs end in a counterexample to what the code says of itself.

- `ranked_zero_rating`: rating 0 stands for "no statistics" (`ranked_state.go:109`) and is also the
  floor of a losing rating, so the next battle of such a player erases his counts.
- `connected_release`: `cancelPendingCodedMatchLocked` takes every room below its capacity for a
  waiting one (`matchmaking.go:594`). After a member of a complete pair has departed, the end of the
  other's tracking stream, or a late cancel, takes the seat of a connected player.
- `timer_race`: a callback that reads `timer` before its assignment (`gamesync_store.go:848`) takes
  itself for stale, and nothing else expires the session.
- `stale_token`: `IssueToken` checks the roster before it enters the session, under another lock
  (`gamesync.go:446`, `463`): a session may be made for a member who has departed meanwhile.

Remarks that have no run:

- If a participant subscribes again after being paired but before his woken call has read the
  notification, the second pairing overwrites the slot and the first pair hears two keys;
  `PairHearsOneKey` states the condition under which it does not happen.
- `expireSession` returns early without deleting its timer when the session is gone
  (`gamesync_store.go:860`), which leaves a map entry behind.
- The control document is deleted when the member it belongs to departs, and the fixed data that
  would lead to its being written again stays: the rest of the room has none from then on.
- What a deferment deletes on expiry is a subset of what the expiry deletes anyway, because a
  document is deleted only if it still belongs to the member.
- A batch may write over a document in another member's mailbox, which makes it the caller's, and
  delete it with its next operation. `OthersDocumentsStay` allows exactly that.
- After a restart, an update of a penalty document under a mask starts from an empty one, so that
  the fields the mask does not name become zero.
- A team published in full may carry a download code nobody has checked; only a patch is checked.
- Two creations in the datastore that read one clock tick have one name, and the later one overwrites
  the earlier.

## The proofs

The proofs hold for all values of the constants under the assumptions the modules name. Constants
that stand for nothing (`NoEntry`, `None`, `Nil`, `NoKey`, ...) are not among the values they stand
beside; limits and bounds are naturals, and a room admits at least one; there are finitely many
members, targets, first rooms, first documents and players on the dashboard; the rating starts above
zero; sizes of messages are not negative; requests are messages of their type, and what the game
submits to a competition is a sequence of fields with room for what the server adds. Where a theorem
needs more of what clients do, the condition is a definition of its own and a hypothesis of the
theorem (`NoCodedJoins`, `NoCodedControl`, `WholeControls`, `WholeAnnouncements`); the instances of the runs fulfil
each of them.

**TradeBoxProofs.** `NoMissedExchange` is not inductive: that one look at the oldest live offer
suffices depends on the whole queue. The invariant `IInv` adds that all queued names, stale ones
included, belong to one user (`QueueHasOneOwner`), that the map and the entries' keys agree, and
that every offer is queued under its name. From it follow the parts of `ExchangeIsSound`
(`SoundExchange` puts them together); with an invariant about streams and tokens (`SInv`),
`StreamSafety`; as properties of steps, `ResultsNeverChange`; and `Implements`: every step is a step
of `TradeExchange` or a stutter under the refinement mapping of `TradeBox`.

**RankedStoreProofs.** `applyRankedResult` keeps the sums of a record (one lemma per outcome), so
memory and file keep them through failed writes and restarts (`CountersTheorem`). `ReportsTheorem`
and `AgreementTheorem` follow from the same invariant and the guard of `RecordConsensus`.
`CountedTheorem` needs that nobody's record is reset at rating zero: it assumes that there are at
most `InitialRating / RatingStep` sessions (fifty), and its invariant adds that a rating has fallen by
at most one step per loss (`Rated`). The run `ranked_zero_rating` shows what happens beyond.

**MatchmakingProofs.** Every action changes at most one room, or adds one, and what a room may become
is one relation: it keeps its pool and its size, and nobody enters it once it is terminated, or while
it is closed (`Follows`). So there is one lemma per function that seats, releases or flags
(`AdmitFits`, `WithoutFits`, `FlagsFit`) and one per action; each also says who may open a coded room
(`Secure`: only its connected owner). The invariant adds to `RoomsAreSound` what others remember of
rooms: the pool lists name pooled rooms of their pool, a ticket's room is of its ticket's pool, or a
raid if the ticket is for one (`Serves`; hence a cancelled search only ever releases a seat of a coded
room, and no raid loses its host that way), and the coded room of an announced offer, while nobody
has connected to it, is closed. `TombstonesTheorem` is then about `Follows` alone, and
`StrangersTheorem` adds that before the first connection nobody can depart and no owner can write;
`GroupsTheorem` counts players, which are as many as the seats because nobody sits twice. None of
these assumes anything of what owners write or who joins by name.

`MeetingTheorem` adds a second invariant (`OneFresh`): of the rooms of a coded pool nobody has
connected to, at most one can be joined. A room that nobody has connected to cannot have been
reopened, so one that can be joined now could be joined before, and a search that makes a new room
has found none; it holds without hypotheses. `JoinableTheorem` adds two more: what was announced was
closed and stays so (`ShutInv`), and a coded room that was closed stays full until one of its members
has a match token, because only then may he depart, and with `PromptPolls` nobody of that room still
searches by then (`FillInv`). So nobody goes on searching in a room that is closed and has a vacancy.
Its three hypotheses are definitions or constants: `PromptPolls`, `NoCodedJoins` (with joins by name
a room fills up without being closed) and `NoCodedControl` (an owner may reopen his room, let a
searcher in and close it on him). What happens without `PromptPolls` is told under fairness.

**GamesyncLifecycleProofs.** `SessionsAreBounded` depends on who set which timer, hence on
`TimersHaveCallers` (a member's timer was set by a call of that member: stopping or replacing one
spares every other member); that a stream's end leaves zero depends on `CountsMatchStreams`, an
equality of a counter with a cardinality; and `ViewsAgree` is strengthened to say what views are
while a departure is being published (`ViewsFollow`). `CountsTheorem`, `ViewsTheorem` and
`KeptTheorem` hold with and without the race of the timer; `BoundedTheorem` assumes `LateAssignment
= FALSE`, which is exactly what `timer_race` shows to be necessary.

**GamesyncStoreProofs.** Each invariant says what may differ while a call is under way.

- `OthersDocumentsStay` is about a commit, which replaces the maps by copies that were worked on for
  many steps, of which each may change an owner. `CopiesFit` says what the copies may differ in from
  the maps as they still are: every document is as it was, or was nobody's, or the caller's, or
  shared and written over by the request. It depends in turn on who can own what (`OwnersFit`):
  nobody the documents of the server, and a presence document only its own member.
  `OwnersTheorem` is the map half of the same invariant; `AtomicTheorem` follows from the locks
  alone.
- `StreamsFollowTheorem`: the views of the streams are folds over messages; one that was sent the
  committed documents shows them, and while a call publishes, it may be stale only in what that call
  has changed (`Stale`). Whether a document matches a target does not depend on its contents, so a
  change is a message to exactly those whose views it concerns. The theorem includes the types of
  the whole state, down to the fields of a document that a request is changing.
- `ControlTheorem`: the registry's flags are the control document's unless a change of them is still
  to be published. `WholeControls` is what it needs of clients: an update of that document which
  names a flag gives it a value, as the game's do. An update without the value would remove the
  field, and the registry would keep the flag.
- `NumbersTheorem`: an arriving member writes his presence document without a connection number and
  draws the number with the next operation of the same request (`WholeAnnouncements`, what the game
  sends). In between his copy has no number, and nothing is committed then. The counter is never
  below a number in use, in the maps and in the copies, so the number drawn is new (`NumberInv`).

**ServerStreamsProofs.** The parts of `ServerStreams` but for the trade streams, which
`TradeBoxProofs` is about.

- Notifications. That a pair hears one key takes several calls to go wrong: an older call of one of
  the two, paired later, would write over the slot. `PairsAreServed` rules it out: once a key has
  been drawn, no older call for that competition is still without a partner. With it the slots of a
  fresh pair hold their key (`WaitersTheorem`, `KeysTheorem`, and `DeadTheorem` for the steps). Calls
  leave the queue from any place, so the lemmas about `Without` do most of the rest.
- Delivery. What was accepted is what arrived, what is in hand and what is queued, in this order,
  until the sender ends (`NothingLost`); an ended sender has failed. Hence `NeverDropped` and the
  refinement `Implements` of `OrderedStream`. What counts against the limit of bytes is the sum of
  the sizes of what the client has not got yet (`DeliveryTheorem`), for any limits and sizes.
- `StreamsTheorem` puts them together: a step of `ServerStreams` is a step or a stutter of each.

**TitleServicesProofs.** One invariant per service.

- Rental teams: owners and documents have one domain, every code names a document, and no step
  redirects a code (`TeamCodesTheorem`, `CodesKeptTheorem`).
- Circle codes: an entry is the last promise made under its code, and a promise that has not run out
  of a room that has not ended has its entry, though codes collide, rooms end with players in them and
  nothing is ever cleaned up (`RoomCodesTheorem`).
- Competitions: the server edits messages without decoding them, and the last field of a kind counts.
  The invariant reads messages through these edits (`ReplacedFacts`: an edited message reads as
  before but for the field, whatever fields were in it and how often). Then a code leads to a
  competition with that code, references to competitions of their user, and a participant reads as
  last registered (`CodesLeadTheorem`, `ReferencesTheorem`, `StateTheorem`); no number of edits makes
  a message longer than its submission and the fields the server adds.
- Walks: a page is a stretch of a sorted set (`RankFacts`), and the token is the last name on it. The
  invariant of a walk says that nothing past the token has been shown, nothing twice, and of what has
  matched since the first page everything up to the token (`WalksTheorem`).
- Dashboard: an entry counts those who hold it, and each of the three copies contains whoever was
  there from the start of the request on (`PageTheorem`).
- Contents: what is stored was answered under its own name, and what was answered is stored or was
  deleted under its name (`ContentsTheorem`).
- `ServicesTheorem` puts types and the two small invariants together, again by projection
  (`EachAlone`).

**SequenceLemmas.** The induction theorems of the library take a predicate as a parameter, which the
provers cannot instantiate. Here an induction goes by the least number outside a set (`LeastNumber`,
`HoldsAll`), which is a theorem about sets; so functions that are defined by recursion over a queue,
`Without` and the sum of sizes, can be proved about after all.

Only model-checked: liveness (`DisconnectedDeparts`, `EndIsReported`, `FailureEndsAll`,
`PairedOrGoneReturns`, `SearchersMeet`), which is outside the prover's reach.

## Not modelled

Wire formats, logging, resource names and validation of their syntax; cryptography and the account
service; attributes and regions of rooms; nested field paths; the contents of regulations and
seasons; clocks, beyond the order of timers, the hour of a code and the ticks of names; the
transport, beyond the end of a stream at any time. Keep-alive streams (`messaging.go`), the
splitting of connections in the local front end, datagram reflectors, recording of traffic and the
RSA signature of uploads keep no state that another part reads; of the generated code only the
messages are modelled, not reflection and descriptors. `PROJECT.json` gives the reason for each.
