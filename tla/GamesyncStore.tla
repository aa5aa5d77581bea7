--------------------------- MODULE GamesyncStore ---------------------------
(***************************************************************************)
(* The documents of a room: who may write what, commits of several         *)
(* operations at once, what an expired session takes with it, and what     *)
(* the streams of the room are told (src/gamesync_store.go, the            *)
(* subscribers of src/gamesync.go).                                        *)
(*                                                                         *)
(* Two locks order everything: publication, held by whatever changes what  *)
(* subscribers see until they have been told, and g.mu, which guards the   *)
(* maps and is released before that.  WriteDocuments works on copies: the  *)
(* variable work is a call inside g.mu, one operation per step, and        *)
(* publishing is a call that holds publication only.                       *)
(*                                                                         *)
(* The room is one of the registry's (module Matchmaking has the ways in). *)
(* When a session expires is the business of GamesyncLifecycle: here it    *)
(* may whenever it has no stream.  A stream holds what the messages sent   *)
(* to it so far add up to; GamesyncDelivery shows that they arrive in      *)
(* order or the stream ends.                                               *)
(***************************************************************************)
EXTENDS GamesyncMessages, SequencesExt, Queues

CONSTANTS
    Host,              (* who sits in the room first                       *)
    IsRaid,            (* is its configuration RaidPublic?                 *)
    Capacity,          (* MaxParticipantCount                              *)
    Requests,          (* the WriteDocuments requests clients may make     *)
    Targets,           (* the targets their streams may ask for            *)
    MaxOperations,     (* operations per request (256 in the code)         *)
    MinInt, MaxInt,    (* the range of int64                               *)
    MaxStreams, MaxClock   (* bounds: streams, commits                     *)

ASSUME RoomAssumption ==
    Host \in Member /\ IsRaid \in BOOLEAN /\ Capacity \in Nat \ {0}
ASSUME RequestAssumption ==
    Requests \subseteq WriteDocumentsRequest /\ Targets \subseteq Target
ASSUME FiniteAssumption == IsFiniteSet(Member) /\ IsFiniteSet(Targets)
ASSUME StoreBounds ==
    {MaxOperations, MaxInt, MaxStreams, MaxClock} \subseteq Nat /\ MinInt \in Int

Stream == 1..MaxStreams
StreamRequests ==
    {[of |-> u, update |-> [target |-> t]] : u \in Member, t \in Targets}
        \cup {[of |-> u, delete |-> [name |-> t]] : u \in Member, t \in Targets}
ASSUME StreamRequestAssumption == StreamRequests \subseteq KeepUserSessionRequest

VARIABLES
    room,              (* registry: [seats, open, public, active]          *)
    clock,             (* commits so far: timestamppb.Now()                *)
    docs,              (* g.documents of the room; None where there is none *)
    owners,            (* g.owners of the room                             *)
    globals,           (* g.globalValues of the room: __upcsidn            *)
    deferments,        (* g.deferments: member -> name -> deferment        *)
    sessions,          (* the keys of g.sessions                           *)
    nextSequence,      (* g.nextSequence of the room                       *)
    sequence,          (* session.Sequence, 0 before there was one         *)
    token,             (* IssueToken of each member: what it knows         *)
    writer,            (* WriteDocuments of each member: authorized request *)
    work,              (* the call inside g.mu, with its copies, or None   *)
    publishing,        (* the call that holds publication only, or None    *)
    streams,           (* KeepUserSession: [of, state]                     *)
    sent               (* stream -> target -> what it was sent, or None    *)

committed == <<docs, owners, globals, deferments>>
told == <<streams, sent>>
known == <<sessions, nextSequence, sequence>>
vars == <<room, clock, committed, known, token, writer, work, publishing, told>>

Seated(u) == \E i \in DOMAIN room.seats : room.seats[i] = u
Locked == work # None                       (* g.mu is held *)
Publishing == Locked \/ publishing # None   (* publication is held *)
Call == [step : {"none", "checked", "seeded"}, first : Member, open : BOOLEAN, public : BOOLEAN]
NoCall == [step |-> "none", first |-> Host, open |-> FALSE, public |-> FALSE]
View == [DocumentName -> DocumentOrNone]

Copies ==
    [request : Requests, at : Nat, docs : View, owners : [DocumentName -> Member \cup {None}],
     globals : Value \cup {None}, deferments : [DefermentName -> Deferment \cup {None}],
     changed : SUBSET DocumentName, results : Seq(WriteResult)]
Publication ==
    [step : {"commit", "depart", "check", "reopened", "tell"}, by : Member,
     changed : SUBSET DocumentName, response : WriteDocumentsResponse \cup {None}]
ASSUME PublicationAssumption == None \notin Publication

TypeOK ==
    /\ room \in [seats : Seq(Member), open : BOOLEAN, public : BOOLEAN, active : BOOLEAN]
    /\ clock \in 0..MaxClock
    /\ docs \in View
    /\ owners \in [DocumentName -> Member \cup {None}]
    /\ globals \in Value \cup {None}
    /\ deferments \in [Member -> [DefermentName -> Deferment \cup {None}]]
    /\ sessions \subseteq Member
    /\ nextSequence \in Nat /\ sequence \in [Member -> 0..nextSequence]
    /\ token \in [Member -> Call]
    /\ writer \in [Member -> Requests \cup {None}]
    /\ work \in Copies \cup {None}
    /\ publishing \in Publication \cup {None}
    /\ streams \in [Stream -> [of : Member \cup {None}, state : {"idle", "open", "failed", "closed"}]]
    /\ sent \in [Stream -> [Targets -> View \cup {None}]]

Nothing == [n \in DocumentName |-> None]

Init ==
    /\ room = [seats |-> <<Host>>, open |-> TRUE, public |-> TRUE, active |-> TRUE]
    /\ clock = 0
    /\ docs = Nothing /\ owners = Nothing /\ globals = None
    /\ deferments = [u \in Member |-> [d \in DefermentName |-> None]]
    /\ sessions = {} /\ nextSequence = 0 /\ sequence = [u \in Member |-> 0]
    /\ token = [u \in Member |-> NoCall] /\ writer = [u \in Member |-> None]
    /\ work = None /\ publishing = None
    /\ streams = [s \in Stream |-> [of |-> None, state |-> "idle"]]
    /\ sent = [s \in Stream |-> [t \in Targets |-> None]]

-----------------------------------------------------------------------------
(* Subscribers *)

(* committedSnapshot: what a target shows of the documents d. *)
Shown(t, d) == [n \in DocumentName |-> IF Matches(t, n) THEN d[n] ELSE None]

Change(t, type, n, d) == [target |-> t, type |-> type, name |-> n, document |-> d[n]]

(* What a client makes of a message: a target that starts again is empty   *)
(* until its documents are sent; LISTED ends them.                         *)
Heard(view, m) ==
    IF "name" \in DOMAIN m THEN [view EXCEPT ![m.target][m.name] = m.document]
    ELSE CASE m.type = "UPDATED" -> [view EXCEPT ![m.target] = Nothing]
           [] m.type = "DELETED" -> [view EXCEPT ![m.target] = None]
           [] m.type = "LISTED"  -> view

(* And of several, one after another. *)
HeardAll(view, messages) ==
    LET heard[i \in 0..Len(messages)] ==
            IF i = 0 THEN view ELSE Heard(heard[i - 1], messages[i])
    IN  heard[Len(messages)]

(* The messages of installTarget. *)
Installed(t) ==
    LET there == {n \in DocumentName : Shown(t, docs)[n] # None}
    IN  <<[target |-> t, type |-> "UPDATED"]>>
            \o SetToSeq({Change(t, "EXIST", n, docs) : n \in there})
            \o <<[target |-> t, type |-> "LISTED"]>>

(* The messages of publish and publishDeleted of the documents named, as   *)
(* they are in d, to the targets a stream follows.                         *)
Changes(s, names, d) ==
    SetToSeq({Change(x[1], IF d[x[2]] = None THEN "DELETED" ELSE "UPDATED", x[2], d) :
                 x \in {y \in Targets \X names : sent[s][y[1]] # None /\ Matches(y[1], y[2])}})

(* They go to every stream of the room.  The delivery of a stream may be   *)
(* full: then it is told no more and will end.                             *)
Publish(names, d) ==
    /\ sent' = [s \in Stream |-> HeardAll(sent[s], Changes(s, names, d))]
    /\ \E full \in SUBSET {s \in Stream : streams[s].state = "open"} :
          streams' = [s \in Stream |->
             IF s \in full THEN [streams[s] EXCEPT !.state = "failed"] ELSE streams[s]]

(* KeepUserSession up to streamStarted.  *)
OpenStream(s, u) ==
    /\ streams[s].state = "idle" /\ \A r \in 1..(s - 1) : streams[r].state # "idle"
    /\ ~ Locked /\ u \in sessions
    /\ streams' = [streams EXCEPT ![s] = [of |-> u, state |-> "open"]]
    /\ UNCHANGED <<room, clock, committed, known, token, writer, work, publishing, sent>>

(* KeepUserSession receives a request that names its own session.  The     *)
(* snapshot of a target is read and sent under the publication lock, the   *)
(* deletion takes the subscriber's own mutex only.  (An echo is answered.) *)
Receive(s, r) ==
    /\ streams[s].state = "open" /\ streams[s].of = r.of /\ r.of \in sessions
    /\ \/ /\ "update" \in DOMAIN r /\ ~ Publishing
          /\ sent' = [sent EXCEPT ![s] = HeardAll(@, Installed(r.update.target))]
       \/ /\ "delete" \in DOMAIN r /\ ~ Locked /\ sent[s][r.delete.name] # None
          /\ sent' = [sent EXCEPT ![s] =
                Heard(@, [target |-> r.delete.name, type |-> "DELETED"])]
    /\ UNCHANGED <<room, clock, committed, known, token, writer, work, publishing, streams>>

(* The handler returns: its client closed, its delivery failed, or its     *)
(* session is gone.                                                        *)
CloseStream(s) ==
    /\ streams[s].state \in {"open", "failed"} /\ ~ Locked
    /\ streams' = [streams EXCEPT ![s].state = "closed"]
    /\ sent' = [sent EXCEPT ![s] = [t \in Targets |-> None]]
    /\ UNCHANGED <<room, clock, committed, known, token, writer, work, publishing>>

-----------------------------------------------------------------------------
(* Reads *)

(* maskedDocument *)
Masked(doc, mask) ==
    IF mask = Everything THEN doc
    ELSE [doc EXCEPT !.fields = [f \in FieldName |-> IF f \in mask THEN @[f] ELSE None]]

(* GetDocument: None is NotFound, also for who has no session. *)
GetDocument(u, r) ==
    IF u \in sessions /\ docs[r.name] # None THEN Masked(docs[r.name], r.mask) ELSE None

(* ReadDocuments, of a member with a session. *)
ReadDocuments(r) ==
    [results |-> [i \in DOMAIN r.names |->
        IF docs[r.names[i]] = None THEN [missing |-> r.names[i]]
        ELSE [found |-> Masked(docs[r.names[i]], r.mask)]]]

-----------------------------------------------------------------------------
(* IssueToken *)

(* Any way into the room; a user session is never given twice. *)
Admit(u) ==
    /\ ~ Seated(u) /\ sequence[u] = 0 /\ u # Host
    /\ room.active /\ room.open /\ Len(room.seats) < Capacity
    /\ room' = [room EXCEPT !.seats = Append(@, u)]
    /\ UNCHANGED <<clock, committed, known, token, writer, work, publishing, told>>

(* The request names the session of its match token, which sits in the     *)
(* room (registry.member): the room as it is now, in a copy.               *)
CheckMember(r) ==
    LET u == r.session IN
    /\ r.token = u /\ Seated(u) /\ token[u] = NoCall
    /\ token' = [token EXCEPT ![u] = [step |-> "checked", first |-> room.seats[1],
                                      open |-> room.open, public |-> room.public]]
    /\ UNCHANGED <<room, clock, committed, known, writer, work, publishing, told>>

(* initializeFixedData: the first of a room writes the fixed data and the  *)
(* control document, which belongs to the first seat of that copy.         *)
InitializeFixedData(u) ==
    /\ token[u].step = "checked" /\ ~ Locked /\ clock < MaxClock
    /\ token' = [token EXCEPT ![u] = [NoCall EXCEPT !.step = "seeded"]]
    /\ IF docs[FixedDoc] # None THEN UNCHANGED <<docs, owners, clock>>
       ELSE /\ docs' = [docs EXCEPT
                  ![FixedDoc] = [fields |-> NoFields, updateTime |-> clock + 1],
                  ![ControlDoc] =
                     [fields |-> [NoFields EXCEPT !["cp"] = Boolean(token[u].open),
                                                  !["ip"] = Boolean(token[u].public),
                                                  !["ebf"] = Boolean(FALSE)],
                      updateTime |-> clock + 1]]
            /\ owners' = [owners EXCEPT ![ControlDoc] = token[u].first]
            /\ clock' = clock + 1
    /\ UNCHANGED <<room, globals, deferments, known, writer, work, publishing, told>>

(* observedUserSessionDocument *)
SessionFields(u) == [NoFields EXCEPT !["id"] = String(u)]

(* rememberSession: a new session gets the next sequence and its document, *)
(* and the room is told.  A refreshed one writes the same document again.  *)
Remember(u) ==
    /\ token[u].step = "seeded" /\ ~ Publishing
    /\ token' = [token EXCEPT ![u] = NoCall]
    /\ IF u \in sessions THEN UNCHANGED <<known, docs, clock, told>>
       ELSE /\ clock < MaxClock /\ clock' = clock + 1
            /\ sessions' = sessions \cup {u}
            /\ nextSequence' = nextSequence + 1
            /\ sequence' = [sequence EXCEPT ![u] = nextSequence + 1]
            /\ docs' = [docs EXCEPT ![SessionDoc(u)] =
                          [fields |-> SessionFields(u), updateTime |-> clock + 1]]
            /\ Publish({SessionDoc(u)}, docs')
    /\ UNCHANGED <<room, owners, globals, deferments, writer, work, publishing>>

-----------------------------------------------------------------------------
(* WriteDocuments: who may write what *)

(* checkPrecondition; None is no condition. *)
Holds(p, doc) ==
    \/ p = None
    \/ p # None /\ "exists" \in DOMAIN p /\ p.exists = (doc # None)
    \/ p # None /\ "updateTime" \in DOMAIN p /\ doc # None /\ doc.updateTime = p.updateTime

IsBoolean(v) == v # None => "boolean" \in DOMAIN v
IsBytes(v) == v # None /\ "bytes" \in DOMAIN v
Present(f) == {k \in FieldName : f[k] # None}

(* validateRankedBattleReport, and validateRankedBattleStart: the fields   *)
(* of the family and no others.                                            *)
ValidReport(f) == Present(f) = {"result", "pl"} /\ IsBytes(f["pl"])
ValidStart(f)  == Present(f) = {"id"}

(* writableDocument: may u write fields (None: delete) to name, owned by   *)
(* o[name] and now doc?                                                    *)
Writable(name, fields, u, o, doc) ==
    CASE name[1] = "__mt" ->
            IF fields = None THEN o[name] = u
            ELSE /\ Present(fields) = {"lu", "ru"}
                 /\ fields["lu"] = String(u)
                 /\ \E v \in sessions : fields["ru"] = String(v)
      [] name[1] = "__gs" ->
            /\ name = ControlDoc /\ fields # None /\ o[name] = u
            /\ Present(fields) \subseteq {"cp", "ebf", "ip"}
            /\ \A k \in FieldName : IsBoolean(fields[k])
      [] name[1] = "__pus" ->
            name[2] = u /\ (fields # None => fields["id"] = String(u))
      [] name[1] \in {"__stu", "__stg"} ->
            /\ name[1] = "__stu" => name[2] \in sessions
            /\ IF fields = None THEN o[name] = u
               ELSE fields["id"] = String(u) /\ IsBytes(fields["pl"])
      [] name[1] = "@@battleStart" ->
            IF fields = None THEN o[name] = u
            ELSE (doc # None => o[name] = u) /\ ValidStart(fields)
      [] name[1] = "@@battleReport" ->
            /\ name[2] = sequence[u]
            /\ IF fields = None THEN o[name] = u
               ELSE (doc # None => o[name] = u) /\ ValidReport(fields)
      [] OTHER -> FALSE

(* defermentBelongsToSession *)
BelongsTo(d, u) == d[1] = "current" \/ d[1] = u

-----------------------------------------------------------------------------
(* WriteDocuments: transforms *)

AsInteger(v) == IF v = None THEN 0 ELSE v.integer
IntegerOrNone(v) == v = None \/ "integer" \in DOMAIN v
Bounded(n) == MinInt <= n /\ n <= MaxInt
Greater(a, b) == IF a > b THEN a ELSE b
Lesser(a, b) == IF a < b THEN a ELSE b

(* Mutant: the counter is read, and never stored. *)
TransformWithoutStore(acc, t, now) ==
    LET v == acc.fields[t.field]
        loaded == IF acc.globals # None THEN acc.globals ELSE IF v # None THEN v ELSE Integer(0)
    IN  IF "load" \in DOMAIN t THEN [acc EXCEPT !.fields[t.field] = loaded]
        ELSE IF "increment" \in DOMAIN t
        THEN [acc EXCEPT !.fields[t.field] = Integer(AsInteger(v) + t.increment.integer)]
        ELSE acc

(* applyFieldTransform: acc.fields and acc.globals after the transform t;  *)
(* acc.ok is FALSE from the first one refused on.                          *)
Transform(acc, t, now) ==
    LET v == acc.fields[t.field]
        Refused == [acc EXCEPT !.ok = FALSE]
        Becomes(x) == IF x = None THEN Refused ELSE [acc EXCEPT !.fields[t.field] = x]
        Number(x, n) ==
            IF IntegerOrNone(v) /\ IntegerOrNone(x) THEN Becomes(Integer(n)) ELSE Refused
    IN  IF ~ acc.ok \/ t.field = Wildcard THEN Refused
        ELSE CASE "load" \in DOMAIN t /\ t.load = "__upcsidn" ->
                    Becomes(IF acc.globals # None THEN acc.globals
                            ELSE IF v # None THEN v ELSE Integer(0))
               [] "store" \in DOMAIN t /\ t.store = "__upcsidn" /\ v # None ->
                    [acc EXCEPT !.globals = v]
               [] "clear" \in DOMAIN t /\ t.clear = "__upcsidn" ->
                    IF v = None THEN Refused ELSE [acc EXCEPT !.globals = None]
               [] "increment" \in DOMAIN t ->
                    IF IntegerOrNone(v) /\ IntegerOrNone(t.increment)
                          /\ Bounded(AsInteger(v) + AsInteger(t.increment))
                    THEN Becomes(Integer(AsInteger(v) + AsInteger(t.increment))) ELSE Refused
               [] "maximum" \in DOMAIN t ->
                    Number(t.maximum, Greater(AsInteger(v), AsInteger(t.maximum)))
               [] "minimum" \in DOMAIN t ->
                    Number(t.minimum, Lesser(AsInteger(v), AsInteger(t.minimum)))
               [] "server" \in DOMAIN t /\ t.server = "REQUEST_TIME" -> Becomes(Timestamp(now))
               [] OTHER -> Refused

(* A transform answers what it leaves in its field. *)
Transformed(acc, t) ==
    LET next == Transform(acc, t, clock + 1)
    IN  IF next.ok THEN [next EXCEPT !.values = Append(@, next.fields[t.field])] ELSE next

(* applyTransforms: one after another. *)
TransformAll(first, transforms) ==
    LET after[i \in 0..Len(transforms)] ==
            IF i = 0 THEN first ELSE Transformed(after[i - 1], transforms[i])
    IN  after[Len(transforms)]

-----------------------------------------------------------------------------
(* WriteDocuments: one operation on the copies *)

NameOf(op) ==
    CASE "update" \in DOMAIN op -> op.update
      [] "merge" \in DOMAIN op -> op.merge
      [] "transform" \in DOMAIN op -> op.transform
      [] "delete" \in DOMAIN op -> op.delete
IsDelete(op) == "delete" \in DOMAIN op
Condition(op) == IF "current" \in DOMAIN op THEN op.current ELSE None

(* The outcome of op on the document it names: the fields it leaves (None: *)
(* deleted), the global, its result, and whether it is well formed.        *)
Outcome(op, w) ==
    LET doc == w.docs[NameOf(op)]
        old == IF doc = None THEN NoFields ELSE doc.fields
        Leaves(f) == [fields |-> f, globals |-> w.globals, values |-> <<>>, ok |-> TRUE]
        Refused == [Leaves(old) EXCEPT !.ok = FALSE]
    IN  CASE IsDelete(op) -> Leaves(None)
          [] "update" \in DOMAIN op ->
                IF op.fields = None THEN Refused
                ELSE IF op.mask = Everything THEN Leaves(op.fields)
                ELSE IF Wildcard \in op.mask THEN Refused
                ELSE Leaves([k \in FieldName |-> IF k \in op.mask THEN op.fields[k] ELSE old[k]])
          [] "merge" \in DOMAIN op ->
                IF op.fields = None THEN Refused
                ELSE Leaves([k \in FieldName |-> IF op.fields[k] # None THEN op.fields[k] ELSE old[k]])
          [] "transform" \in DOMAIN op ->
                IF doc = None \/ NameOf(op)[1] # "__pus" THEN Refused
                ELSE TransformAll(Leaves(old), op.transforms)

ResultOf(op, out) ==
    CASE IsDelete(op) -> [delete |-> "deleted"]
      [] "transform" \in DOMAIN op -> [transform |-> out.values]
      [] OTHER -> [update |-> "updated"]

Accepted(op, w) ==
    LET name == NameOf(op)  out == Outcome(op, w) IN
    /\ Holds(Condition(op), w.docs[name])
    /\ out.ok
    /\ Writable(name, out.fields, w.request.by, w.owners, w.docs[name])

(* The copies after op. *)
Written(op, w) ==
    LET name == NameOf(op)  out == Outcome(op, w) IN
    [w EXCEPT !.at = @ + 1,
              !.docs[name] = IF IsDelete(op) THEN None
                             ELSE [fields |-> out.fields, updateTime |-> clock + 1],
              !.owners[name] = IF IsDelete(op) THEN None ELSE w.request.by,
              !.globals = out.globals,
              !.results = Append(@, ResultOf(op, out)),
              !.changed = @ \cup {name}]

(* A deferment holds deletes of what its session may delete then. *)
DefermentAccepted(op, w) ==
    IF "undefer" \in DOMAIN op THEN BelongsTo(op.undefer, w.request.by)
    ELSE /\ BelongsTo(op.defer.name, w.request.by) /\ op.defer.writes # <<>>
         /\ \A i \in DOMAIN op.defer.writes :
               LET d == op.defer.writes[i] IN
               IsDelete(d) /\ Writable(d.delete, None, w.request.by, w.owners, w.docs[d.delete])

Deferred(op, w) ==
    IF "undefer" \in DOMAIN op
    THEN [w EXCEPT !.at = @ + 1, !.deferments[op.undefer] = None]
    ELSE [w EXCEPT !.at = @ + 1, !.deferments[op.defer.name] = op.defer]

-----------------------------------------------------------------------------
(* WriteDocuments *)

(* authorizedSession, and the limit on operations. *)
Authorize(r) ==
    /\ writer[r.by] = None /\ ~ Locked /\ r.by \in sessions
    /\ Len(r.writes) + Len(r.deferments) <= MaxOperations
    /\ writer' = [writer EXCEPT ![r.by] = r]
    /\ UNCHANGED <<room, clock, committed, known, token, work, publishing, told>>

Start(u) ==
    work' = [request |-> writer[u], at |-> 1, docs |-> docs, owners |-> owners,
             globals |-> globals, deferments |-> deferments[u], changed |-> {}, results |-> <<>>]

(* Both locks are taken and the copies made, unless the session expired    *)
(* while the call waited.                                                  *)
Begin(u) ==
    /\ writer[u] # None /\ ~ Publishing /\ clock < MaxClock
    /\ writer' = [writer EXCEPT ![u] = None]
    /\ IF u \in sessions THEN Start(u) ELSE UNCHANGED work
    /\ UNCHANGED <<room, clock, committed, known, token, publishing, told>>

Writes == work.request.writes
Deferments == work.request.deferments
InWrites == Locked /\ work.at <= Len(Writes)
InDeferments == Locked /\ ~ InWrites /\ work.at <= Len(Writes) + Len(Deferments)
Finished == Locked /\ work.at > Len(Writes) + Len(Deferments)

(* Mutant: the counter is written to the shared map at once. *)
WriteSharingGlobals ==
    /\ InWrites
    /\ LET op == Writes[work.at] IN
       /\ globals' = Outcome(op, work).globals
       /\ work' = IF Accepted(op, work) THEN Written(op, work) ELSE None
    /\ UNCHANGED <<room, clock, docs, owners, deferments, known, token, writer, publishing, told>>

(* One write; the first that is refused ends the call, without a trace. *)
Write ==
    /\ InWrites
    /\ LET op == Writes[work.at] IN
       work' = IF Accepted(op, work) THEN Written(op, work) ELSE None
    /\ UNCHANGED <<room, clock, committed, known, token, writer, publishing, told>>

Defer ==
    /\ InDeferments
    /\ LET op == Deferments[work.at - Len(Writes)] IN
       work' = IF DefermentAccepted(op, work) THEN Deferred(op, work) ELSE None
    /\ UNCHANGED <<room, clock, committed, known, token, writer, publishing, told>>

(* The copies replace the maps and g.mu is released. *)
Commit ==
    /\ Finished
    /\ docs' = work.docs /\ owners' = work.owners /\ globals' = work.globals
    /\ deferments' = [deferments EXCEPT ![work.request.by] = work.deferments]
    /\ clock' = clock + 1
    /\ work' = None
    /\ publishing' = [step |-> "commit", by |-> work.request.by, changed |-> work.changed,
                       response |-> [results |-> work.results, commitTime |-> clock + 1]]
    /\ UNCHANGED <<room, known, token, writer, told>>

(* updateRoomControl *)
Controlled(f) ==
    IF ~ room.active THEN room
    ELSE [room EXCEPT !.open = IF f["cp"] = None THEN @ ELSE f["cp"].boolean,
                      !.public = IF f["ip"] = None THEN @ ELSE f["ip"].boolean]

(* Mutant: the registry is not told. *)
PublishCommitOnly ==
    /\ publishing # None /\ publishing.step = "commit"
    /\ Publish(publishing.changed, docs)
    /\ publishing' = None
    /\ UNCHANGED <<room, clock, committed, known, token, writer, work>>

(* The registry follows the control document and the room is told.         *)
(* (matchingRankedReports and recordConsensus, which come last, are module *)
(* RankedStore.)                                                           *)
PublishCommit ==
    /\ publishing # None /\ publishing.step = "commit"
    /\ room' = IF ControlDoc \in publishing.changed /\ docs[ControlDoc] # None
               THEN Controlled(docs[ControlDoc].fields) ELSE room
    /\ Publish(publishing.changed, docs)
    /\ publishing' = None
    /\ UNCHANGED <<clock, committed, known, token, writer, work>>

-----------------------------------------------------------------------------
(* expireSession *)

OwnedBy(u) == {n \in DocumentName : owners[n] = u}

(* Deferred deletes whose document is still u's and whose condition holds. *)
DeferredBy(u) ==
    {n \in OwnedBy(u) : \E d \in DefermentName :
        /\ deferments[u][d] # None
        /\ \E i \in DOMAIN deferments[u][d].writes :
              LET op == deferments[u][d].writes[i] IN
              op.delete = n /\ Holds(op.current, docs[n])}

(* Mutant: what was addressed to the member goes with him. *)
DeletedWithMail(u) == {SessionDoc(u), MailDoc(u)} \cup DeferredBy(u) \cup OwnedBy(u)

(* Mutant: only what the client asked to have cleaned up. *)
DeletedIfDeferred(u) == {SessionDoc(u)} \cup DeferredBy(u)

DeletedWith(u) == {SessionDoc(u)} \cup DeferredBy(u) \cup OwnedBy(u)

Streaming(u) == \E s \in Stream : streams[s].of = u /\ streams[s].state \in {"open", "failed"}

Expire(u) ==
    /\ u \in sessions /\ ~ Publishing /\ ~ Streaming(u)
    /\ docs' = [n \in DocumentName |-> IF n \in DeletedWith(u) THEN None ELSE docs[n]]
    /\ owners' = [n \in DocumentName |-> IF n \in DeletedWith(u) THEN None ELSE owners[n]]
    /\ sessions' = sessions \ {u}
    /\ deferments' = [deferments EXCEPT ![u] = [d \in DefermentName |-> None]]
    /\ publishing' = [step |-> "depart", by |-> u, changed |-> DeletedWith(u),
                       response |-> None]
    /\ UNCHANGED <<room, clock, globals, nextSequence, sequence, token, writer, work, told>>

Goes(step) == publishing' = [publishing EXCEPT !.step = step]

(* registry.depart *)
Depart ==
    LET u == publishing.by
        left == Without(room.seats, {u})
        ends == left = <<>> \/ (IsRaid /\ u = Host /\ Seated(u))
    IN  /\ publishing # None /\ publishing.step = "depart"
        /\ room' = [room EXCEPT !.seats = left, !.open = @ /\ ~ ends, !.active = @ /\ ~ ends]
        /\ Goes("check")
        /\ UNCHANGED <<clock, committed, known, token, writer, work, told>>

(* registry.raidNeedsReopen *)
NeedsReopen == IsRaid /\ room.active /\ ~ room.open /\ room.seats = <<Host>>

Reopened(f) ==
    [f EXCEPT !["cp"] = Boolean(TRUE), !["ip"] = Boolean(TRUE), !["ebf"] = Boolean(FALSE)]

(* A host left alone in a closed raid: his control document opens it again. *)
CheckReopen ==
    /\ publishing # None /\ publishing.step = "check" /\ ~ Locked /\ clock < MaxClock
    /\ IF NeedsReopen /\ docs[ControlDoc] # None
       THEN /\ docs' = [docs EXCEPT ![ControlDoc] =
                          [fields |-> Reopened(@.fields), updateTime |-> clock + 1]]
            /\ clock' = clock + 1
            /\ publishing' = [publishing EXCEPT !.step = "reopened",
                                                !.changed = @ \cup {ControlDoc}]
       ELSE Goes("tell") /\ UNCHANGED <<docs, clock>>
    /\ UNCHANGED <<room, owners, globals, deferments, known, token, writer, work, told>>

(* Mutant: only the departure is told, as when the member owned nothing.   *)
PublishDeparture ==
    /\ publishing # None /\ publishing.step \in {"reopened", "tell"}
    /\ room' = IF publishing.step = "reopened" THEN Controlled(docs[ControlDoc].fields) ELSE room
    /\ Publish({SessionDoc(publishing.by)}, docs)
    /\ publishing' = None
    /\ UNCHANGED <<clock, committed, known, token, writer, work>>

(* The rest: updateRoomControl when it was, and the room is told. *)
PublishExpiry ==
    /\ publishing # None /\ publishing.step \in {"reopened", "tell"}
    /\ room' = IF publishing.step = "reopened" THEN Controlled(docs[ControlDoc].fields) ELSE room
    /\ Publish(publishing.changed, docs)
    /\ publishing' = None
    /\ UNCHANGED <<clock, committed, known, token, writer, work>>

Next ==
    \/ \E u \in Member : Admit(u) \/ InitializeFixedData(u) \/ Remember(u)
    \/ \E r \in IssueTokenRequest : CheckMember(r)
    \/ \E s \in Stream, u \in Member : OpenStream(s, u)
    \/ \E s \in Stream, r \in StreamRequests : Receive(s, r)
    \/ \E s \in Stream : CloseStream(s)
    \/ \E r \in Requests : Authorize(r)
    \/ \E u \in Member : Begin(u) \/ Expire(u)
    \/ Write \/ Defer \/ Commit \/ PublishCommit
    \/ Depart \/ CheckReopen \/ PublishExpiry

Spec == Init /\ [][Next]_vars

-----------------------------------------------------------------------------
(* SAFETY *)

(* What the messages of a stream add up to is what its member would be     *)
(* answered if he read the documents instead, for every target it follows  *)
(* and whatever interleaved: commits, arrivals, expiries and the snapshot  *)
(* of its own target.  (And all state is of its type.)                     *)
StreamsFollow ==
    /\ TypeOK
    /\ ~ Publishing =>
        \A s \in Stream : streams[s].state = "open" =>
            \A t \in Targets : sent[s][t] # None =>
                \A n \in DocumentName :
                    /\ sent[s][t][n] =
                          IF Matches(t, n)
                          THEN GetDocument(streams[s].of, [name |-> n, mask |-> Everything])
                          ELSE None
                    /\ Matches(t, n) =>
                          ReadDocuments([names |-> <<n>>, mask |-> Everything]).results[1] =
                              IF sent[s][t][n] = None THEN [missing |-> n]
                              ELSE [found |-> sent[s][t][n]]

(* Nothing a member wrote outlives his session, and the session documents  *)
(* are the sessions.  The control document may belong to a member who has  *)
(* not connected: it is seeded for whoever sits first.                     *)
NothingOutlivesItsSession ==
    /\ \A n \in DocumentName \ {ControlDoc} : owners[n] # None => owners[n] \in sessions
    /\ \A u \in Member : docs[SessionDoc(u)] # None <=> u \in sessions

Shared == {"__stu", "__stg", "__mt"}
Overwritten(ops) == {NameOf(ops[i]) : i \in {j \in DOMAIN ops : ~ IsDelete(ops[j])}}

(* A document that belongs to a member is changed and deleted by nobody    *)
(* else: not by a batch of operations, one of which may make it the        *)
(* caller's for the next, and not by another's expiry, even of the member  *)
(* it is addressed to.  Mailboxes and the traversal report may be written  *)
(* over, and only then deleted.  (A raid is reopened by the server.)       *)
OthersDocumentsStay ==
    [][\A n \in DocumentName :
         docs[n] # None /\ docs'[n] # docs[n] /\ owners[n] # None =>
             \/ /\ Finished
                /\ \/ work.request.by = owners[n]
                   \/ n[1] \in Shared /\ n \in Overwritten(Writes)
             \/ owners[n] \in sessions \ sessions'
             \/ publishing # None /\ n = ControlDoc]_vars

(* Connection numbers come from a counter the members share, by a read,    *)
(* an increment and a store in one request: no two are announced alike,    *)
(* whichever requests fail and whoever comes and goes, and the number a    *)
(* member is answered is the one the others see.                           *)
NumbersAreUnique ==
    /\ \A u, v \in Member :
          u # v /\ docs[PresenceDoc(u)] # None /\ docs[PresenceDoc(v)] # None =>
              docs[PresenceDoc(u)].fields["upcsid"] # docs[PresenceDoc(v)].fields["upcsid"]
    /\ publishing # None /\ publishing.step = "commit" =>
          LET answers == publishing.response.results IN
          \A i \in DOMAIN answers : "transform" \in DOMAIN answers[i] =>
              Last(answers[i].transform) = docs[PresenceDoc(publishing.by)].fields["upcsid"]

(* The flags that searches and joins read in the registry are those of the *)
(* control document that the room's members read.                          *)
ControlAgrees ==
    ~ Publishing /\ room.active =>
        \A u \in sessions :
            LET control == GetDocument(u, [name |-> ControlDoc, mask |-> {"cp", "ip"}]) IN
            control # None =>
                control.fields = [NoFields EXCEPT !["cp"] = Boolean(room.open),
                                                  !["ip"] = Boolean(room.public)]

(* Until a request has passed its last operation nobody can read any of    *)
(* its effects, and if it fails nobody ever will.                          *)
AllOrNothing == [][Locked /\ ~ Finished => UNCHANGED committed]_vars
=============================================================================
