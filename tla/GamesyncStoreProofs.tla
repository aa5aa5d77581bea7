------------------------- MODULE GamesyncStoreProofs -------------------------
(***************************************************************************)
(* The documents of a room, for any members, requests, streams and number  *)
(* of commits: who changes whose, what a request that fails leaves, what   *)
(* the streams are told, and the flags of the room.                        *)
(*                                                                         *)
(* What makes each part inductive is what may differ while the locks are   *)
(* held: the copies of a call inside g.mu from the maps they will replace  *)
(* (CopiesFit), the views of the streams from the documents (Stale), the   *)
(* registry's flags from the control document (ControlPending), and the    *)
(* copy of a member's presence document from the one he will have once his *)
(* number is drawn (AtDraw).  The streams need the types of all state,     *)
(* down to the fields of a document that a request has changed.            *)
(***************************************************************************)
EXTENDS GamesyncStore, SequenceLemmas

(* Owners o are members with a session, but for the control document's;    *)
(* nobody owns what only the server writes, and a presence document is its *)
(* own member's.                                                           *)
OwnersFit(o) ==
    /\ DOMAIN o = DocumentName
    /\ \A n \in DocumentName :
          /\ n # ControlDoc /\ o[n] # None => o[n] \in sessions
          /\ n[1] = "__us" \/ n = FixedDoc => o[n] = None
          /\ n[1] = "__pus" => o[n] \in {None, n[2]}

(* Of the documents d, the session documents are the sessions. *)
DocsFit(d) ==
    /\ DOMAIN d = DocumentName
    /\ \A u \in Member : d[SessionDoc(u)] # None <=> u \in sessions

(* May a call of u with these writes have changed n in its copies?  *)
MayChange(u, n, ops) ==
    \/ docs[n] = None
    \/ owners[n] \in {None, u}
    \/ n[1] \in Shared /\ n \in Overwritten(ops)

CopyFields ==
    {"request", "at", "docs", "owners", "globals", "deferments", "changed", "results"}

CopiesFit(w) ==
    /\ DOMAIN w = CopyFields
    /\ w.request \in Requests /\ w.request.by \in sessions /\ w.at \in Nat \ {0}
    /\ OwnersFit(w.owners) /\ DocsFit(w.docs)
    /\ w.docs[FixedDoc] = docs[FixedDoc]
    /\ owners[ControlDoc] = None => w.owners[ControlDoc] = None
    /\ \A n \in DocumentName :
          \/ w.docs[n] = docs[n] /\ w.owners[n] = owners[n]
          \/ MayChange(w.request.by, n, w.request.writes)

(* The control document has an owner only when it was seeded, with the     *)
(* fixed data.                                                             *)
MapsFit ==
    /\ clock \in Nat /\ sessions \subseteq Member
    /\ OwnersFit(owners) /\ DocsFit(docs)
    /\ docs[FixedDoc] = None => owners[ControlDoc] = None

WritersFit ==
    /\ DOMAIN writer = Member
    /\ \A u \in Member : writer[u] # None => writer[u] \in Requests /\ writer[u].by = u

IInv == MapsFit /\ WritersFit /\ (Locked => CopiesFit(work))

-----------------------------------------------------------------------------
(* Names *)

LEMMA Names ==
    /\ ControlDoc \in DocumentName /\ FixedDoc \in DocumentName /\ ControlDoc # FixedDoc
    /\ ControlDoc[1] = "__gs" /\ FixedDoc[1] = "__gs"
    /\ \A u \in Member : SessionDoc(u) \in DocumentName /\ SessionDoc(u)[1] = "__us"
                         /\ SessionDoc(u)[2] = u
<1>1. \A u \in Member : SessionDoc(u) \in OwnDocs(u)
  BY DEF OwnDocs
<1>2. \A u \in Member : SessionDoc(u) \in DocumentName
  BY <1>1 DEF DocumentName
<1>3. QED BY <1>2 DEF DocumentName, ControlDoc, FixedDoc, SessionDoc

LEMMA ANewDocumentIsThere ==
    ASSUME MapsFit, NEW f \in Fields
    PROVE  [fields |-> f, updateTime |-> clock + 1] # None
<1>1. [fields |-> f, updateTime |-> clock + 1] \in Document
  BY DEF MapsFit, Document
<1>2. QED BY <1>1, DocumentAssumption

LEMMA PlainFields == NoFields \in Fields /\ \A u \in Member : SessionFields(u) \in Fields
<1>1. NoFields \in Fields
  BY DEF NoFields, Fields, MapValue
<1>2. \A u \in Member : String(u) \in Value
  BY DEF String, Value
<1>3. ASSUME NEW u \in Member PROVE SessionFields(u) \in Fields
  BY <1>1, <1>2 DEF SessionFields, Fields, MapValue
<1>4. QED BY <1>1, <1>3

-----------------------------------------------------------------------------
(* One operation *)

(* What may be written is not the server's, and what a write changes is    *)
(* the caller's, or new, or shared and written over.                       *)
LEMMA WritableIsAllowed ==
    ASSUME NEW n, NEW f, NEW u, NEW o, NEW doc, Writable(n, f, u, o, doc)
    PROVE  /\ n[1] # "__us" /\ n # FixedDoc
           /\ n = ControlDoc => o[n] = u
           /\ n[1] = "__pus" => n[2] = u
           /\ \/ n[1] = "__pus"
              \/ o[n] = u
              \/ doc = None
              \/ n[1] \in Shared /\ f # None
<1>1. n[1] \in {"__mt", "__gs", "__pus", "__stu", "__stg", "@@battleStart", "@@battleReport"}
  BY DEF Writable
<1>2. CASE n[1] = "__gs"
  BY <1>2, Names DEF Writable
<1>3. CASE n[1] = "__mt"
  BY <1>3, Names DEF Writable, Shared
<1>4. CASE n[1] = "__pus"
  BY <1>4, Names DEF Writable
<1>5. CASE n[1] \in {"__stu", "__stg"}
  BY <1>5, Names DEF Writable, Shared
<1>6. CASE n[1] \in {"@@battleStart", "@@battleReport"}
  BY <1>6, Names DEF Writable
<1>7. QED BY <1>1, <1>2, <1>3, <1>4, <1>5, <1>6

LEMMA AcceptedIsAllowed ==
    ASSUME NEW op \in WriteOperation, NEW w, Accepted(op, w)
    PROVE  LET n == NameOf(op)  u == w.request.by IN
           /\ n[1] # "__us" /\ n # FixedDoc
           /\ n = ControlDoc => w.owners[n] = u
           /\ n[1] = "__pus" => n[2] = u
           /\ \/ n[1] = "__pus"
              \/ w.owners[n] = u
              \/ w.docs[n] = None
              \/ n[1] \in Shared /\ ~ IsDelete(op)
<1> DEFINE n == NameOf(op)
           f == Outcome(op, w).fields
<1>1. Writable(n, f, w.request.by, w.owners, w.docs[n])
  BY DEF Accepted
<1>2. IsDelete(op) => f = None
  <2>1. IsDelete(op) => DOMAIN op = {"delete", "current"}
    BY DEF WriteOperation, UpdateDocumentRequest, MergeDocumentRequest,
           TransformDocumentRequest, DeleteDocumentRequest, IsDelete
  <2>2. QED BY <2>1 DEF Outcome
<1> HIDE DEF f
<1>3. QED BY <1>1, <1>2, WritableIsAllowed

LEMMA CopiesOfWritten ==
    ASSUME NEW op, NEW w, DOMAIN w = CopyFields
    PROVE  LET n == NameOf(op)  v == Written(op, w) IN
           /\ DOMAIN v = CopyFields
           /\ v.request = w.request /\ v.at = w.at + 1
           /\ v.owners = [w.owners EXCEPT ![n] = IF IsDelete(op) THEN None ELSE w.request.by]
  BY DEF Written, CopyFields

LEMMA CopiesOfDeferred ==
    ASSUME NEW op, NEW w, DOMAIN w = CopyFields
    PROVE  LET v == Deferred(op, w) IN
           /\ DOMAIN v = CopyFields
           /\ v.request = w.request /\ v.at = w.at + 1
           /\ v.docs = w.docs /\ v.owners = w.owners
  BY DEF Deferred, CopyFields

(* A write keeps the copies fit. *)
LEMMA WriteKeepsCopies ==
    ASSUME MapsFit, CopiesFit(work), NEW op \in WriteOperation, Accepted(op, work),
           NEW j \in DOMAIN work.request.writes, op = work.request.writes[j]
    PROVE  CopiesFit(Written(op, work))
<1> DEFINE n == NameOf(op)
           u == work.request.by
           v == Written(op, work)
           owner == IF IsDelete(op) THEN None ELSE u
<1>0. DOMAIN work = CopyFields
  BY DEF CopiesFit
<1>1. /\ DOMAIN v = CopyFields
      /\ v.request = work.request /\ v.at = work.at + 1
      /\ v.owners = [work.owners EXCEPT ![n] = owner]
  BY <1>0, CopiesOfWritten
<1>2. /\ DOMAIN v.docs = DOMAIN work.docs
      /\ \A m \in DOMAIN work.docs : m # n => v.docs[m] = work.docs[m]
  BY <1>0 DEF Written, CopyFields
<1>3. /\ n[1] # "__us" /\ n # FixedDoc
      /\ n = ControlDoc => work.owners[n] = u
      /\ n[1] = "__pus" => n[2] = u
      /\ \/ n[1] = "__pus"
         \/ work.owners[n] = u
         \/ work.docs[n] = None
         \/ n[1] \in Shared /\ ~ IsDelete(op)
  BY AcceptedIsAllowed
<1>4. ~ IsDelete(op) => n \in Overwritten(work.request.writes)
  BY DEF Overwritten
<1>5. u \in Member /\ u # None /\ u \in sessions /\ owner \in {None, u}
  BY NoneAssumption DEF MapsFit, CopiesFit
<1> HIDE DEF n, v, owner, u
<1>6. OwnersFit(v.owners)
  BY <1>1, <1>3, <1>5 DEF CopiesFit, OwnersFit
<1>7. DocsFit(v.docs) /\ v.docs[FixedDoc] = docs[FixedDoc]
  BY <1>2, <1>3, Names DEF CopiesFit, DocsFit, MapsFit
<1>8. owners[ControlDoc] = None => v.owners[ControlDoc] = None
  BY <1>1, <1>3, <1>5, Names DEF CopiesFit, OwnersFit
<1>9. ASSUME NEW m \in DocumentName
      PROVE  \/ v.docs[m] = docs[m] /\ v.owners[m] = owners[m]
             \/ MayChange(u, m, work.request.writes)
  <2>1. CASE m # n
    BY <1>1, <1>2, <2>1 DEF CopiesFit, OwnersFit, DocsFit, u
  <2>2. CASE m = n
    <3>1. CASE n[1] = "__pus"
      BY <1>3, <2>2, <3>1 DEF MapsFit, OwnersFit, MayChange
    <3>2. CASE work.owners[n] = u \/ work.docs[n] = None
      BY <2>2, <3>2 DEF CopiesFit, MayChange, u
    <3>3. CASE n[1] \in Shared /\ ~ IsDelete(op)
      BY <1>4, <2>2, <3>3 DEF MayChange
    <3>4. QED BY <1>3, <3>1, <3>2, <3>3
  <2>3. QED BY <2>1, <2>2
<1>10. v.request \in Requests /\ v.request.by \in sessions /\ v.at \in Nat \ {0}
  BY <1>1 DEF CopiesFit
<1>11. QED BY <1>1, <1>6, <1>7, <1>8, <1>9, <1>10 DEF CopiesFit, u, v

LEMMA StartIsFit ==
    ASSUME MapsFit, WritersFit, NEW u \in Member, writer[u] # None, u \in sessions,
           Start(u)
    PROVE  CopiesFit(work')
  BY DEF Start, CopiesFit, CopyFields, MapsFit, WritersFit

-----------------------------------------------------------------------------
(* The invariant *)

LEMMA InitIInv == Init => IInv
<1> SUFFICES ASSUME Init PROVE IInv
  OBVIOUS
<1>1. MapsFit
  BY Names DEF Init, Nothing, MapsFit, OwnersFit, DocsFit
<1>2. WritersFit
  BY DEF Init, WritersFit
<1>3. QED BY <1>1, <1>2 DEF Init, IInv, Locked

(* While the maps and the sessions stay, so does what is said of them.     *)
LEMMA MapsStay ==
    ASSUME IInv, UNCHANGED <<clock, docs, owners, sessions>>
    PROVE  MapsFit' /\ \A w : CopiesFit(w) => CopiesFit(w)'
  BY DEF IInv, MapsFit, OwnersFit, DocsFit, CopiesFit, MayChange

LEMMA InitializeFixedDataIInv ==
    ASSUME IInv, NEW u \in Member, InitializeFixedData(u)
    PROVE  IInv'
<1> DEFINE t == clock + 1
           f == [NoFields EXCEPT !["cp"] = Boolean(token[u].open),
                                 !["ip"] = Boolean(token[u].public),
                                 !["ebf"] = Boolean(FALSE)]
           fixed == [fields |-> NoFields, updateTime |-> t]
           control == [fields |-> f, updateTime |-> t]
<1>1. ~ Locked /\ UNCHANGED <<sessions, writer, work>>
  BY DEF InitializeFixedData, known
<1>2. ~ Locked' /\ WritersFit'
  BY <1>1 DEF Locked, IInv, WritersFit
<1>3. CASE docs[FixedDoc] # None
  <2>1. UNCHANGED <<clock, docs, owners, sessions>>
    BY <1>1, <1>3 DEF InitializeFixedData
  <2>2. QED BY <1>2, <2>1, MapsStay DEF IInv
<1>4. CASE docs[FixedDoc] = None
  <2>1. /\ docs' = [docs EXCEPT ![FixedDoc] = fixed, ![ControlDoc] = control]
        /\ owners' = [owners EXCEPT ![ControlDoc] = token[u].first]
        /\ clock' = clock + 1
    BY <1>4 DEF InitializeFixedData
  <2>2. fixed # None
    BY ANewDocumentIsThere, PlainFields DEF IInv
  <2> HIDE DEF fixed, control
  <2>3. docs'[FixedDoc] # None
    BY <2>1, <2>2, Names DEF IInv, MapsFit, DocsFit
  <2>4. OwnersFit(owners') /\ OwnersFit(owners)'
    BY <1>1, <2>1, Names DEF IInv, MapsFit, OwnersFit
  <2>5. DocsFit(docs)'
    BY <1>1, <2>1, Names DEF IInv, MapsFit, DocsFit
  <2>6. MapsFit'
    BY <1>1, <2>1, <2>3, <2>4, <2>5 DEF IInv, MapsFit
  <2>7. QED BY <1>2, <2>6 DEF IInv
<1>5. QED BY <1>3, <1>4

LEMMA RememberIInv ==
    ASSUME IInv, NEW u \in Member, Remember(u)
    PROVE  IInv'
<1> DEFINE doc == [fields |-> SessionFields(u), updateTime |-> clock + 1]
<1>1. ~ Locked /\ UNCHANGED <<owners, writer, work>>
  BY DEF Remember, Publishing
<1>2. ~ Locked' /\ WritersFit'
  BY <1>1 DEF Locked, IInv, WritersFit
<1>3. CASE u \in sessions
  <2>1. UNCHANGED <<clock, docs, owners, sessions>>
    BY <1>1, <1>3 DEF Remember, known
  <2>2. QED BY <1>2, <2>1, MapsStay DEF IInv
<1>4. CASE u \notin sessions
  <2>1. /\ docs' = [docs EXCEPT ![SessionDoc(u)] = doc]
        /\ sessions' = sessions \cup {u} /\ clock' = clock + 1
    BY <1>4 DEF Remember
  <2>2. doc # None
    BY ANewDocumentIsThere, PlainFields DEF IInv
  <2> HIDE DEF doc
  <2>3. OwnersFit(owners)'
    BY <1>1, <2>1 DEF IInv, MapsFit, OwnersFit
  <2>4. DocsFit(docs)'
    BY <2>1, <2>2, Names DEF IInv, MapsFit, DocsFit
  <2>5. docs'[FixedDoc] = docs[FixedDoc]
    BY <2>1, Names DEF IInv, MapsFit, DocsFit
  <2>6. MapsFit'
    BY <1>1, <2>1, <2>3, <2>4, <2>5 DEF IInv, MapsFit
  <2>7. QED BY <1>2, <2>6 DEF IInv
<1>5. QED BY <1>3, <1>4

(* What goes with a member is his: his session document, which nobody      *)
(* owns, and what he owns.                                                 *)
LEMMA DeletedIsOwn ==
    ASSUME MapsFit, NEW u \in Member
    PROVE  \A n \in DeletedWith(u) : n = SessionDoc(u) \/ owners[n] = u
  BY DEF DeletedWith, DeferredBy, OwnedBy

LEMMA ExpireIInv ==
    ASSUME IInv, NEW u \in Member, Expire(u)
    PROVE  IInv'
<1>1. /\ ~ Locked /\ UNCHANGED <<clock, writer, work>>
      /\ docs' = [n \in DocumentName |-> IF n \in DeletedWith(u) THEN None ELSE docs[n]]
      /\ owners' = [n \in DocumentName |-> IF n \in DeletedWith(u) THEN None ELSE owners[n]]
      /\ sessions' = sessions \ {u}
  BY DEF Expire, Publishing
<1>2. ~ Locked' /\ WritersFit'
  BY <1>1 DEF Locked, IInv, WritersFit
<1>3. u # None
  BY NoneAssumption
<1>4. OwnersFit(owners)'
  <2>1. \A n \in DocumentName : owners[n] = u => n \in DeletedWith(u)
    BY DEF DeletedWith, OwnedBy
  <2>2. QED BY <1>1, <1>3, <2>1 DEF IInv, MapsFit, OwnersFit
<1>5. SessionDoc(u) \in DeletedWith(u)
  BY DEF DeletedWith
<1>6. \A v \in Member : v # u => SessionDoc(v) \notin DeletedWith(u)
  BY <1>3, DeletedIsOwn, Names DEF IInv, MapsFit, OwnersFit
<1>7. DocsFit(docs)'
  BY <1>1, <1>5, <1>6, Names DEF IInv, MapsFit, DocsFit
<1>8. docs'[FixedDoc] = docs[FixedDoc]
  BY <1>1, <1>3, DeletedIsOwn, Names DEF IInv, MapsFit, OwnersFit
<1>9. MapsFit'
  BY <1>1, <1>4, <1>7, <1>8, Names DEF IInv, MapsFit
<1>10. QED BY <1>2, <1>9 DEF IInv

LEMMA CheckReopenIInv ==
    ASSUME IInv, CheckReopen
    PROVE  IInv'
<1>1. /\ ~ Locked /\ UNCHANGED <<sessions, owners, writer, work>>
      /\ clock' = clock \/ clock' = clock + 1
      /\ docs' = docs \/ \E d : docs' = [docs EXCEPT ![ControlDoc] = d]
  BY DEF CheckReopen, known
<1>2. ~ Locked' /\ WritersFit'
  BY <1>1 DEF Locked, IInv, WritersFit
<1>3. OwnersFit(owners)'
  BY <1>1 DEF IInv, MapsFit, OwnersFit
<1>4. DocsFit(docs)' /\ docs'[FixedDoc] = docs[FixedDoc]
  BY <1>1, Names DEF IInv, MapsFit, DocsFit
<1>5. MapsFit'
  BY <1>1, <1>3, <1>4 DEF IInv, MapsFit
<1>6. QED BY <1>2, <1>5 DEF IInv

LEMMA CommitIInv ==
    ASSUME IInv, Commit
    PROVE  IInv'
<1>1. /\ Locked /\ UNCHANGED <<sessions, writer>> /\ work' = None
      /\ docs' = work.docs /\ owners' = work.owners /\ clock' = clock + 1
  BY DEF Commit, Finished, known
<1>2. CopiesFit(work)
  BY <1>1 DEF IInv
<1>3. OwnersFit(owners)' /\ DocsFit(docs)'
  BY <1>1, <1>2 DEF CopiesFit, OwnersFit, DocsFit
<1>4. docs'[FixedDoc] = docs[FixedDoc]
      /\ (owners[ControlDoc] = None => owners'[ControlDoc] = None)
  BY <1>1, <1>2 DEF CopiesFit
<1>5. MapsFit' /\ WritersFit'
  BY <1>1, <1>3, <1>4 DEF IInv, MapsFit, WritersFit
<1>6. QED BY <1>1, <1>5 DEF IInv, Locked

LEMMA WriteIInv ==
    ASSUME IInv, Write
    PROVE  IInv'
<1> DEFINE op == Writes[work.at]
<1>1. /\ InWrites /\ UNCHANGED <<clock, docs, owners, sessions, writer>>
      /\ work' = IF Accepted(op, work) THEN Written(op, work) ELSE None
  BY DEF Write, committed, known
<1>2. MapsFit /\ CopiesFit(work) /\ Locked
  BY <1>1 DEF IInv, InWrites
<1>3. Writes \in Seq(WriteOperation)
  BY <1>2, RequestAssumption DEF CopiesFit, Writes, WriteDocumentsRequest
<1>4. work.at \in DOMAIN Writes /\ op \in WriteOperation
  BY <1>1, <1>2, <1>3 DEF CopiesFit, InWrites
<1>5. Accepted(op, work) => CopiesFit(Written(op, work))
  BY <1>2, <1>4, WriteKeepsCopies DEF Writes
<1> HIDE DEF op
<1>6. Locked' => CopiesFit(work')
  BY <1>1, <1>5 DEF Locked
<1>7. MapsFit' /\ (CopiesFit(work') => CopiesFit(work)')
  BY <1>1, <1>2 DEF MapsFit, OwnersFit, DocsFit, CopiesFit, MayChange
<1>8. QED BY <1>1, <1>6, <1>7 DEF IInv, WritersFit

LEMMA DeferIInv ==
    ASSUME IInv, Defer
    PROVE  IInv'
<1> DEFINE op == Deferments[work.at - Len(Writes)]
<1>1. /\ Locked /\ UNCHANGED <<clock, docs, owners, sessions, writer>>
      /\ work' = IF DefermentAccepted(op, work) THEN Deferred(op, work) ELSE None
  BY DEF Defer, committed, known, InDeferments
<1>2. MapsFit /\ CopiesFit(work)
  BY <1>1 DEF IInv
<1> HIDE DEF op
<1>3. CopiesFit(Deferred(op, work))
  <2>1. DOMAIN work = CopyFields
    BY <1>2 DEF CopiesFit
  <2>2. QED BY <1>2, <2>1, CopiesOfDeferred DEF CopiesFit
<1>4. Locked' => CopiesFit(work')
  BY <1>1, <1>3 DEF Locked
<1>5. MapsFit' /\ (CopiesFit(work') => CopiesFit(work)')
  BY <1>1, <1>2 DEF MapsFit, OwnersFit, DocsFit, CopiesFit, MayChange
<1>6. QED BY <1>1, <1>4, <1>5 DEF IInv, WritersFit

LEMMA AuthorizeIInv ==
    ASSUME IInv, NEW r \in Requests, Authorize(r)
    PROVE  IInv'
<1>1. /\ ~ Locked /\ UNCHANGED <<clock, docs, owners, sessions, work>>
      /\ writer' = [writer EXCEPT ![r.by] = r]
  BY DEF Authorize, committed, known
<1>2. MapsFit'
  BY <1>1, MapsStay
<1>3. WritersFit'
  BY <1>1 DEF IInv, WritersFit
<1>4. QED BY <1>1, <1>2, <1>3 DEF IInv, Locked

LEMMA BeginIInv ==
    ASSUME IInv, NEW u \in Member, Begin(u)
    PROVE  IInv'
<1>1. /\ ~ Locked /\ UNCHANGED <<clock, docs, owners, sessions>>
      /\ writer[u] # None
      /\ writer' = [writer EXCEPT ![u] = None]
      /\ IF u \in sessions THEN Start(u) ELSE UNCHANGED work
  BY DEF Begin, committed, known, Publishing
<1>2. MapsFit' /\ \A w : CopiesFit(w) => CopiesFit(w)'
  BY <1>1, MapsStay
<1>3. WritersFit'
  BY <1>1 DEF IInv, WritersFit
<1>4. CASE u \in sessions
  <2>1. CopiesFit(work')
    BY <1>1, <1>4, StartIsFit DEF IInv
  <2>2. CopiesFit(work)'
    BY <1>1, <2>1 DEF CopiesFit, OwnersFit, DocsFit, MayChange
  <2>3. QED BY <1>2, <1>3, <2>2 DEF IInv
<1>5. CASE u \notin sessions
  BY <1>1, <1>2, <1>3, <1>5 DEF IInv, Locked
<1>6. QED BY <1>4, <1>5

(* The other steps touch neither maps nor copies nor requests. *)
Aside ==
    \/ \E u \in Member : Admit(u)
    \/ \E r \in IssueTokenRequest : CheckMember(r)
    \/ \E s \in Stream, u \in Member : OpenStream(s, u)
    \/ \E s \in Stream, r \in StreamRequests : Receive(s, r)
    \/ \E s \in Stream : CloseStream(s)
    \/ PublishCommit \/ Depart \/ PublishExpiry
    \/ UNCHANGED vars

LEMMA AsideChangesNothing ==
    ASSUME Aside
    PROVE  UNCHANGED <<clock, docs, owners, globals, deferments, sessions, writer, work>>
<1>1. CASE \E u \in Member : Admit(u)
  BY <1>1 DEF Admit, committed, known
<1>2. CASE \E r \in IssueTokenRequest : CheckMember(r)
  BY <1>2 DEF CheckMember, committed, known
<1>3. CASE \E s \in Stream, u \in Member : OpenStream(s, u)
  BY <1>3 DEF OpenStream, committed, known
<1>4. CASE \E s \in Stream, r \in StreamRequests : Receive(s, r)
  BY <1>4 DEF Receive, committed, known
<1>5. CASE \E s \in Stream : CloseStream(s)
  BY <1>5 DEF CloseStream, committed, known
<1>6. CASE PublishCommit \/ Depart \/ PublishExpiry
  BY <1>6 DEF PublishCommit, Depart, PublishExpiry, committed, known
<1>7. CASE UNCHANGED vars
  BY <1>7 DEF vars, committed, known
<1>8. QED BY <1>1, <1>2, <1>3, <1>4, <1>5, <1>6, <1>7 DEF Aside

LEMMA AsideIInv ==
    ASSUME IInv, Aside
    PROVE  IInv'
<1>1. UNCHANGED <<clock, docs, owners, sessions, writer, work>>
  BY AsideChangesNothing
<1>2. MapsFit' /\ \A w : CopiesFit(w) => CopiesFit(w)'
  BY <1>1, MapsStay
<1>3. Locked => CopiesFit(work)'
  BY <1>1, <1>2 DEF IInv, CopiesFit, OwnersFit, DocsFit, MayChange
<1>4. QED BY <1>1, <1>2, <1>3 DEF IInv, WritersFit, Locked

(* Every step, by what it may do to the documents. *)
LEMMA StepCases ==
    ASSUME [Next]_vars
    PROVE  \/ \E u \in Member : \/ InitializeFixedData(u) \/ Remember(u)
                                \/ Begin(u) \/ Expire(u)
           \/ \E r \in Requests : Authorize(r)
           \/ Write \/ Defer \/ Commit \/ CheckReopen
           \/ Aside
  BY DEF Next, Aside

LEMMA NextIInv == IInv /\ [Next]_vars => IInv'
  BY StepCases, InitializeFixedDataIInv, RememberIInv, BeginIInv, ExpireIInv,
     AuthorizeIInv, WriteIInv, DeferIInv, CommitIInv, CheckReopenIInv, AsideIInv

LEMMA InvariantTheorem == Spec => []IInv
  BY InitIInv, NextIInv, PTL DEF Spec

-----------------------------------------------------------------------------
(* Theorems *)

(* Nothing a member wrote outlives his session, and the session documents  *)
(* are the sessions.                                                       *)
THEOREM OwnersTheorem == Spec => []NothingOutlivesItsSession
<1>1. IInv => NothingOutlivesItsSession
  BY DEF IInv, MapsFit, OwnersFit, DocsFit, NothingOutlivesItsSession
<1>2. QED BY <1>1, InvariantTheorem, PTL

(* The body of OthersDocumentsStay. *)
OnlyTheirOwner ==
    \A n \in DocumentName :
         docs[n] # None /\ docs'[n] # docs[n] /\ owners[n] # None =>
             \/ /\ Finished
                /\ \/ work.request.by = owners[n]
                   \/ n[1] \in Shared /\ n \in Overwritten(Writes)
             \/ owners[n] \in sessions \ sessions'
             \/ publishing # None /\ n = ControlDoc

LEMMA StepsOfOwners ==
    ASSUME IInv, [Next]_vars
    PROVE  OnlyTheirOwner
<1>1. ASSUME NEW u \in Member, InitializeFixedData(u) PROVE OnlyTheirOwner
  BY <1>1, Names DEF InitializeFixedData, IInv, MapsFit, DocsFit, OnlyTheirOwner
<1>2. ASSUME NEW u \in Member, Remember(u) PROVE OnlyTheirOwner
  <2>1. \A n \in DocumentName : docs'[n] # docs[n] => n = SessionDoc(u)
    BY <1>2 DEF Remember, IInv, MapsFit, DocsFit
  <2>2. QED BY <2>1, Names DEF IInv, MapsFit, OwnersFit, OnlyTheirOwner
<1>3. ASSUME NEW u \in Member, Expire(u) PROVE OnlyTheirOwner
  <2>1. \A n \in DocumentName : docs'[n] # docs[n] => n \in DeletedWith(u)
    BY <1>3 DEF Expire
  <2>2. u \in sessions /\ u \notin sessions'
    BY <1>3 DEF Expire
  <2>3. QED BY <2>1, <2>2, DeletedIsOwn, Names DEF IInv, MapsFit, OwnersFit, OnlyTheirOwner
<1>4. ASSUME CheckReopen PROVE OnlyTheirOwner
  BY <1>4 DEF CheckReopen, IInv, MapsFit, DocsFit, OnlyTheirOwner
<1>5. ASSUME Commit PROVE OnlyTheirOwner
  <2>1. Finished /\ Locked /\ docs' = work.docs /\ CopiesFit(work)
    BY <1>5 DEF Commit, Finished, IInv
  <2>2. QED BY <2>1 DEF CopiesFit, MayChange, OnlyTheirOwner, Writes
<1>6. ASSUME UNCHANGED docs PROVE OnlyTheirOwner
  BY <1>6 DEF OnlyTheirOwner
<1>7. (\E u \in Member : Begin(u)) \/ (\E r \in Requests : Authorize(r)) \/ Write \/ Defer
      => UNCHANGED docs
  BY DEF Begin, Authorize, Write, Defer, committed
<1>8. QED BY <1>1, <1>2, <1>3, <1>4, <1>5, <1>6, <1>7, StepCases, AsideChangesNothing

(* A document that belongs to a member is changed and deleted by nobody    *)
(* else, whatever requests are made and however their steps interleave.    *)
THEOREM OthersTheorem == Spec => OthersDocumentsStay
<1>1. IInv /\ [Next]_vars => OnlyTheirOwner
  BY StepsOfOwners
<1>2. QED BY <1>1, InvariantTheorem, PTL DEF Spec, OthersDocumentsStay, OnlyTheirOwner

(* Until a request has passed its last operation none of its effects can   *)
(* be read.                                                                *)
THEOREM AtomicTheorem == Spec => AllOrNothing
<1>1. ASSUME [Next]_vars, Locked, ~ Finished PROVE UNCHANGED committed
  <2>1. ~ \E u \in Member : InitializeFixedData(u) \/ Remember(u) \/ Begin(u) \/ Expire(u)
    BY <1>1 DEF InitializeFixedData, Remember, Begin, Expire, Publishing
  <2>2. ~ CheckReopen /\ ~ Commit
    BY <1>1 DEF CheckReopen, Commit
  <2>3. (\E r \in Requests : Authorize(r)) \/ Write \/ Defer => UNCHANGED committed
    BY DEF Authorize, Write, Defer
  <2>4. QED BY <1>1, <2>1, <2>2, <2>3, StepCases, AsideChangesNothing DEF committed
<1>2. QED BY <1>1, PTL DEF Spec, AllOrNothing
-----------------------------------------------------------------------------
(* Finite sets, in some order *)

LEMMA ListedSet ==
    ASSUME NEW S, IsFiniteSet(S)
    PROVE  /\ SetToSeq(S) \in Seq(S)
           /\ \A x \in S : \E i \in 1..Len(SetToSeq(S)) : SetToSeq(S)[i] = x
<1> DEFINE D == 1..Cardinality(S)
<1>1. Cardinality(S) \in Nat
  BY FS_CardinalityType
<1>2. PICK f : f \in Bijection(D, S)
  BY FS_CardinalityType DEF ExistsBijection
<1>3. f \in [D -> S] /\ IsInjective(f)
  BY <1>2 DEF Bijection, Injection
<1> DEFINE q == SetToSeq(S)
<1>4. q \in [D -> S] /\ IsInjective(q)
  BY <1>3 DEF SetToSeq
<1> HIDE DEF q
<1>5. q \in Injection(D, S)
  BY <1>4 DEF Injection
<1>6. IsFiniteSet(D) /\ Cardinality(D) = Cardinality(S)
  BY <1>1, FS_Interval
<1>7. q \in Surjection(D, S)
  BY <1>5, <1>6, FS_Injection
<1>8. q \in Seq(S) /\ Len(q) = Cardinality(S)
  BY <1>1, <1>4
<1> QED BY <1>7, <1>8 DEF Surjection, q

LEMMA NamesAreFinite == IsFiniteSet(DocumentName)
<1> DEFINE f == [u \in Member |-> OwnDocs(u)]
           own == {f[u] : u \in Member}
           room7 == {ControlDoc, FixedDoc, MetricsDoc, StartDoc, GroupDoc, ReportDoc(1), ReportDoc(2)}
<1>1. f \in Surjection(Member, own)
  BY DEF Surjection
<1>2. IsFiniteSet(own)
  BY <1>1, FS_Surjection, FiniteAssumption
<1>3. ASSUME NEW u \in Member PROVE IsFiniteSet(OwnDocs(u))
  <2>1. IsFiniteSet({MailDoc(u)})
    BY FS_Singleton
  <2>2. IsFiniteSet({MailDoc(u)} \cup {PresenceDoc(u)})
    BY <2>1, FS_AddElement
  <2>3. IsFiniteSet({MailDoc(u)} \cup {PresenceDoc(u)} \cup {SessionDoc(u)})
    BY <2>2, FS_AddElement
  <2>4. OwnDocs(u) = {MailDoc(u)} \cup {PresenceDoc(u)} \cup {SessionDoc(u)}
    BY DEF OwnDocs
  <2> QED BY <2>3, <2>4
<1>4. IsFiniteSet(UNION own)
  BY <1>2, <1>3, FS_UNION
<1>5. IsFiniteSet(room7)
  <2>1. ASSUME NEW S, IsFiniteSet(S), NEW x PROVE IsFiniteSet(S \cup {x})
    BY <2>1, FS_AddElement
  <2>2. IsFiniteSet({} \cup {ControlDoc} \cup {FixedDoc} \cup {MetricsDoc} \cup {StartDoc})
    BY <2>1, FS_EmptySet
  <2>3. IsFiniteSet({} \cup {ControlDoc} \cup {FixedDoc} \cup {MetricsDoc} \cup {StartDoc}
                       \cup {GroupDoc} \cup {ReportDoc(1)} \cup {ReportDoc(2)})
    BY <2>1, <2>2
  <2>4. room7 = {} \cup {ControlDoc} \cup {FixedDoc} \cup {MetricsDoc} \cup {StartDoc}
                  \cup {GroupDoc} \cup {ReportDoc(1)} \cup {ReportDoc(2)}
    OBVIOUS
  <2> QED BY <2>3, <2>4
<1>6. DocumentName = room7 \cup UNION own
  BY DEF DocumentName
<1> QED BY <1>4, <1>5, <1>6, FS_Union

-----------------------------------------------------------------------------
(* What messages add up to *)

Hears(heard, view, messages, n) ==
    heard = [i \in 0..n |-> IF i = 0 THEN view ELSE Heard(heard[i - 1], messages[i])]

LEMMA HearingExists ==
    ASSUME NEW view, NEW messages, NEW n \in Nat
    PROVE  \E heard : Hears(heard, view, messages, n)
<1> DEFINE T == {m \in Nat : \E heard : Hears(heard, view, messages, m)}
<1>1. 0 \in T
  <2> DEFINE heard == [i \in 0..0 |-> view]
  <2>1. Hears(heard, view, messages, 0)
    BY DEF Hears
  <2> QED BY <2>1
<1>2. ASSUME NEW m \in Nat, m \in T PROVE m + 1 \in T
  <2>1. PICK heard : Hears(heard, view, messages, m)
    BY <1>2
  <2> DEFINE last == Heard(heard[m], messages[m + 1])
             more == [i \in 0..(m + 1) |-> IF i <= m THEN heard[i] ELSE last]
             Step(f, i) == IF i = 0 THEN view ELSE Heard(f[i - 1], messages[i])
  <2>2. ASSUME NEW i \in 0..(m + 1) PROVE more[i] = Step(more, i)
    <3>1. CASE i = m + 1
      BY <3>1
    <3>2. CASE i # m + 1
      <4>1. i \in 0..m /\ (i # 0 => i - 1 \in 0..m)
        BY <3>2
      <4>2. heard[i] = Step(heard, i)
        BY <2>1, <4>1 DEF Hears
      <4>3. more[i] = heard[i] /\ (i # 0 => more[i - 1] = heard[i - 1])
        BY <4>1
      <4> QED BY <4>2, <4>3
    <3> QED BY <3>1, <3>2
  <2>3. Hears(more, view, messages, m + 1)
    BY <2>2 DEF Hears
  <2> QED BY <2>3
<1> HIDE DEF T
<1>3. n \in T
  BY <1>1, <1>2, HoldsAll
<1> QED BY <1>3 DEF T

LEMMA HeardSteps ==
    ASSUME NEW view, NEW messages, Len(messages) \in Nat
    PROVE  \E heard : /\ heard[0] = view
                      /\ \A i \in 1..Len(messages) :
                            heard[i] = Heard(heard[i - 1], messages[i])
                      /\ HeardAll(view, messages) = heard[Len(messages)]
<1> DEFINE heard == CHOOSE f : Hears(f, view, messages, Len(messages))
<1>1. Hears(heard, view, messages, Len(messages))
  BY HearingExists
<1>2. HeardAll(view, messages) = heard[Len(messages)]
  BY DEF HeardAll, Hears
<1> HIDE DEF heard
<1>3. heard[0] = view
  BY <1>1 DEF Hears
<1>4. ASSUME NEW i \in 1..Len(messages)
      PROVE  heard[i] = Heard(heard[i - 1], messages[i])
  <2>1. i \in 0..Len(messages) /\ i # 0
    OBVIOUS
  <2> QED BY <1>1, <2>1 DEF Hears
<1> QED BY <1>2, <1>3, <1>4

(* The documents of d are told to a view: c is such a message. *)
Tells(c, view, d) ==
    /\ DOMAIN c = {"target", "type", "name", "document"}
    /\ c.target \in Targets /\ c.name \in DocumentName /\ c.document = d[c.name]
    /\ view[c.target] \in View

(* After changes that tell documents of d, the view shows those of d where *)
(* one of them names it, and what it showed elsewhere.                     *)
AddsUp(v, view, d, messages, a, b) ==
    /\ v \in [Targets -> View \cup {None}]
    /\ \A t \in Targets :
         /\ v[t] \in View <=> view[t] \in View
         /\ view[t] \in View => \A n \in DocumentName :
              v[t][n] = IF \E i \in (a + 1)..b : messages[i].target = t /\ messages[i].name = n
                        THEN d[n] ELSE view[t][n]
         /\ view[t] \notin View => v[t] = view[t]

LEMMA ChangesAddUp ==
    ASSUME NEW d \in View, NEW view \in [Targets -> View \cup {None}], NEW heard, NEW messages,
           NEW a \in Nat, NEW b \in Nat, a <= b, heard[a] = view,
           \A i \in (a + 1)..b : Tells(messages[i], view, d)
                                 /\ heard[i] = Heard(heard[i - 1], messages[i])
    PROVE  AddsUp(heard[b], view, d, messages, a, b)
<1> DEFINE P(k) == AddsUp(heard[k], view, d, messages, a, k)
           T == {k \in Nat : a + k <= b => P(a + k)}
<1>1. 0 \in T
  <2>1. a + 0 = a /\ (a + 1)..a = {}
    OBVIOUS
  <2>2. P(a)
    BY <2>1 DEF AddsUp
  <2> QED BY <2>1, <2>2
<1>2. ASSUME NEW k \in Nat, k \in T PROVE k + 1 \in T
  <2> SUFFICES ASSUME a + (k + 1) <= b PROVE P(a + (k + 1))
    OBVIOUS
  <2> DEFINE j == a + k  c == messages[j + 1]
  <2>1. j \in Nat /\ a + (k + 1) = j + 1 /\ j + 1 \in (a + 1)..b /\ j + 1 - 1 = j /\ j <= b
    OBVIOUS
  <2>2. P(j)
    BY <1>2, <2>1
  <2>3. Tells(c, view, d) /\ heard[j + 1] = Heard(heard[j], c)
    BY <2>1
  <2>4. heard[j + 1] = [heard[j] EXCEPT ![c.target][c.name] = d[c.name]]
    BY <2>3 DEF Heard, Tells
  <2>5. d[c.name] \in DocumentOrNone /\ c.target \in Targets /\ c.name \in DocumentName
        /\ heard[j][c.target] \in View
    BY <2>2, <2>3 DEF Tells, View, AddsUp
  <2>6. \A i : i \in (a + 1)..(j + 1) <=> i \in (a + 1)..j \/ i = j + 1
    BY <2>1
  <2> HIDE DEF j, c, P
  <2>7. heard[j + 1] \in [Targets -> View \cup {None}]
    BY <2>2, <2>4, <2>5 DEF P, AddsUp, View
  <2>8. ASSUME NEW t \in Targets
        PROVE  /\ heard[j + 1][t] \in View <=> view[t] \in View
               /\ view[t] \in View => \A n \in DocumentName :
                     heard[j + 1][t][n] = IF \E i \in (a + 1)..(j + 1) :
                                           messages[i].target = t /\ messages[i].name = n
                                      THEN d[n] ELSE view[t][n]
               /\ view[t] \notin View => heard[j + 1][t] = view[t]
    <3>1. CASE t # c.target
      <4>1. heard[j + 1][t] = heard[j][t]
        BY <2>2, <2>4, <2>5, <3>1 DEF P, AddsUp
      <4> QED BY <2>2, <2>6, <3>1, <4>1 DEF P, AddsUp, c
    <3>2. CASE t = c.target
      <4>1. heard[j + 1][t] = [heard[j][t] EXCEPT ![c.name] = d[c.name]]
        BY <2>2, <2>4, <2>5, <3>2 DEF P, AddsUp
      <4>2. heard[j + 1][t] \in View /\ view[t] \in View
        BY <2>3, <2>5, <3>2, <4>1 DEF View, Tells
      <4>3. ASSUME NEW n \in DocumentName
            PROVE  heard[j + 1][t][n] = IF \E i \in (a + 1)..(j + 1) :
                                           messages[i].target = t /\ messages[i].name = n
                                      THEN d[n] ELSE view[t][n]
        <5>1. CASE n = c.name
          BY <2>5, <2>6, <3>2, <4>1, <5>1 DEF c, View
        <5>2. CASE n # c.name
          <6>1. heard[j + 1][t][n] = heard[j][t][n]
            BY <2>5, <3>2, <4>1, <5>2 DEF View
          <6> QED BY <2>2, <2>6, <4>2, <5>2, <6>1 DEF P, AddsUp, c
        <5> QED BY <5>1, <5>2
      <4> QED BY <4>2, <4>3
    <3> QED BY <3>1, <3>2
  <2> QED BY <2>1, <2>7, <2>8 DEF P, AddsUp
<1> HIDE DEF T
<1>3. b - a \in Nat /\ a + (b - a) = b
  OBVIOUS
<1>4. b - a \in T
  BY <1>1, <1>2, <1>3, HoldsAll
<1> HIDE DEF P
<1>5. P(b)
  BY <1>3, <1>4 DEF T
<1> QED BY <1>5 DEF P

Views == [Targets -> View \cup {None}]

(* What a view of a stream is after the changes of names have been told.   *)
LEMMA ToldChanges ==
    ASSUME NEW s, NEW d \in View, NEW names \in SUBSET DocumentName, sent[s] \in Views
    PROVE  LET v == HeardAll(sent[s], Changes(s, names, d)) IN
           /\ v \in Views
           /\ \A t \in Targets :
                /\ sent[s][t] = None => v[t] = None
                /\ sent[s][t] # None =>
                      /\ v[t] \in View
                      /\ \A n \in DocumentName :
                           v[t][n] = IF n \in names /\ Matches(t, n) THEN d[n] ELSE sent[s][t][n]
<1> DEFINE Z == {y \in Targets \X names : sent[s][y[1]] # None /\ Matches(y[1], y[2])}
           type(n) == IF d[n] = None THEN "DELETED" ELSE "UPDATED"
           f == [x \in Z |-> Change(x[1], type(x[2]), x[2], d)]
           S == {Change(x[1], type(x[2]), x[2], d) : x \in Z}
           m == SetToSeq(S)
           view == sent[s]
<1>1. IsFiniteSet(S)
  <2>1. IsFiniteSet(names)
    BY NamesAreFinite, FS_Subset
  <2>2. IsFiniteSet(Targets \X names)
    BY <2>1, FiniteAssumption, FS_Product
  <2>3. IsFiniteSet(Z)
    BY <2>2, FS_Subset
  <2>4. f \in Surjection(Z, S)
    BY DEF Surjection
  <2> HIDE DEF f, S, Z
  <2> QED BY <2>3, <2>4, FS_Surjection
<1>2. Changes(s, names, d) = m
  BY DEF Changes
<1>3. m \in Seq(S) /\ \A c \in S : \E i \in 1..Len(m) : m[i] = c
  BY <1>1, ListedSet
<1>4. \A c \in S : Tells(c, view, d)
  BY DEF Tells, Change, Views
<1>5. \A t \in Targets, n \in DocumentName :
        (\E c \in S : c.target = t /\ c.name = n) <=> view[t] # None /\ n \in names /\ Matches(t, n)
  <2>1. \A x \in Z : LET c == Change(x[1], type(x[2]), x[2], d) IN c.target = x[1] /\ c.name = x[2]
    BY DEF Change
  <2> HIDE DEF type
  <2>2. \A t \in Targets, n \in names : view[t] # None /\ Matches(t, n) => <<t, n>> \in Z
    OBVIOUS
  <2> HIDE DEF Z
  <2>3. ASSUME NEW t \in Targets, NEW n \in DocumentName, view[t] # None, n \in names, Matches(t, n)
        PROVE  \E c \in S : c.target = t /\ c.name = n
    <3>1. <<t, n>> \in Z
      BY <2>2, <2>3
    <3>2. Change(t, type(n), n, d) \in S
      BY <3>1
    <3> QED BY <3>2 DEF Change
  <2>4. ASSUME NEW t \in Targets, NEW n \in DocumentName, NEW c \in S, c.target = t, c.name = n
        PROVE  view[t] # None /\ n \in names /\ Matches(t, n)
    <3>1. PICK x \in Z : c = Change(x[1], type(x[2]), x[2], d)
      OBVIOUS
    <3>2. t = x[1] /\ n = x[2]
      BY <2>1, <2>4, <3>1
    <3> QED BY <3>1, <3>2 DEF Z
  <2> QED BY <2>3, <2>4
<1> HIDE DEF S, m, Z, type, f
<1>6. Len(m) \in Nat
  BY <1>3
<1>7. PICK heard : /\ heard[0] = view
                   /\ \A i \in 1..Len(m) : heard[i] = Heard(heard[i - 1], m[i])
                   /\ HeardAll(view, m) = heard[Len(m)]
  BY <1>6, HeardSteps
<1>8. ASSUME NEW i \in (0 + 1)..Len(m)
      PROVE  Tells(m[i], view, d) /\ heard[i] = Heard(heard[i - 1], m[i])
  <2>1. i \in 1..Len(m) /\ m[i] \in S
    BY <1>3
  <2> QED BY <1>4, <1>7, <2>1
<1> DEFINE v == heard[Len(m)]
<1>9. AddsUp(v, view, d, m, 0, Len(m))
  <2> HIDE DEF view
  <2>1. 0 \in Nat /\ 0 <= Len(m) /\ heard[0] = view
    BY <1>6, <1>7
  <2>2. view \in [Targets -> View \cup {None}]
    BY DEF Views, view
  <2> QED BY <1>6, <1>8, <2>1, <2>2, ChangesAddUp
<1> HIDE DEF v
<1>10. \A t \in Targets, n \in DocumentName :
         (\E i \in (0 + 1)..Len(m) : m[i].target = t /\ m[i].name = n)
            <=> view[t] # None /\ n \in names /\ Matches(t, n)
  <2>1. \A i \in (0 + 1)..Len(m) : m[i] \in S
    BY <1>3
  <2> QED BY <1>3, <1>5, <2>1
<1>11. ASSUME NEW t \in Targets
       PROVE  /\ view[t] = None => v[t] = None
              /\ view[t] # None => v[t] \in View /\ \A n \in DocumentName :
                   v[t][n] = IF n \in names /\ Matches(t, n) THEN d[n] ELSE view[t][n]
  <2>1. CASE view[t] \in View
    <3>1. v[t] \in View /\ \A n \in DocumentName :
            v[t][n] = IF view[t] # None /\ n \in names /\ Matches(t, n) THEN d[n] ELSE view[t][n]
      BY <1>9, <1>10, <2>1 DEF AddsUp
    <3>2. view[t] = None => v[t] = view[t]
      BY <2>1, <3>1 DEF View
    <3> QED BY <3>1, <3>2
  <2>2. CASE view[t] \notin View
    BY <1>9, <2>2 DEF AddsUp, Views
  <2> QED BY <2>1, <2>2
<1> QED BY <1>2, <1>7, <1>9, <1>11 DEF AddsUp, Views, v

(* A target that is installed shows what is committed. *)
LEMMA ToldInstalled ==
    ASSUME NEW view \in Views, NEW t \in Targets, docs \in View
    PROVE  HeardAll(view, Installed(t)) = [view EXCEPT ![t] = Shown(t, docs)]
<1> DEFINE there == {n \in DocumentName : Shown(t, docs)[n] # None}
           S == {Change(t, "EXIST", n, docs) : n \in there}
           f == [n \in there |-> Change(t, "EXIST", n, docs)]
           q == SetToSeq(S)
           first == [target |-> t, type |-> "UPDATED"]
           last == [target |-> t, type |-> "LISTED"]
           m == <<first>> \o q \o <<last>>
           start == [view EXCEPT ![t] = Nothing]
<1>1. IsFiniteSet(S)
  <2>1. IsFiniteSet(there)
    BY NamesAreFinite, FS_Subset
  <2>2. f \in Surjection(there, S)
    BY DEF Surjection
  <2> HIDE DEF f, S, there
  <2> QED BY <2>1, <2>2, FS_Surjection
<1>2. Installed(t) = m
  BY DEF Installed
<1>3. q \in Seq(S) /\ \A c \in S : \E i \in 1..Len(q) : q[i] = c
  BY <1>1, ListedSet
<1>4. start \in Views /\ start[t] = Nothing /\ Nothing \in View
  BY DEF Views, View, Nothing, DocumentOrNone
<1>5. \A c \in S : Tells(c, start, docs) /\ c.target = t
  BY <1>4 DEF Tells, Change
<1>6. \A n \in DocumentName : (\E c \in S : c.name = n) <=> n \in there
  <2>1. \A n \in there : Change(t, "EXIST", n, docs).name = n
    BY DEF Change
  <2> HIDE DEF there
  <2> QED BY <2>1
<1>7. /\ \A n \in there : docs[n] = Shown(t, docs)[n]
      /\ \A n \in DocumentName \ there : None = Shown(t, docs)[n]
      /\ Shown(t, docs) \in View
  BY DEF Shown, View, DocumentOrNone
<1> HIDE DEF S, q, there, f
<1> DEFINE len == Len(q)
<1>8. /\ len \in Nat /\ Len(m) = len + 2
      /\ m[1] = first /\ m[len + 2] = last
      /\ \A i \in 1..len : m[i + 1] = q[i]
  BY <1>3
<1> HIDE DEF m, start, len
<1>9. PICK heard : /\ heard[0] = view
                   /\ \A i \in 1..(len + 2) : heard[i] = Heard(heard[i - 1], m[i])
                   /\ HeardAll(view, m) = heard[len + 2]
  <2>1. Len(m) \in Nat
    BY <1>8
  <2>2. \E heard : /\ heard[0] = view
                   /\ \A i \in 1..Len(m) : heard[i] = Heard(heard[i - 1], m[i])
                   /\ HeardAll(view, m) = heard[Len(m)]
    BY ONLY <2>1, HeardSteps
  <2> QED BY <1>8, <2>2
<1>10. heard[1] = start
  <2>1. 1 \in 1..(len + 2) /\ 1 - 1 = 0
    BY <1>8
  <2>2. heard[1] = Heard(view, first)
    BY <1>8, <1>9, <2>1
  <2> QED BY <2>2 DEF Heard, start
<1>11. \A i \in (1 + 1)..(len + 1) :
         Tells(m[i], start, docs) /\ heard[i] = Heard(heard[i - 1], m[i])
  <2> SUFFICES ASSUME NEW i \in (1 + 1)..(len + 1)
               PROVE  Tells(m[i], start, docs) /\ heard[i] = Heard(heard[i - 1], m[i])
    OBVIOUS
  <2>1. i - 1 \in 1..len /\ i \in 1..(len + 2) /\ (i - 1) + 1 = i
    BY <1>8
  <2>2. m[i] = q[i - 1] /\ q[i - 1] \in S
    BY <1>3, <1>8, <2>1 DEF len
  <2> QED BY <1>5, <1>9, <2>1, <2>2
<1> DEFINE v == heard[len + 1]
<1>12. AddsUp(v, start, docs, m, 1, len + 1)
  <2>1. 1 \in Nat /\ len + 1 \in Nat /\ 1 <= len + 1
    BY <1>8
  <2>2. start \in [Targets -> View \cup {None}]
    BY <1>4 DEF Views
  <2> QED BY <1>10, <1>11, <2>1, <2>2, ChangesAddUp
<1>13. heard[len + 2] = v
  <2>1. len + 2 \in 1..(len + 2) /\ (len + 2) - 1 = len + 1
    BY <1>8
  <2>2. heard[len + 2] = Heard(v, last)
    BY <1>8, <1>9, <2>1
  <2> QED BY <2>2 DEF Heard
<1> HIDE DEF v
<1>14. \A u \in Targets, n \in DocumentName :
         (\E i \in (1 + 1)..(len + 1) : m[i].target = u /\ m[i].name = n) <=> u = t /\ n \in there
  <2>1. \A i \in (1 + 1)..(len + 1) : m[i] \in S
    <3> SUFFICES ASSUME NEW i \in (1 + 1)..(len + 1) PROVE m[i] \in S
      OBVIOUS
    <3>1. i - 1 \in 1..len /\ (i - 1) + 1 = i
      BY <1>8
    <3>2. m[(i - 1) + 1] = q[i - 1] /\ q[i - 1] \in S
      BY <1>3, <1>8, <3>1 DEF len
    <3> QED BY <3>1, <3>2
  <2>2. \A c \in S : \E i \in (1 + 1)..(len + 1) : m[i] = c
    <3> SUFFICES ASSUME NEW c \in S PROVE \E i \in (1 + 1)..(len + 1) : m[i] = c
      OBVIOUS
    <3>1. PICK i \in 1..len : q[i] = c
      BY <1>3 DEF len
    <3>2. i + 1 \in (1 + 1)..(len + 1) /\ m[i + 1] = c
      BY <1>8, <3>1
    <3> QED BY <3>2
  <2> QED BY <1>5, <1>6, <2>1, <2>2
<1>15. \A u \in Targets : u # t => v[u] = view[u]
  <2> SUFFICES ASSUME NEW u \in Targets, u # t PROVE v[u] = view[u]
    OBVIOUS
  <2>1. start[u] = view[u]
    BY DEF start, Views
  <2>2. CASE view[u] \in View
    <3>1. v[u] \in View /\ \A n \in DocumentName : v[u][n] = view[u][n]
      BY <1>12, <1>14, <2>1, <2>2 DEF AddsUp
    <3> QED BY <2>2, <3>1 DEF View
  <2>3. CASE view[u] \notin View
    BY <1>12, <2>1, <2>3 DEF AddsUp
  <2> QED BY <2>2, <2>3
<1>16. v[t] = Shown(t, docs)
  <2>1. v[t] \in View /\ \A n \in DocumentName :
          v[t][n] = IF n \in there THEN docs[n] ELSE Nothing[n]
    BY <1>4, <1>12, <1>14 DEF AddsUp
  <2>2. \A n \in DocumentName : v[t][n] = Shown(t, docs)[n]
    BY <1>7, <2>1 DEF Nothing
  <2> QED BY <1>7, <2>1, <2>2 DEF View
<1>17. v = [view EXCEPT ![t] = Shown(t, docs)]
  BY <1>12, <1>15, <1>16 DEF AddsUp, Views
<1> QED BY <1>2, <1>9, <1>13, <1>17
-----------------------------------------------------------------------------
(* What a transform may do *)

Acc(a) ==
    /\ DOMAIN a = {"fields", "globals", "values", "ok"}
    /\ a.fields \in Fields /\ a.globals \in Value \cup {None} /\ a.ok \in BOOLEAN
    /\ a.values \in Seq(Value)

LEMMA ValueIsInteger ==
    ASSUME NEW v \in Value \cup {None}, IntegerOrNone(v)
    PROVE  AsInteger(v) \in Int
  BY DEF IntegerOrNone, AsInteger, Value

(* What a transform comes to: refused, the counter, or the field. *)
Arm(a, acc, t) ==
    LET v == acc.fields[t.field] IN
    \/ a = [acc EXCEPT !.ok = FALSE]
    \/ v # None /\ a = [acc EXCEPT !.globals = v]
    \/ v # None /\ a = [acc EXCEPT !.globals = None]
    \/ \E x \in Value : a = [acc EXCEPT !.fields[t.field] = x]

LEMMA Arms ==
    ASSUME NEW acc, NEW t \in FieldTransform, NEW now \in Nat, acc.ok, t.field # Wildcard,
           acc.fields \in Fields, acc.globals \in Value \cup {None}
    PROVE  Arm(Transform(acc, t, now), acc, t)
<1> DEFINE a == Transform(acc, t, now)
           v == acc.fields[t.field]
           refused == [acc EXCEPT !.ok = FALSE]
<1>1. t.field \in FieldName /\ v \in Value \cup {None}
  BY DEF FieldTransform, Fields, MapValue
<1>2. CASE t \in [field : FieldName \cup {Wildcard}, load : GlobalName]
  <2>1. DOMAIN t = {"field", "load"}
    BY <1>2
  <2> DEFINE x == IF acc.globals # None THEN acc.globals ELSE IF v # None THEN v ELSE Integer(0)
  <2>2. a = refused \/ a = [acc EXCEPT !.fields[t.field] = x]
    BY <2>1 DEF Transform
  <2>3. x \in Value
    BY <1>1 DEF Integer, Value
  <2> HIDE DEF x
  <2> QED BY <2>2, <2>3 DEF Arm
<1>3. CASE t \in [field : FieldName, store : GlobalName]
  <2>1. DOMAIN t = {"field", "store"}
    BY <1>3
  <2> QED BY <2>1 DEF Transform, Arm
<1>4. CASE t \in [field : FieldName, clear : GlobalName]
  <2>1. DOMAIN t = {"field", "clear"}
    BY <1>4
  <2> QED BY <2>1 DEF Transform, Arm
<1>5. CASE t \in [field : FieldName, increment : Value]
  <2>1. DOMAIN t = {"field", "increment"}
    BY <1>5
  <2> DEFINE n == AsInteger(v) + AsInteger(t.increment)
  <2>2. a = refused \/ (IntegerOrNone(v) /\ IntegerOrNone(t.increment) /\ a = [acc EXCEPT !.fields[t.field] = Integer(n)])
    BY <2>1 DEF Transform
  <2>3. IntegerOrNone(v) /\ IntegerOrNone(t.increment) => n \in Int
    BY <1>1, <1>5, ValueIsInteger
  <2> HIDE DEF n
  <2> QED BY <2>2, <2>3 DEF Integer, Value, Arm
<1>6. CASE t \in [field : FieldName, maximum : Value]
  <2>1. DOMAIN t = {"field", "maximum"}
    BY <1>6
  <2> DEFINE n == Greater(AsInteger(v), AsInteger(t.maximum))
  <2>2. a = refused \/ (IntegerOrNone(v) /\ IntegerOrNone(t.maximum) /\ a = [acc EXCEPT !.fields[t.field] = Integer(n)])
    BY <2>1 DEF Transform
  <2>3. IntegerOrNone(v) /\ IntegerOrNone(t.maximum) => n \in Int
    BY <1>1, <1>6, ValueIsInteger DEF Greater
  <2> HIDE DEF n
  <2> QED BY <2>2, <2>3 DEF Integer, Value, Arm
<1>7. CASE t \in [field : FieldName, minimum : Value]
  <2>1. DOMAIN t = {"field", "minimum"}
    BY <1>7
  <2> DEFINE n == Lesser(AsInteger(v), AsInteger(t.minimum))
  <2>2. a = refused \/ (IntegerOrNone(v) /\ IntegerOrNone(t.minimum) /\ a = [acc EXCEPT !.fields[t.field] = Integer(n)])
    BY <2>1 DEF Transform
  <2>3. IntegerOrNone(v) /\ IntegerOrNone(t.minimum) => n \in Int
    BY <1>1, <1>7, ValueIsInteger DEF Lesser
  <2> HIDE DEF n
  <2> QED BY <2>2, <2>3 DEF Integer, Value, Arm
<1>8. CASE t \in [field : FieldName, server : ServerValueType]
  <2>1. DOMAIN t = {"field", "server"}
    BY <1>8
  <2>2. a = refused \/ a = [acc EXCEPT !.fields[t.field] = Timestamp(now)]
    BY <2>1 DEF Transform
  <2> QED BY <2>2 DEF Timestamp, Value, Arm
<1> QED BY <1>2, <1>3, <1>4, <1>5, <1>6, <1>7, <1>8 DEF FieldTransform

-----------------------------------------------------------------------------
(* Transforms *)

LEMMA TransformedType ==
    ASSUME NEW acc, Acc(acc), NEW t \in FieldTransform, clock \in Nat
    PROVE  Acc(Transformed(acc, t))
<1> DEFINE a == Transform(acc, t, clock + 1)
           v == acc.fields[t.field]
<1>1. clock + 1 \in Nat
  OBVIOUS
<1>2. Transformed(acc, t) = IF a.ok THEN [a EXCEPT !.values = Append(@, a.fields[t.field])] ELSE a
  BY DEF Transformed
<1>3. CASE ~ acc.ok \/ t.field = Wildcard
  <2>1. a = [acc EXCEPT !.ok = FALSE]
    BY <1>3 DEF Transform
  <2> HIDE DEF a
  <2> QED BY <1>2, <2>1 DEF Acc
<1>4. CASE acc.ok /\ t.field # Wildcard
  <2>1. Arm(a, acc, t)
    BY <1>1, <1>4, Arms DEF Acc
  <2>2. t.field \in FieldName /\ v \in Value \cup {None}
    BY <1>4 DEF FieldTransform, Acc, Fields, MapValue
  <2> HIDE DEF a
  <2>3. Acc(a) /\ (a.ok => a.fields[t.field] \in Value)
    <3>1. CASE a = [acc EXCEPT !.ok = FALSE]
      BY <3>1 DEF Acc
    <3>2. CASE v # None /\ a = [acc EXCEPT !.globals = v]
      BY <2>2, <3>2 DEF Acc
    <3>3. CASE v # None /\ a = [acc EXCEPT !.globals = None]
      BY <2>2, <3>3 DEF Acc
    <3>4. CASE \E x \in Value : a = [acc EXCEPT !.fields[t.field] = x]
      BY <2>2, <3>4 DEF Acc, Fields, MapValue
    <3> QED BY <2>1, <3>1, <3>2, <3>3, <3>4 DEF Arm
  <2> QED BY <1>2, <2>3 DEF Acc
<1> QED BY <1>3, <1>4

Transforms(after, first, transforms, n) ==
    after = [i \in 0..n |-> IF i = 0 THEN first ELSE Transformed(after[i - 1], transforms[i])]

LEMMA TransformsExist ==
    ASSUME NEW first, NEW transforms, NEW n \in Nat
    PROVE  \E after : Transforms(after, first, transforms, n)
<1> DEFINE T == {m \in Nat : \E after : Transforms(after, first, transforms, m)}
<1>1. 0 \in T
  <2> DEFINE after == [i \in 0..0 |-> first]
  <2>1. Transforms(after, first, transforms, 0)
    BY DEF Transforms
  <2> QED BY <2>1
<1>2. ASSUME NEW m \in Nat, m \in T PROVE m + 1 \in T
  <2>1. PICK after : Transforms(after, first, transforms, m)
    BY <1>2
  <2> DEFINE last == Transformed(after[m], transforms[m + 1])
             more == [i \in 0..(m + 1) |-> IF i <= m THEN after[i] ELSE last]
             Step(f, i) == IF i = 0 THEN first ELSE Transformed(f[i - 1], transforms[i])
  <2>2. ASSUME NEW i \in 0..(m + 1) PROVE more[i] = Step(more, i)
    <3>1. CASE i = m + 1
      BY <3>1
    <3>2. CASE i # m + 1
      <4>1. i \in 0..m /\ (i # 0 => i - 1 \in 0..m)
        BY <3>2
      <4>2. after[i] = Step(after, i)
        BY <2>1, <4>1 DEF Transforms
      <4>3. more[i] = after[i] /\ (i # 0 => more[i - 1] = after[i - 1])
        BY <4>1
      <4> QED BY <4>2, <4>3
    <3> QED BY <3>1, <3>2
  <2>3. Transforms(more, first, transforms, m + 1)
    BY <2>2 DEF Transforms
  <2> QED BY <2>3
<1> HIDE DEF T
<1>3. n \in T
  BY <1>1, <1>2, HoldsAll
<1> QED BY <1>3 DEF T

LEMMA TransformSteps ==
    ASSUME NEW first, NEW transforms, Len(transforms) \in Nat
    PROVE  \E after : /\ after[0] = first
                      /\ \A i \in 1..Len(transforms) :
                            after[i] = Transformed(after[i - 1], transforms[i])
                      /\ TransformAll(first, transforms) = after[Len(transforms)]
<1> DEFINE after == CHOOSE f : Transforms(f, first, transforms, Len(transforms))
<1>1. Transforms(after, first, transforms, Len(transforms))
  BY TransformsExist
<1>2. TransformAll(first, transforms) = after[Len(transforms)]
  BY DEF TransformAll, Transforms
<1> HIDE DEF after
<1>3. after[0] = first
  BY <1>1 DEF Transforms
<1>4. ASSUME NEW i \in 1..Len(transforms)
      PROVE  after[i] = Transformed(after[i - 1], transforms[i])
  <2>1. i \in 0..Len(transforms) /\ i # 0
    OBVIOUS
  <2> QED BY <1>1, <2>1 DEF Transforms
<1> QED BY <1>2, <1>3, <1>4

LEMMA TransformAllType ==
    ASSUME NEW first, Acc(first), NEW transforms \in Seq(FieldTransform), clock \in Nat
    PROVE  Acc(TransformAll(first, transforms))
<1>1. Len(transforms) \in Nat
  OBVIOUS
<1>2. PICK after : /\ after[0] = first
                   /\ \A i \in 1..Len(transforms) :
                         after[i] = Transformed(after[i - 1], transforms[i])
                   /\ TransformAll(first, transforms) = after[Len(transforms)]
  BY ONLY <1>1, TransformSteps
<1> DEFINE T == {i \in Nat : i <= Len(transforms) => Acc(after[i])}
<1>3. 0 \in T
  BY <1>2
<1>4. ASSUME NEW i \in Nat, i \in T PROVE i + 1 \in T
  <2> SUFFICES ASSUME i + 1 <= Len(transforms) PROVE Acc(after[i + 1])
    OBVIOUS
  <2>1. i + 1 \in 1..Len(transforms) /\ (i + 1) - 1 = i /\ i <= Len(transforms)
    BY <1>1
  <2>2. Acc(after[i]) /\ transforms[i + 1] \in FieldTransform
    BY <1>4, <2>1
  <2> QED BY <1>2, <2>1, <2>2, TransformedType
<1> HIDE DEF T
<1>5. Len(transforms) \in T
  BY <1>1, <1>3, <1>4, HoldsAll
<1> QED BY <1>1, <1>2, <1>5 DEF T

(* What a well-formed operation leaves, and answers. *)
LEMMA OutcomeType ==
    ASSUME NEW op \in WriteOperation, NEW w, w.docs \in View, w.globals \in Value \cup {None},
           clock \in Nat, Outcome(op, w).ok
    PROVE  LET out == Outcome(op, w) IN
           /\ IsDelete(op) \/ out.fields \in Fields
           /\ out.globals \in Value \cup {None}
           /\ ResultOf(op, out) \in WriteResult
<1> DEFINE out == Outcome(op, w)
           doc == w.docs[NameOf(op)]
           old == IF doc = None THEN NoFields ELSE doc.fields
           Leaves(f) == [fields |-> f, globals |-> w.globals, values |-> <<>>, ok |-> TRUE]
           Refused == [Leaves(old) EXCEPT !.ok = FALSE]
<1>0. ~ Refused.ok
  OBVIOUS
<1>1. CASE op \in DeleteDocumentRequest
  <2>1. DOMAIN op = {"delete", "current"}
    BY <1>1 DEF DeleteDocumentRequest
  <2>2. IsDelete(op) /\ out = Leaves(None)
    BY <2>1 DEF IsDelete, Outcome
  <2>3. ResultOf(op, out) = [delete |-> "deleted"]
    BY <2>1, <2>2 DEF ResultOf
  <2> QED BY <2>2, <2>3 DEF WriteResult, DeleteResult
<1>2. CASE op \in UpdateDocumentRequest
  <2>1. DOMAIN op = {"update", "fields", "mask", "current"}
    BY <1>2 DEF UpdateDocumentRequest
  <2>2. ~ IsDelete(op) /\ NameOf(op) = op.update /\ op.update \in DocumentName
        /\ op.fields \in Fields \cup {None}
    BY <1>2, <2>1 DEF IsDelete, NameOf, UpdateDocumentRequest
  <2>3. old \in Fields
    BY <2>2 DEF View, DocumentOrNone, Document, NoFields, Fields, MapValue
  <2> DEFINE mixed == [k \in FieldName |-> IF k \in op.mask THEN op.fields[k] ELSE old[k]]
  <2>4. op.fields # None /\ (out = Leaves(op.fields) \/ out = Leaves(mixed))
    BY <2>1, <2>2, <1>0 DEF Outcome
  <2>5. op.fields # None => mixed \in Fields
    BY <2>2, <2>3 DEF Fields, MapValue
  <2>6. ResultOf(op, out) = [update |-> "updated"]
    BY <2>1, <2>2 DEF ResultOf
  <2> HIDE DEF mixed
  <2> QED BY <2>2, <2>4, <2>5, <2>6 DEF WriteResult, UpdateResult
<1>3. CASE op \in MergeDocumentRequest
  <2>1. DOMAIN op = {"merge", "fields"}
    BY <1>3 DEF MergeDocumentRequest
  <2>2. ~ IsDelete(op) /\ NameOf(op) = op.merge /\ op.merge \in DocumentName
        /\ op.fields \in Fields \cup {None}
    BY <1>3, <2>1 DEF IsDelete, NameOf, MergeDocumentRequest
  <2>3. old \in Fields
    BY <2>2 DEF View, DocumentOrNone, Document, NoFields, Fields, MapValue
  <2> DEFINE mixed == [k \in FieldName |-> IF op.fields[k] # None THEN op.fields[k] ELSE old[k]]
  <2>4. op.fields # None /\ out = Leaves(mixed)
    BY <2>1, <2>2, <1>0 DEF Outcome
  <2>5. op.fields # None => mixed \in Fields
    BY <2>2, <2>3 DEF Fields, MapValue
  <2>6. ResultOf(op, out) = [update |-> "updated"]
    BY <2>1, <2>2 DEF ResultOf
  <2> HIDE DEF mixed
  <2> QED BY <2>2, <2>4, <2>5, <2>6 DEF WriteResult, UpdateResult
<1>4. CASE op \in TransformDocumentRequest
  <2>1. DOMAIN op = {"transform", "transforms"}
    BY <1>4 DEF TransformDocumentRequest
  <2>2. ~ IsDelete(op) /\ NameOf(op) = op.transform /\ op.transform \in DocumentName
        /\ op.transforms \in Seq(FieldTransform)
    BY <1>4, <2>1 DEF IsDelete, NameOf, TransformDocumentRequest
  <2>3. old \in Fields
    BY <2>2 DEF View, DocumentOrNone, Document, NoFields, Fields, MapValue
  <2>4. out = TransformAll(Leaves(old), op.transforms)
    BY <2>1, <2>2, <1>0 DEF Outcome
  <2> HIDE DEF old
  <2>5. Acc(Leaves(old))
    BY <2>3 DEF Acc
  <2> HIDE DEF Leaves
  <2>6. Acc(out)
    BY <2>2, <2>4, <2>5, TransformAllType
  <2>7. ResultOf(op, out) = [transform |-> out.values]
    BY <2>1, <2>2 DEF ResultOf
  <2> QED BY <2>2, <2>6, <2>7 DEF Acc, WriteResult, TransformResult
<1> QED BY <1>1, <1>2, <1>3, <1>4 DEF WriteOperation
-----------------------------------------------------------------------------
(* Types *)

(* The flags of the control document are booleans where it has them. *)
BooleansFit(d) ==
    d[ControlDoc] # None => \A k \in {"cp", "ip"} : IsBoolean(d[ControlDoc].fields[k])

(* A call inside g.mu has both locks, and a moment to commit at. *)
LockFits == Locked => publishing = None /\ clock < MaxClock /\ BooleansFit(work.docs)

TypeInv == TypeOK /\ LockFits /\ BooleansFit(docs)

LEMMA Bounds == MaxClock \in Nat /\ MaxOperations \in Nat
  BY StoreBounds

LEMMA NewDocument ==
    ASSUME clock \in 0..MaxClock, NEW f \in Fields
    PROVE  [fields |-> f, updateTime |-> clock + 1] \in Document
  BY Bounds DEF Document

LEMMA Flags ==
    /\ \A b \in BOOLEAN : Boolean(b) \in Value /\ IsBoolean(Boolean(b))
    /\ \A v \in Value : IsBoolean(v) /\ v # None => v.boolean \in BOOLEAN
    /\ {"cp", "ip", "ebf"} \subseteq FieldName
<1>1. \A b \in BOOLEAN : Boolean(b) \in Value /\ IsBoolean(Boolean(b))
  BY DEF Boolean, Value, IsBoolean
<1>2. \A v \in Value : "boolean" \in DOMAIN v => v.boolean \in BOOLEAN
  BY DEF Value
<1> QED BY <1>1, <1>2 DEF IsBoolean, FieldName

LEMMA NamesOfOperations == \A op \in WriteOperation : NameOf(op) \in DocumentName
<1>1. ASSUME NEW op \in UpdateDocumentRequest PROVE NameOf(op) \in DocumentName
  <2>1. DOMAIN op = {"update", "fields", "mask", "current"} /\ op.update \in DocumentName
    BY DEF UpdateDocumentRequest
  <2> QED BY <2>1 DEF NameOf
<1>2. ASSUME NEW op \in MergeDocumentRequest PROVE NameOf(op) \in DocumentName
  <2>1. DOMAIN op = {"merge", "fields"} /\ op.merge \in DocumentName
    BY DEF MergeDocumentRequest
  <2> QED BY <2>1 DEF NameOf
<1>3. ASSUME NEW op \in TransformDocumentRequest PROVE NameOf(op) \in DocumentName
  <2>1. DOMAIN op = {"transform", "transforms"} /\ op.transform \in DocumentName
    BY DEF TransformDocumentRequest
  <2> QED BY <2>1 DEF NameOf
<1>4. ASSUME NEW op \in DeleteDocumentRequest PROVE NameOf(op) \in DocumentName
  <2>1. DOMAIN op = {"delete", "current"} /\ op.delete \in DocumentName
    BY DEF DeleteDocumentRequest
  <2> QED BY <2>1 DEF NameOf
<1> QED BY <1>1, <1>2, <1>3, <1>4 DEF WriteOperation

LEMMA TypeInvInit == Init => TypeInv
<1> SUFFICES ASSUME Init PROVE TypeInv
  OBVIOUS
<1>1. Nothing \in View /\ Nothing \in [DocumentName -> Member \cup {None}]
      /\ Nothing[ControlDoc] = None
  BY Names DEF Nothing, View, DocumentOrNone
<1>2. NoCall \in Call
  BY RoomAssumption DEF NoCall, Call
<1>3. \A s \in Stream : [t \in Targets |-> None] \in [Targets -> View \cup {None}]
  OBVIOUS
<1> HIDE DEF Nothing, NoCall
<1>4. TypeOK
  BY <1>1, <1>2, <1>3, RoomAssumption, Bounds DEF Init, TypeOK
<1> QED BY <1>1, <1>4 DEF Init, TypeInv, LockFits, Locked, BooleansFit

LEMMA PublishType ==
    ASSUME TypeOK, NEW names \in SUBSET DocumentName, NEW d \in View, Publish(names, d)
    PROVE  /\ streams' \in [Stream -> [of : Member \cup {None},
                                       state : {"idle", "open", "failed", "closed"}]]
           /\ sent' \in [Stream -> [Targets -> View \cup {None}]]
<1>1. \A s \in Stream : sent[s] \in Views
  BY DEF TypeOK, Views
<1>2. \A s \in Stream : HeardAll(sent[s], Changes(s, names, d)) \in Views
  BY <1>1, ToldChanges
<1>3. sent' \in [Stream -> Views]
  BY <1>2 DEF Publish
<1>4. PICK full \in SUBSET Stream :
        streams' = [s \in Stream |->
           IF s \in full THEN [streams[s] EXCEPT !.state = "failed"] ELSE streams[s]]
  BY DEF Publish
<1>5. \A s \in Stream : streams[s] \in [of : Member \cup {None},
                                      state : {"idle", "open", "failed", "closed"}]
  BY DEF TypeOK
<1>6. \A s \in Stream : streams'[s] \in [of : Member \cup {None},
                                       state : {"idle", "open", "failed", "closed"}]
  BY <1>4, <1>5
<1> QED BY <1>3, <1>4, <1>6 DEF Views

LEMMA AdmitType ==
    ASSUME TypeInv, NEW u \in Member, Admit(u) PROVE TypeInv'
<1>1. /\ room' = [room EXCEPT !.seats = Append(room.seats, u)]
      /\ UNCHANGED <<clock, committed, known, token, writer, work, publishing, told>>
  BY DEF Admit
<1>2. room \in [seats : Seq(Member), open : BOOLEAN, public : BOOLEAN, active : BOOLEAN]
  BY DEF TypeInv, TypeOK
<1>3. Append(room.seats, u) \in Seq(Member)
  BY <1>2
<1>4. room' \in [seats : Seq(Member), open : BOOLEAN, public : BOOLEAN, active : BOOLEAN]
  BY <1>1, <1>2, <1>3
<1> QED BY <1>1, <1>4 DEF TypeInv, TypeOK, committed, known, told, LockFits, Locked, BooleansFit

LEMMA CheckMemberType ==
    ASSUME TypeInv, NEW r \in IssueTokenRequest, CheckMember(r) PROVE TypeInv'
<1> DEFINE u == r.session
           c == [step |-> "checked", first |-> room.seats[1],
                 open |-> room.open, public |-> room.public]
<1>1. /\ Seated(u) /\ token' = [token EXCEPT ![u] = c]
      /\ UNCHANGED <<room, clock, committed, known, writer, work, publishing, told>>
  BY DEF CheckMember
<1>2. room.seats[1] \in Member /\ room.open \in BOOLEAN /\ room.public \in BOOLEAN
  BY <1>1 DEF Seated, TypeInv, TypeOK
<1>3. c \in Call
  BY <1>2 DEF Call
<1> HIDE DEF c, u
<1> QED BY <1>1, <1>3 DEF TypeInv, TypeOK, committed, known, told, LockFits, Locked, BooleansFit

LEMMA SeedType ==
    ASSUME TypeInv, NEW u \in Member, InitializeFixedData(u) PROVE TypeInv'
<1> DEFINE t == clock + 1
           f == [NoFields EXCEPT !["cp"] = Boolean(token[u].open),
                                 !["ip"] = Boolean(token[u].public),
                                 !["ebf"] = Boolean(FALSE)]
           fixed == [fields |-> NoFields, updateTime |-> t]
           control == [fields |-> f, updateTime |-> t]
           seeded == [NoCall EXCEPT !.step = "seeded"]
<1>1. /\ ~ Locked /\ clock < MaxClock /\ token' = [token EXCEPT ![u] = seeded]
      /\ UNCHANGED <<room, globals, deferments, known, writer, work, publishing, told>>
  BY DEF InitializeFixedData
<1>2. seeded \in Call
  BY RoomAssumption DEF NoCall, Call
<1> HIDE DEF seeded
<1>3. token' \in [Member -> Call]
  BY <1>1, <1>2 DEF TypeInv, TypeOK
<1>4. CASE docs[FixedDoc] # None
  <2>1. UNCHANGED <<docs, owners, clock>>
    BY <1>4 DEF InitializeFixedData
  <2> QED BY <1>1, <1>3, <2>1 DEF TypeInv, TypeOK, known, told, LockFits, Locked, BooleansFit
<1>5. CASE docs[FixedDoc] = None
  <2>1. /\ docs' = [docs EXCEPT ![FixedDoc] = fixed, ![ControlDoc] = control]
        /\ owners' = [owners EXCEPT ![ControlDoc] = token[u].first]
        /\ clock' = clock + 1
    BY <1>5 DEF InitializeFixedData
  <2>2. token[u].open \in BOOLEAN /\ token[u].public \in BOOLEAN /\ token[u].first \in Member
    BY DEF TypeInv, TypeOK, Call
  <2>3. f \in Fields /\ f["cp"] = Boolean(token[u].open) /\ f["ip"] = Boolean(token[u].public)
    BY <2>2, Flags, PlainFields DEF Fields, MapValue
  <2> HIDE DEF f
  <2>4. fixed \in Document /\ control \in Document /\ control.fields = f
    BY <2>3, PlainFields, NewDocument DEF TypeInv, TypeOK
  <2> HIDE DEF fixed, control
  <2>5. docs' \in View /\ docs'[ControlDoc] = control
    BY <2>1, <2>4, Names DEF TypeInv, TypeOK, View, DocumentOrNone
  <2>6. owners' \in [DocumentName -> Member \cup {None}] /\ clock' \in 0..MaxClock
    BY <1>1, <2>1, <2>2, Names, Bounds DEF TypeInv, TypeOK
  <2>7. BooleansFit(docs)'
    BY <2>2, <2>3, <2>4, <2>5, Flags DEF BooleansFit
  <2>8. TypeOK'
    BY <1>1, <1>3, <2>5, <2>6 DEF TypeInv, TypeOK, known, told
  <2> QED BY <1>1, <2>7, <2>8 DEF TypeInv, LockFits, Locked
<1> QED BY <1>4, <1>5

LEMMA RememberType ==
    ASSUME TypeInv, NEW u \in Member, Remember(u) PROVE TypeInv'
<1> DEFINE doc == [fields |-> SessionFields(u), updateTime |-> clock + 1]
<1>1. /\ ~ Locked /\ token' = [token EXCEPT ![u] = NoCall]
      /\ UNCHANGED <<room, owners, globals, deferments, writer, work, publishing>>
  BY DEF Remember, Publishing
<1>2. NoCall \in Call
  BY RoomAssumption DEF NoCall, Call
<1>3. token' \in [Member -> Call]
  BY <1>1, <1>2 DEF TypeInv, TypeOK
<1>4. CASE u \in sessions
  <2>1. UNCHANGED <<known, docs, clock, told>>
    BY <1>4 DEF Remember
  <2> QED BY <1>1, <1>3, <2>1 DEF TypeInv, TypeOK, known, told, LockFits, Locked, BooleansFit
<1>5. CASE u \notin sessions
  <2>1. /\ clock < MaxClock /\ clock' = clock + 1
        /\ sessions' = sessions \cup {u}
        /\ nextSequence' = nextSequence + 1
        /\ sequence' = [sequence EXCEPT ![u] = nextSequence + 1]
        /\ docs' = [docs EXCEPT ![SessionDoc(u)] = doc]
        /\ Publish({SessionDoc(u)}, docs')
    BY <1>5 DEF Remember
  <2>2. doc \in Document
    BY PlainFields, NewDocument DEF TypeInv, TypeOK
  <2> HIDE DEF doc
  <2>3. docs' \in View /\ docs'[ControlDoc] = docs[ControlDoc]
    BY <2>1, <2>2, Names DEF TypeInv, TypeOK, View, DocumentOrNone
  <2>4. /\ streams' \in [Stream -> [of : Member \cup {None},
                                    state : {"idle", "open", "failed", "closed"}]]
        /\ sent' \in [Stream -> [Targets -> View \cup {None}]]
    BY <2>1, <2>3, Names, PublishType DEF TypeInv
  <2>5. /\ clock' \in 0..MaxClock /\ sessions' \subseteq Member /\ nextSequence' \in Nat
        /\ sequence' \in [Member -> 0..nextSequence']
    BY <2>1, Bounds DEF TypeInv, TypeOK
  <2>6. TypeOK'
    BY <1>1, <1>3, <2>3, <2>4, <2>5 DEF TypeInv, TypeOK
  <2> QED BY <1>1, <2>3, <2>6 DEF TypeInv, LockFits, Locked, BooleansFit
<1> QED BY <1>4, <1>5

LEMMA OpenStreamType ==
    ASSUME TypeInv, NEW s \in Stream, NEW u \in Member, OpenStream(s, u) PROVE TypeInv'
  BY DEF TypeInv, TypeOK, OpenStream, committed, known, LockFits, Locked, BooleansFit

LEMMA CloseStreamType ==
    ASSUME TypeInv, NEW s \in Stream, CloseStream(s) PROVE TypeInv'
  BY DEF TypeInv, TypeOK, CloseStream, committed, known, LockFits, Locked, BooleansFit

(* What a stream is sent when its target is installed, or taken away. *)
LEMMA ReceiveCases ==
    ASSUME TypeOK, NEW s \in Stream, NEW r \in StreamRequests, Receive(s, r)
    PROVE  /\ UNCHANGED <<room, clock, committed, known, token, writer, work, publishing, streams>>
           /\ \E t \in Targets :
                \/ ~ Publishing /\ sent' = [sent EXCEPT ![s] = [sent[s] EXCEPT ![t] = Shown(t, docs)]]
                \/ sent' = [sent EXCEPT ![s] = [sent[s] EXCEPT ![t] = None]]
<1>1. \/ \E u \in Member, t \in Targets : r = [of |-> u, update |-> [target |-> t]]
      \/ \E u \in Member, t \in Targets : r = [of |-> u, delete |-> [name |-> t]]
  BY DEF StreamRequests
<1>2. sent[s] \in Views /\ docs \in View
  BY DEF TypeOK, Views
<1>3. ASSUME NEW u \in Member, NEW t \in Targets, r = [of |-> u, update |-> [target |-> t]]
      PROVE  ~ Publishing /\ sent' = [sent EXCEPT ![s] = [sent[s] EXCEPT ![t] = Shown(t, docs)]]
  <2>1. r.update.target = t /\ "delete" \notin DOMAIN r
    BY <1>3
  <2>2. ~ Publishing /\ sent' = [sent EXCEPT ![s] = HeardAll(sent[s], Installed(t))]
    BY <2>1 DEF Receive
  <2> QED BY <1>2, <2>2, ToldInstalled
<1>4. ASSUME NEW u \in Member, NEW t \in Targets, r = [of |-> u, delete |-> [name |-> t]]
      PROVE  sent' = [sent EXCEPT ![s] = [sent[s] EXCEPT ![t] = None]]
  <2>1. r.delete.name = t /\ "update" \notin DOMAIN r
    BY <1>4
  <2> DEFINE m == [target |-> t, type |-> "DELETED"]
  <2>2. sent' = [sent EXCEPT ![s] = Heard(sent[s], m)]
    BY <2>1 DEF Receive
  <2>3. Heard(sent[s], m) = [sent[s] EXCEPT ![t] = None]
    BY DEF Heard
  <2> QED BY <2>2, <2>3
<1>5. UNCHANGED <<room, clock, committed, known, token, writer, work, publishing, streams>>
  BY DEF Receive
<1> QED BY <1>1, <1>3, <1>4, <1>5

LEMMA ReceiveType ==
    ASSUME TypeInv, NEW s \in Stream, NEW r \in StreamRequests, Receive(s, r) PROVE TypeInv'
<1>1. UNCHANGED <<room, clock, committed, known, token, writer, work, publishing, streams>>
  BY ReceiveCases DEF TypeInv
<1>2. PICK t \in Targets :
        \/ sent' = [sent EXCEPT ![s] = [sent[s] EXCEPT ![t] = Shown(t, docs)]]
        \/ sent' = [sent EXCEPT ![s] = [sent[s] EXCEPT ![t] = None]]
  BY ReceiveCases DEF TypeInv
<1>3. Shown(t, docs) \in View
  BY DEF Shown, TypeInv, TypeOK, View, DocumentOrNone
<1>4. \A y \in View \cup {None} : [sent[s] EXCEPT ![t] = y] \in [Targets -> View \cup {None}]
  BY DEF TypeInv, TypeOK
<1>5. PICK y \in View \cup {None} : sent' = [sent EXCEPT ![s] = [sent[s] EXCEPT ![t] = y]]
  BY <1>2, <1>3
<1>6. sent' \in [Stream -> [Targets -> View \cup {None}]]
  BY <1>4, <1>5 DEF TypeInv, TypeOK
<1> QED BY <1>1, <1>6 DEF TypeInv, TypeOK, committed, known, LockFits, Locked, BooleansFit

LEMMA AuthorizeType ==
    ASSUME TypeInv, NEW r \in Requests, Authorize(r) PROVE TypeInv'
<1>1. r.by \in Member
  BY RequestAssumption DEF WriteDocumentsRequest
<1> QED BY <1>1 DEF TypeInv, TypeOK, Authorize, committed, known, told, LockFits, Locked, BooleansFit

(* v is w with these copies. *)
Becomes(v, w, at, d, o, g, f, c, r) ==
    v = [w EXCEPT !.at = at, !.docs = d, !.owners = o, !.globals = g,
                  !.deferments = f, !.changed = c, !.results = r]

LEMMA CopiesByParts ==
    ASSUME NEW w \in Copies, NEW v, NEW at \in Nat, NEW d \in View,
           NEW o \in [DocumentName -> Member \cup {None}], NEW g \in Value \cup {None},
           NEW f \in [DefermentName -> Deferment \cup {None}],
           NEW c \in SUBSET DocumentName, NEW r \in Seq(WriteResult),
           Becomes(v, w, at, d, o, g, f, c, r)
    PROVE  v \in Copies /\ v.docs = d
<1>1. w.request \in Requests
  BY DEF Copies
<1>2. v = [request |-> w.request, at |-> at, docs |-> d, owners |-> o, globals |-> g,
           deferments |-> f, changed |-> c, results |-> r]
  BY DEF Copies, Becomes
<1> QED BY <1>1, <1>2 DEF Copies

LEMMA BeginType ==
    ASSUME TypeInv, NEW u \in Member, Begin(u) PROVE TypeInv'
<1> DEFINE w == [request |-> writer[u], at |-> 1, docs |-> docs, owners |-> owners,
                 globals |-> globals, deferments |-> deferments[u],
                 changed |-> {}, results |-> <<>>]
<1>1. /\ writer[u] # None /\ ~ Locked /\ publishing = None /\ clock < MaxClock
      /\ writer' = [writer EXCEPT ![u] = None]
      /\ IF u \in sessions THEN work' = w ELSE UNCHANGED work
      /\ UNCHANGED <<room, clock, committed, known, token, publishing, told>>
  BY DEF Begin, Start, Publishing, Locked
<1>2. w \in Copies
  BY <1>1 DEF TypeInv, TypeOK, Copies
<1>3. w.docs = docs
  OBVIOUS
<1> HIDE DEF w
<1>4. TypeOK'
  BY <1>1, <1>2 DEF TypeInv, TypeOK, committed, known, told
<1>5. BooleansFit(docs)' /\ (Locked' => BooleansFit(work'.docs))
  BY <1>1, <1>3 DEF TypeInv, committed, BooleansFit, Locked
<1> QED BY <1>1, <1>4, <1>5 DEF TypeInv, LockFits, BooleansFit

LEMMA DeferType ==
    ASSUME IInv, TypeInv, Defer PROVE TypeInv'
<1> DEFINE i == work.at - Len(Writes)
           op == Deferments[i]
           v == Deferred(op, work)
<1>1. /\ Locked /\ ~ (work.at <= Len(Writes))
      /\ work.at <= Len(Writes) + Len(Deferments)
      /\ work' = IF DefermentAccepted(op, work) THEN v ELSE None
      /\ UNCHANGED <<room, clock, committed, known, token, writer, publishing, told>>
  BY DEF Defer, InDeferments, InWrites
<1>2. work \in Copies /\ work.request \in WriteDocumentsRequest /\ Locked
  BY RequestAssumption DEF TypeInv, TypeOK, Copies, Defer, InDeferments, Locked
<1>3. op \in DefermentOperation
  <2>1. /\ work.at \in Nat /\ Len(Writes) \in Nat /\ Deferments \in Seq(DefermentOperation)
    BY <1>2 DEF Copies, Writes, Deferments, WriteDocumentsRequest
  <2>2. i \in 1..Len(Deferments)
    BY <1>1, <2>1
  <2> HIDE DEF i
  <2> QED BY <2>1, <2>2
<1> HIDE DEF op, i
<1>4. v \in Copies /\ v.docs = work.docs
  <2>1. CASE op \in UpdateDefermentRequest
    <3>1. DOMAIN op = {"defer"} /\ op.defer \in Deferment /\ op.defer.name \in DefermentName
      BY <2>1 DEF UpdateDefermentRequest, Deferment
    <3>2. v = [work EXCEPT !.at = @ + 1, !.deferments[op.defer.name] = op.defer]
      BY <3>1 DEF Deferred
    <3> DEFINE f == [work.deferments EXCEPT ![op.defer.name] = op.defer]
               at == work.at + 1
               d == work.docs
               o == work.owners
               g == work.globals
               c == work.changed
               r == work.results
    <3>3. f \in [DefermentName -> Deferment \cup {None}]
      BY <1>2, <3>1 DEF Copies
    <3>4. Becomes(v, work, at, d, o, g, f, c, r)
      BY <1>2, <3>2 DEF Copies, Becomes
    <3>5. /\ d \in View /\ o \in [DocumentName -> Member \cup {None}]
          /\ c \in SUBSET DocumentName /\ r \in Seq(WriteResult)
          /\ at \in Nat /\ g \in Value \cup {None}
      BY <1>2 DEF Copies
    <3> HIDE DEF v, f, at, d, o, g, c, r
    <3>6. v \in Copies /\ v.docs = d
      BY <1>2, <3>3, <3>4, <3>5, CopiesByParts
    <3> QED BY <3>6 DEF d
  <2>2. CASE op \in DeleteDefermentRequest
    <3>1. DOMAIN op = {"undefer"} /\ op.undefer \in DefermentName
      BY <2>2 DEF DeleteDefermentRequest
    <3>2. v = [work EXCEPT !.at = @ + 1, !.deferments[op.undefer] = None]
      BY <3>1 DEF Deferred
    <3> DEFINE f == [work.deferments EXCEPT ![op.undefer] = None]
               at == work.at + 1
               d == work.docs
               o == work.owners
               g == work.globals
               c == work.changed
               r == work.results
    <3>3. f \in [DefermentName -> Deferment \cup {None}]
      BY <1>2, <3>1 DEF Copies
    <3>4. Becomes(v, work, at, d, o, g, f, c, r)
      BY <1>2, <3>2 DEF Copies, Becomes
    <3>5. /\ d \in View /\ o \in [DocumentName -> Member \cup {None}]
          /\ c \in SUBSET DocumentName /\ r \in Seq(WriteResult)
          /\ at \in Nat /\ g \in Value \cup {None}
      BY <1>2 DEF Copies
    <3> HIDE DEF v, f, at, d, o, g, c, r
    <3>6. v \in Copies /\ v.docs = d
      BY <1>2, <3>3, <3>4, <3>5, CopiesByParts
    <3> QED BY <3>6 DEF d
  <2> QED BY <1>3, <2>1, <2>2 DEF DefermentOperation
<1> HIDE DEF v
<1>5. TypeOK'
  BY <1>1, <1>4 DEF TypeInv, TypeOK, committed, known, told
<1> QED BY <1>1, <1>2, <1>4, <1>5 DEF TypeInv, LockFits, Locked, committed, BooleansFit

(* What is written of the control document has its flags for booleans. *)
LEMMA ControlIsBoolean ==
    ASSUME NEW f, NEW u, NEW o, NEW doc, Writable(ControlDoc, f, u, o, doc)
    PROVE  f # None /\ o[ControlDoc] = u /\ \A k \in FieldName : IsBoolean(f[k])
  BY Names DEF Writable

LEMMA WrittenType ==
    ASSUME TypeInv, Locked, NEW op \in WriteOperation, Accepted(op, work)
    PROVE  Written(op, work) \in Copies /\ BooleansFit(Written(op, work).docs)
<1> DEFINE n == NameOf(op)
           out == Outcome(op, work)
           v == Written(op, work)
           doc == IF IsDelete(op) THEN None ELSE [fields |-> out.fields, updateTime |-> clock + 1]
           owner == IF IsDelete(op) THEN None ELSE work.request.by
           result == ResultOf(op, out)
<1>1. /\ work \in Copies /\ work.request \in WriteDocumentsRequest /\ work.docs \in View
      /\ work.globals \in Value \cup {None} /\ clock \in 0..MaxClock /\ clock \in Nat
  BY RequestAssumption, Bounds DEF TypeInv, TypeOK, Locked, Copies
<1>2. out.ok /\ Writable(n, out.fields, work.request.by, work.owners, work.docs[n])
  BY DEF Accepted
<1>3. /\ IsDelete(op) \/ out.fields \in Fields
      /\ out.globals \in Value \cup {None}
      /\ result \in WriteResult
  BY <1>1, <1>2, OutcomeType
<1>4. n \in DocumentName /\ owner \in Member \cup {None}
  BY <1>1, NamesOfOperations DEF WriteDocumentsRequest
<1> HIDE DEF out, result
<1>5. doc \in DocumentOrNone
  BY <1>1, <1>3, NewDocument DEF DocumentOrNone
<1>6. v = [work EXCEPT !.at = @ + 1, !.docs[n] = doc, !.owners[n] = owner,
                       !.globals = out.globals, !.results = Append(@, result),
                       !.changed = @ \cup {n}]
  BY DEF Written, out, result
<1> HIDE DEF n, doc, owner, v
<1>7. v \in Copies /\ v.docs = [work.docs EXCEPT ![n] = doc]
  <2> DEFINE d == [work.docs EXCEPT ![n] = doc]
             o == [work.owners EXCEPT ![n] = owner]
             c == work.changed \cup {n}
             r == Append(work.results, result)
  <2>1. /\ d \in View /\ o \in [DocumentName -> Member \cup {None}]
        /\ c \in SUBSET DocumentName /\ r \in Seq(WriteResult)
        /\ work.at + 1 \in Nat /\ work.deferments \in [DefermentName -> Deferment \cup {None}]
    BY <1>1, <1>3, <1>4, <1>5 DEF Copies, View
  <2>2. Becomes(v, work, work.at + 1, d, o, out.globals, work.deferments, c, r)
    BY <1>1, <1>6 DEF Copies, Becomes
  <2> HIDE DEF d, o, c, r
  <2>3. v \in Copies /\ v.docs = d
    BY <1>1, <1>3, <2>1, <2>2, CopiesByParts
  <2> QED BY <2>3 DEF d
<1>8. BooleansFit(v.docs)
  <2>1. CASE n # ControlDoc
    BY <1>1, <1>4, <1>7, <2>1, Names DEF BooleansFit, TypeInv, LockFits, View
  <2>2. CASE n = ControlDoc
    <3>1. v.docs[ControlDoc] = doc
      BY <1>1, <1>4, <1>7, <2>2 DEF View
    <3>2. \A k \in FieldName : IsBoolean(out.fields[k])
      BY <1>2, <2>2, ControlIsBoolean
    <3> QED BY <3>1, <3>2, Flags DEF BooleansFit, doc
  <2> QED BY <2>1, <2>2
<1> QED BY <1>7, <1>8 DEF v

LEMMA WriteType ==
    ASSUME IInv, TypeInv, Write PROVE TypeInv'
<1> DEFINE op == Writes[work.at]
           v == Written(op, work)
<1>1. /\ Locked /\ work.at <= Len(Writes)
      /\ work' = IF Accepted(op, work) THEN v ELSE None
      /\ UNCHANGED <<room, clock, committed, known, token, writer, publishing, told>>
  BY DEF Write, InWrites
<1>2. op \in WriteOperation
  <2>1. work.at \in Nat \ {0} /\ work.request \in WriteDocumentsRequest
    BY <1>1, RequestAssumption DEF IInv, CopiesFit
  <2>2. Writes \in Seq(WriteOperation)
    BY <2>1 DEF Writes, WriteDocumentsRequest
  <2> QED BY <1>1, <2>1, <2>2
<1> HIDE DEF op
<1>3. Accepted(op, work) => v \in Copies /\ BooleansFit(v.docs)
  BY <1>1, <1>2, WrittenType
<1> HIDE DEF v
<1>4. TypeOK'
  BY <1>1, <1>3 DEF TypeInv, TypeOK, committed, known, told
<1>5. Locked' => BooleansFit(work'.docs)
  BY <1>1, <1>3 DEF Locked
<1> QED BY <1>1, <1>4, <1>5 DEF TypeInv, LockFits, committed, BooleansFit

LEMMA CommitPublishes ==
    ASSUME TypeInv, Commit PROVE publishing' \in Publication /\ publishing' # None
<1> DEFINE p == [step |-> "commit", by |-> work.request.by, changed |-> work.changed,
                 response |-> [results |-> work.results, commitTime |-> clock + 1]]
<1>1. Locked /\ publishing' = p
  BY DEF Commit, Finished
<1>2. /\ work \in Copies /\ work.request \in WriteDocumentsRequest /\ clock + 1 \in Nat
  BY <1>1, RequestAssumption, Bounds DEF TypeInv, TypeOK, Locked, Copies
<1>3. p \in Publication
  BY <1>2 DEF Publication, Copies, WriteDocumentsRequest, WriteDocumentsResponse
<1> HIDE DEF p
<1> QED BY <1>1, <1>3, PublicationAssumption

LEMMA CommitType ==
    ASSUME TypeInv, Commit PROVE TypeInv'
<1> DEFINE p == [step |-> "commit", by |-> work.request.by, changed |-> work.changed,
                 response |-> [results |-> work.results, commitTime |-> clock + 1]]
<1>1. /\ Locked /\ docs' = work.docs /\ owners' = work.owners /\ globals' = work.globals
      /\ deferments' = [deferments EXCEPT ![work.request.by] = work.deferments]
      /\ clock' = clock + 1 /\ work' = None /\ publishing' = p
      /\ UNCHANGED <<room, known, token, writer, told>>
  BY DEF Commit, Finished
<1>2. /\ work \in Copies /\ work.request \in WriteDocumentsRequest
      /\ clock \in 0..MaxClock /\ clock < MaxClock
  BY <1>1, RequestAssumption DEF TypeInv, TypeOK, Locked, Copies, LockFits
<1>3. work.request.by \in Member /\ clock + 1 \in 0..MaxClock /\ clock + 1 \in Nat
  BY <1>2, Bounds DEF WriteDocumentsRequest
<1> HIDE DEF p
<1>4. publishing' \in Publication
  BY CommitPublishes
<1>5. TypeOK'
  BY <1>1, <1>2, <1>3, <1>4 DEF TypeInv, TypeOK, known, told, Copies
<1> QED BY <1>1, <1>5 DEF TypeInv, LockFits, Locked, BooleansFit

(* What updateRoomControl makes of the room. *)
LEMMA ControlledType ==
    ASSUME TypeInv, docs[ControlDoc] # None
    PROVE  Controlled(docs[ControlDoc].fields)
             \in [seats : Seq(Member), open : BOOLEAN, public : BOOLEAN, active : BOOLEAN]
<1> DEFINE f == docs[ControlDoc].fields
           Open == IF f["cp"] = None THEN room.open ELSE f["cp"].boolean
           Public == IF f["ip"] = None THEN room.public ELSE f["ip"].boolean
<1>1. room \in [seats : Seq(Member), open : BOOLEAN, public : BOOLEAN, active : BOOLEAN]
  BY DEF TypeInv, TypeOK
<1>2. f \in Fields
  BY Names DEF TypeInv, TypeOK, View, DocumentOrNone, Document
<1>3. Open \in BOOLEAN /\ Public \in BOOLEAN
  BY <1>1, <1>2, Flags DEF TypeInv, BooleansFit, Fields, MapValue
<1>4. Controlled(f) = IF ~ room.active THEN room
                      ELSE [room EXCEPT !.open = Open, !.public = Public]
  BY DEF Controlled
<1> HIDE DEF Open, Public, f
<1>5. Controlled(f) \in [seats : Seq(Member), open : BOOLEAN, public : BOOLEAN, active : BOOLEAN]
  BY <1>1, <1>3, <1>4
<1> QED BY <1>5 DEF f

(* The control document is there while its owner is. *)
LEMMA PublishCommitType ==
    ASSUME TypeInv, PublishCommit PROVE TypeInv'
<1>1. /\ publishing # None /\ publishing' = None
      /\ room' = IF ControlDoc \in publishing.changed /\ docs[ControlDoc] # None
                 THEN Controlled(docs[ControlDoc].fields) ELSE room
      /\ Publish(publishing.changed, docs)
      /\ UNCHANGED <<clock, committed, known, token, writer, work>>
  BY DEF PublishCommit
<1>2. room' \in [seats : Seq(Member), open : BOOLEAN, public : BOOLEAN, active : BOOLEAN]
  BY <1>1, ControlledType DEF TypeInv, TypeOK
<1>3. publishing.changed \in SUBSET DocumentName /\ docs \in View
  BY <1>1 DEF TypeInv, TypeOK, Publication
<1>4. /\ streams' \in [Stream -> [of : Member \cup {None},
                                  state : {"idle", "open", "failed", "closed"}]]
      /\ sent' \in [Stream -> [Targets -> View \cup {None}]]
  BY <1>1, <1>3, PublishType DEF TypeInv
<1>5. TypeOK'
  BY <1>1, <1>2, <1>4 DEF TypeInv, TypeOK, committed, known
<1> QED BY <1>1, <1>5 DEF TypeInv, LockFits, Locked, committed, BooleansFit

(* While the room is still to be told that it was opened again, its        *)
(* control document is there.                                              *)
ReopenFits ==
    publishing # None /\ publishing.step = "reopened" => docs[ControlDoc] # None

LEMMA ExpireType ==
    ASSUME TypeInv, NEW u \in Member, Expire(u) PROVE TypeInv' /\ ReopenFits'
<1> DEFINE p == [step |-> "depart", by |-> u, changed |-> DeletedWith(u), response |-> None]
           gone == [d \in DefermentName |-> None]
<1>1. /\ ~ Locked /\ publishing' = p
      /\ docs' = [n \in DocumentName |-> IF n \in DeletedWith(u) THEN None ELSE docs[n]]
      /\ owners' = [n \in DocumentName |-> IF n \in DeletedWith(u) THEN None ELSE owners[n]]
      /\ sessions' = sessions \ {u}
      /\ deferments' = [deferments EXCEPT ![u] = gone]
      /\ UNCHANGED <<room, clock, globals, nextSequence, sequence, token, writer, work, told>>
  BY DEF Expire, Publishing
<1>2. DeletedWith(u) \in SUBSET DocumentName
  BY Names DEF DeletedWith, DeferredBy, OwnedBy
<1> HIDE DEF DeletedWith
<1>3. p \in Publication /\ p.step = "depart"
  BY <1>2 DEF Publication
<1>4. gone \in [DefermentName -> Deferment \cup {None}]
  OBVIOUS
<1> HIDE DEF p, gone
<1>5. docs' \in View /\ owners' \in [DocumentName -> Member \cup {None}]
  BY <1>1 DEF TypeInv, TypeOK, View, DocumentOrNone
<1>6. TypeOK'
  BY <1>1, <1>3, <1>4, <1>5 DEF TypeInv, TypeOK, told
<1>7. BooleansFit(docs)'
  BY <1>1, Names DEF TypeInv, BooleansFit
<1> QED BY <1>1, <1>3, <1>6, <1>7 DEF TypeInv, LockFits, Locked, ReopenFits

(* One step of the call that has publication. *)
LEMMA GoesOn ==
    ASSUME publishing \in Publication, NEW step \in {"check", "reopened", "tell"},
           NEW c \in SUBSET DocumentName
    PROVE  LET p == [publishing EXCEPT !.step = step, !.changed = c] IN
           p \in Publication /\ p.step = step /\ p.changed = c
  BY DEF Publication

LEMMA DepartType ==
    ASSUME TypeInv, Depart PROVE TypeInv' /\ ReopenFits'
<1> DEFINE u == publishing.by
           left == Without(room.seats, {u})
           ends == left = <<>> \/ (IsRaid /\ u = Host /\ Seated(u))
<1>1. /\ publishing # None
      /\ room' = [room EXCEPT !.seats = left, !.open = @ /\ ~ ends, !.active = @ /\ ~ ends]
      /\ publishing' = [publishing EXCEPT !.step = "check"]
      /\ UNCHANGED <<clock, committed, known, token, writer, work, told>>
  BY DEF Depart, Goes
<1>2. room \in [seats : Seq(Member), open : BOOLEAN, public : BOOLEAN, active : BOOLEAN]
      /\ publishing \in Publication
  BY <1>1 DEF TypeInv, TypeOK
<1>3. left \in Seq(Member)
  BY <1>2, WithoutFacts
<1> HIDE DEF left, ends, u
<1>4. room' \in [seats : Seq(Member), open : BOOLEAN, public : BOOLEAN, active : BOOLEAN]
  BY <1>1, <1>2, <1>3
<1>5. publishing' \in Publication /\ publishing'.step = "check"
  BY <1>1, <1>2 DEF Publication
<1>6. TypeOK'
  BY <1>1, <1>4, <1>5 DEF TypeInv, TypeOK, committed, known, told
<1>7. ~ Locked
  BY <1>1 DEF TypeInv, LockFits
<1> QED BY <1>1, <1>5, <1>6, <1>7 DEF TypeInv, LockFits, Locked, ReopenFits, committed, BooleansFit

LEMMA CheckReopenType ==
    ASSUME TypeInv, CheckReopen PROVE TypeInv' /\ ReopenFits'
<1>1. /\ publishing # None /\ ~ Locked /\ clock < MaxClock
      /\ UNCHANGED <<room, owners, globals, deferments, known, token, writer, work, told>>
  BY DEF CheckReopen
<1>2. publishing \in Publication
  BY <1>1 DEF TypeInv, TypeOK
<1>3. CASE NeedsReopen /\ docs[ControlDoc] # None
  <2> DEFINE f == Reopened(docs[ControlDoc].fields)
             d == [fields |-> f, updateTime |-> clock + 1]
             c == publishing.changed \cup {ControlDoc}
  <2>1. /\ docs' = [docs EXCEPT ![ControlDoc] = d]
        /\ clock' = clock + 1
        /\ publishing' = [publishing EXCEPT !.step = "reopened", !.changed = c]
    BY <1>3 DEF CheckReopen
  <2>2. docs[ControlDoc].fields \in Fields
    BY <1>3, Names DEF TypeInv, TypeOK, View, DocumentOrNone, Document
  <2>3. f \in Fields /\ f["cp"] = Boolean(TRUE) /\ f["ip"] = Boolean(TRUE)
    BY <2>2, Flags DEF Reopened, Fields, MapValue
  <2> HIDE DEF f
  <2>4. d \in Document /\ d.fields = f
    BY <2>3, NewDocument DEF TypeInv, TypeOK
  <2> HIDE DEF d
  <2>5. docs' \in View /\ docs'[ControlDoc] = d /\ d # None
    BY <2>1, <2>4, Names, DocumentAssumption DEF TypeInv, TypeOK, View, DocumentOrNone
  <2>6. c \in SUBSET DocumentName
    BY <1>2, Names DEF Publication
  <2> HIDE DEF c
  <2>7. publishing' \in Publication
    BY <1>2, <2>1, <2>6, GoesOn
  <2>8. clock' \in 0..MaxClock
    BY <1>1, <2>1, Bounds DEF TypeInv, TypeOK
  <2>9. TypeOK'
    BY <1>1, <2>5, <2>7, <2>8 DEF TypeInv, TypeOK, known, told
  <2>10. BooleansFit(docs)'
    BY <2>3, <2>4, <2>5, Flags DEF BooleansFit
  <2> QED BY <1>1, <2>5, <2>9, <2>10 DEF TypeInv, LockFits, Locked, ReopenFits
<1>4. CASE ~ (NeedsReopen /\ docs[ControlDoc] # None)
  <2>1. UNCHANGED <<docs, clock>> /\ publishing' = [publishing EXCEPT !.step = "tell"]
    BY <1>4 DEF CheckReopen, Goes
  <2>2. publishing' \in Publication /\ publishing'.step = "tell"
    BY <1>2, <2>1 DEF Publication
  <2>3. TypeOK'
    BY <1>1, <2>1, <2>2 DEF TypeInv, TypeOK, known, told
  <2> QED BY <1>1, <2>1, <2>2, <2>3 DEF TypeInv, LockFits, Locked, ReopenFits, BooleansFit
<1> QED BY <1>3, <1>4

LEMMA PublishExpiryType ==
    ASSUME TypeInv, ReopenFits, PublishExpiry PROVE TypeInv' /\ ReopenFits'
<1>1. /\ publishing # None /\ publishing' = None
      /\ room' = IF publishing.step = "reopened" THEN Controlled(docs[ControlDoc].fields) ELSE room
      /\ Publish(publishing.changed, docs)
      /\ UNCHANGED <<clock, committed, known, token, writer, work>>
  BY DEF PublishExpiry
<1>2. room' \in [seats : Seq(Member), open : BOOLEAN, public : BOOLEAN, active : BOOLEAN]
  BY <1>1, ControlledType DEF TypeInv, TypeOK, ReopenFits
<1>3. publishing.changed \in SUBSET DocumentName /\ docs \in View
  BY <1>1 DEF TypeInv, TypeOK, Publication
<1>4. /\ streams' \in [Stream -> [of : Member \cup {None},
                                  state : {"idle", "open", "failed", "closed"}]]
      /\ sent' \in [Stream -> [Targets -> View \cup {None}]]
  BY <1>1, <1>3, PublishType DEF TypeInv
<1>5. TypeOK'
  BY <1>1, <1>2, <1>4 DEF TypeInv, TypeOK, committed, known
<1> QED BY <1>1, <1>5 DEF TypeInv, LockFits, Locked, committed, BooleansFit, ReopenFits

LEMMA ReopenStays ==
    ASSUME IInv, TypeInv, ReopenFits, [Next]_vars,
           UNCHANGED publishing \/ publishing' = None \/ publishing'.step # "reopened"
    PROVE  ReopenFits'
<1>1. CASE UNCHANGED publishing
  <2>1. publishing # None => ~ Locked
    BY DEF TypeInv, LockFits
  <2>2. ASSUME NEW u \in Member, InitializeFixedData(u), docs[ControlDoc] # None
        PROVE docs'[ControlDoc] # None
    <3> DEFINE f == [NoFields EXCEPT !["cp"] = Boolean(token[u].open),
                                     !["ip"] = Boolean(token[u].public),
                                     !["ebf"] = Boolean(FALSE)]
               control == [fields |-> f, updateTime |-> clock + 1]
    <3>1. \/ docs' = docs
          \/ docs' = [docs EXCEPT ![FixedDoc] = [fields |-> NoFields, updateTime |-> clock + 1],
                                  ![ControlDoc] = control]
      BY <2>2 DEF InitializeFixedData
    <3>2. token[u].open \in BOOLEAN /\ token[u].public \in BOOLEAN
      BY DEF TypeInv, TypeOK, Call
    <3>3. f \in Fields
      BY <3>2, Flags, PlainFields DEF Fields, MapValue
    <3> HIDE DEF f
    <3>4. control # None
      BY <3>3, ANewDocumentIsThere DEF IInv
    <3> HIDE DEF control
    <3> QED BY <2>2, <3>1, <3>4, Names DEF TypeInv, TypeOK, View
  <2>3. ASSUME NEW u \in Member, Remember(u) PROVE docs'[ControlDoc] = docs[ControlDoc]
    BY <2>3, Names DEF Remember, TypeInv, TypeOK, View
  <2>4. ASSUME publishing # None PROVE ~ \E u \in Member : Expire(u)
    BY <2>4 DEF Expire, Publishing
  <2>5. CheckReopen => publishing' # publishing
    <3>1. ASSUME CheckReopen PROVE publishing'.step # publishing.step
      <4>1. publishing \in Publication /\ publishing.step = "check"
        BY <3>1 DEF CheckReopen, TypeInv, TypeOK
      <4>2. \/ publishing' = [publishing EXCEPT !.step = "reopened",
                                                !.changed = @ \cup {ControlDoc}]
            \/ publishing' = [publishing EXCEPT !.step = "tell"]
        BY <3>1 DEF CheckReopen, Goes
      <4> QED BY <4>1, <4>2 DEF Publication
    <3> QED BY <3>1
  <2>6. Commit => publishing = None /\ publishing'.step = "commit"
    BY DEF Commit, Finished, TypeInv, LockFits
  <2>7. (\E u \in Member : Begin(u)) \/ (\E r \in Requests : Authorize(r)) \/ Write \/ Defer
        => UNCHANGED docs
    BY DEF Begin, Authorize, Write, Defer, committed
  <2> QED BY <1>1, <2>1, <2>2, <2>3, <2>4, <2>5, <2>6, <2>7, StepCases, AsideChangesNothing
           DEF ReopenFits
<1>2. CASE publishing' = None \/ publishing'.step # "reopened"
  BY <1>2 DEF ReopenFits
<1> QED BY <1>1, <1>2

LEMMA TypeStep ==
    ASSUME IInv, TypeInv, ReopenFits, [Next]_vars PROVE TypeInv'
<1>1. ASSUME NEW u \in Member, Admit(u) \/ InitializeFixedData(u) \/ Remember(u)
      PROVE  TypeInv'
  BY <1>1, AdmitType, SeedType, RememberType
<1>2. ASSUME NEW r \in IssueTokenRequest, CheckMember(r) PROVE TypeInv'
  BY <1>2, CheckMemberType
<1>3. ASSUME NEW s \in Stream, NEW u \in Member, OpenStream(s, u) PROVE TypeInv'
  BY <1>3, OpenStreamType
<1>4. ASSUME NEW s \in Stream, NEW r \in StreamRequests, Receive(s, r) PROVE TypeInv'
  BY <1>4, ReceiveType
<1>5. ASSUME NEW s \in Stream, CloseStream(s) PROVE TypeInv'
  BY <1>5, CloseStreamType
<1>6. ASSUME NEW r \in Requests, Authorize(r) PROVE TypeInv'
  BY <1>6, AuthorizeType
<1>7. ASSUME NEW u \in Member, Begin(u) \/ Expire(u) PROVE TypeInv'
  BY <1>7, BeginType, ExpireType
<1>8. Write \/ Defer \/ Commit \/ PublishCommit \/ Depart \/ CheckReopen \/ PublishExpiry
      => TypeInv'
  BY WriteType, DeferType, CommitType, PublishCommitType, DepartType, CheckReopenType,
     PublishExpiryType
<1>9. CASE UNCHANGED vars
  BY <1>9 DEF vars, committed, known, told, TypeInv, TypeOK, LockFits, Locked, BooleansFit
<1> QED BY <1>1, <1>2, <1>3, <1>4, <1>5, <1>6, <1>7, <1>8, <1>9 DEF Next

LEMMA ReopenStep ==
    ASSUME IInv, TypeInv, ReopenFits, [Next]_vars PROVE ReopenFits'
<1>1. ASSUME NEW u \in Member, Expire(u) PROVE ReopenFits'
  BY <1>1, ExpireType
<1>2. Depart \/ CheckReopen \/ PublishExpiry => ReopenFits'
  BY DepartType, CheckReopenType, PublishExpiryType
<1>3. PublishCommit => publishing' = None
  BY DEF PublishCommit
<1>4. Commit => publishing'.step = "commit"
  BY DEF Commit
<1>5. \/ \E u \in Member : Admit(u) \/ InitializeFixedData(u) \/ Remember(u) \/ Begin(u)
      \/ \E r \in IssueTokenRequest : CheckMember(r)
      \/ \E s \in Stream, u \in Member : OpenStream(s, u)
      \/ \E s \in Stream, r \in StreamRequests : Receive(s, r)
      \/ \E s \in Stream : CloseStream(s)
      \/ \E r \in Requests : Authorize(r)
      \/ Write \/ Defer
      \/ UNCHANGED vars
      => UNCHANGED publishing
  BY DEF Admit, InitializeFixedData, Remember, Begin, CheckMember, OpenStream, Receive,
         CloseStream, Authorize, Write, Defer, vars
<1> QED BY <1>1, <1>2, <1>3, <1>4, <1>5, ReopenStays DEF Next

(* The types of all state, with what they rest on. *)
LEMMA TypeTheorem == Spec => [](IInv /\ TypeInv /\ ReopenFits)
<1>1. Init => IInv /\ TypeInv /\ ReopenFits
  BY InitIInv, TypeInvInit DEF Init, ReopenFits
<1>2. IInv /\ TypeInv /\ ReopenFits /\ [Next]_vars => (IInv /\ TypeInv /\ ReopenFits)'
  BY NextIInv, TypeStep, ReopenStep
<1> QED BY <1>1, <1>2, PTL DEF Spec
-----------------------------------------------------------------------------
(* What streams are told                                                   *)
(*                                                                         *)
(* While a call has publication, what it has changed is stale in the views *)
(* of the streams; everything else they show is committed.                 *)

Stale == IF publishing = None THEN {} ELSE publishing.changed

(* A view v of the target t shows the documents d, but for those of c. *)
Shows(v, t, d, c) ==
    \A n \in DocumentName :
        /\ ~ Matches(t, n) => v[n] = None
        /\ Matches(t, n) /\ n \notin c => v[n] = d[n]

StreamsTold ==
    \A s \in Stream : streams[s].state = "open" =>
        \A t \in Targets : sent[s][t] # None => Shows(sent[s][t], t, docs, Stale)

(* An open stream is of a session; one that was not opened yet was told    *)
(* nothing.                                                                *)
StreamsFit ==
    \A s \in Stream :
        /\ streams[s].state = "open" => streams[s].of \in sessions
        /\ streams[s].state = "idle" => \A t \in Targets : sent[s][t] = None

(* Nobody is connected before the room is seeded. *)
SeedFits ==
    docs[FixedDoc] = None => sessions = {} /\ \A u \in Member : token[u].step # "seeded"

(* A call knows what it has changed. *)
ChangesFit ==
    Locked => \A n \in DocumentName : n \notin work.changed => work.docs[n] = docs[n]

StreamsInv == StreamsTold /\ StreamsFit /\ SeedFits /\ ChangesFit

LEMMA StreamsInvInit == Init => StreamsInv
  BY DEF Init, StreamsInv, StreamsTold, StreamsFit, SeedFits, ChangesFit, Locked, NoCall

LEMMA ChangedByWritten ==
    ASSUME NEW op, NEW w, DOMAIN w = CopyFields, DOMAIN w.docs = DocumentName
    PROVE  LET v == Written(op, w) IN
           /\ v.changed = w.changed \cup {NameOf(op)}
           /\ \A n \in DocumentName : n # NameOf(op) => v.docs[n] = w.docs[n]
  BY DEF Written, CopyFields

LEMMA ChangedByDeferred ==
    ASSUME NEW op, NEW w, DOMAIN w = CopyFields
    PROVE  Deferred(op, w).changed = w.changed
  BY DEF Deferred, CopyFields

LEMMA ChangesStep ==
    ASSUME IInv, ChangesFit, [Next]_vars PROVE ChangesFit'
<1>1. ASSUME NEW u \in Member,
             InitializeFixedData(u) \/ Remember(u) \/ Expire(u) PROVE ChangesFit'
  <2>1. ~ Locked /\ UNCHANGED work
    BY <1>1 DEF InitializeFixedData, Remember, Expire, Publishing
  <2> QED BY <2>1 DEF ChangesFit, Locked
<1>2. ASSUME CheckReopen \/ Commit PROVE ChangesFit'
  BY <1>2 DEF CheckReopen, Commit, ChangesFit, Locked
<1>3. ASSUME NEW u \in Member, Begin(u) PROVE ChangesFit'
  <2>1. /\ ~ Locked /\ UNCHANGED docs
        /\ UNCHANGED work \/ work'.docs = docs
    BY <1>3 DEF Begin, Start, committed, Publishing
  <2> QED BY <2>1 DEF ChangesFit, Locked
<1>4. ASSUME Write PROVE ChangesFit'
  <2> DEFINE op == Writes[work.at]
             v == Written(op, work)
  <2>1. Locked /\ UNCHANGED docs /\ work' \in {v, None}
    BY <1>4 DEF Write, InWrites, committed
  <2>2. DOMAIN work = CopyFields /\ DOMAIN work.docs = DocumentName
    BY <2>1 DEF IInv, CopiesFit, DocsFit
  <2> HIDE DEF op
  <2>3. /\ v.changed = work.changed \cup {NameOf(op)}
        /\ \A n \in DocumentName : n # NameOf(op) => v.docs[n] = work.docs[n]
    BY <2>2, ChangedByWritten
  <2> HIDE DEF v
  <2> QED BY <2>1, <2>3 DEF ChangesFit, Locked
<1>5. ASSUME Defer PROVE ChangesFit'
  <2> DEFINE op == Deferments[work.at - Len(Writes)]
             v == Deferred(op, work)
  <2>1. Locked /\ UNCHANGED docs /\ work' \in {v, None}
    BY <1>5 DEF Defer, InDeferments, committed
  <2>2. DOMAIN work = CopyFields
    BY <2>1 DEF IInv, CopiesFit
  <2> HIDE DEF op
  <2>3. v.changed = work.changed /\ v.docs = work.docs
    BY <2>2, ChangedByDeferred, CopiesOfDeferred
  <2> HIDE DEF v
  <2> QED BY <2>1, <2>3 DEF ChangesFit, Locked
<1>6. ASSUME (\E r \in Requests : Authorize(r)) \/ Aside PROVE ChangesFit'
  <2>1. UNCHANGED <<docs, work>>
    BY <1>6, AsideChangesNothing DEF Authorize, committed
  <2> QED BY <2>1 DEF ChangesFit, Locked
<1> QED BY <1>1, <1>2, <1>3, <1>4, <1>5, <1>6, StepCases

LEMMA SeedStep ==
    ASSUME IInv, TypeInv, SeedFits, [Next]_vars PROVE SeedFits'
<1>0. DOMAIN token = Member /\ NoCall.step # "seeded"
  BY DEF TypeInv, TypeOK, NoCall
<1>1. ASSUME NEW u \in Member, InitializeFixedData(u) PROVE SeedFits'
  <2>1. CASE docs[FixedDoc] # None
    BY <1>1, <2>1 DEF InitializeFixedData, SeedFits
  <2>2. CASE docs[FixedDoc] = None
    <3> DEFINE fixed == [fields |-> NoFields, updateTime |-> clock + 1]
    <3>1. \E control : docs' = [docs EXCEPT ![FixedDoc] = fixed, ![ControlDoc] = control]
      BY <1>1, <2>2 DEF InitializeFixedData
    <3>2. fixed # None
      BY ANewDocumentIsThere, PlainFields DEF IInv
    <3> HIDE DEF fixed
    <3> QED BY <3>1, <3>2, Names DEF SeedFits, IInv, MapsFit, DocsFit
  <2> QED BY <2>1, <2>2
<1>2. ASSUME NEW u \in Member, Remember(u) PROVE SeedFits'
  BY <1>2, Names DEF Remember, SeedFits, IInv, MapsFit, DocsFit
<1>3. ASSUME NEW u \in Member, Expire(u) PROVE SeedFits'
  <2>1. FixedDoc \notin DeletedWith(u)
    BY DeletedIsOwn, Names, NoneAssumption DEF IInv, MapsFit, OwnersFit
  <2>2. docs'[FixedDoc] = docs[FixedDoc] /\ sessions' = sessions \ {u} /\ UNCHANGED token
    BY <1>3, <2>1, Names DEF Expire
  <2> QED BY <2>2 DEF SeedFits
<1>4. ASSUME Commit PROVE SeedFits'
  <2>1. docs'[FixedDoc] = docs[FixedDoc] /\ UNCHANGED <<sessions, token>>
    BY <1>4 DEF Commit, Finished, IInv, CopiesFit, known
  <2> QED BY <2>1 DEF SeedFits
<1>5. ASSUME CheckReopen PROVE SeedFits'
  <2>1. docs'[FixedDoc] = docs[FixedDoc] /\ UNCHANGED <<sessions, token>>
    BY <1>5, Names DEF CheckReopen, known, IInv, MapsFit, DocsFit
  <2> QED BY <2>1 DEF SeedFits
<1>6. ASSUME NEW r \in IssueTokenRequest, CheckMember(r) PROVE SeedFits'
  <2>1. /\ UNCHANGED <<docs, sessions>>
        /\ token' = [token EXCEPT ![r.session] =
                       [step |-> "checked", first |-> room.seats[1],
                        open |-> room.open, public |-> room.public]]
    BY <1>6 DEF CheckMember, committed, known
  <2> QED BY <1>0, <2>1 DEF SeedFits
<1>7. ASSUME UNCHANGED <<docs, sessions, token>> PROVE SeedFits'
  BY <1>7 DEF SeedFits
<1>8. \/ \E u \in Member : Admit(u) \/ Begin(u)
      \/ \E s \in Stream, u \in Member : OpenStream(s, u)
      \/ \E s \in Stream, r \in StreamRequests : Receive(s, r)
      \/ \E s \in Stream : CloseStream(s)
      \/ \E r \in Requests : Authorize(r)
      \/ Write \/ Defer \/ PublishCommit \/ Depart \/ PublishExpiry
      \/ UNCHANGED vars
      => UNCHANGED <<docs, sessions, token>>
  BY DEF Admit, Begin, OpenStream, Receive, CloseStream, Authorize, Write, Defer,
         PublishCommit, Depart, PublishExpiry, vars, committed, known
<1> QED BY <1>1, <1>2, <1>3, <1>4, <1>5, <1>6, <1>7, <1>8 DEF Next

-----------------------------------------------------------------------------
(* Each step, to the streams *)

Told == StreamsTold /\ StreamsFit

(* The streams are told nothing, and no more is stale than what they are   *)
(* still to be told.                                                       *)
LEMMA ToldNothing ==
    ASSUME Told, UNCHANGED <<streams, sent>>,
           \A u \in sessions \ sessions' : ~ Streaming(u),
           Stale \subseteq Stale',
           \A n \in DocumentName : docs'[n] # docs[n] => n \in Stale'
    PROVE  Told'
<1>1. StreamsFit'
  BY DEF Told, StreamsFit, Streaming
<1>2. ASSUME NEW s \in Stream, streams'[s].state = "open",
             NEW t \in Targets, sent'[s][t] # None
      PROVE  Shows(sent'[s][t], t, docs', Stale')
  BY <1>2 DEF Told, StreamsTold, Shows
<1> QED BY <1>1, <1>2 DEF Told, StreamsTold

(* Or they are told of names, what there is of these in the documents.     *)
LEMMA ToldNames ==
    ASSUME TypeInv, Told, NEW names \in SUBSET DocumentName, docs' \in View,
           Publish(names, docs'), sessions \subseteq sessions', Stale' = {},
           Stale \subseteq names,
           \A n \in DocumentName : docs'[n] # docs[n] => n \in names
    PROVE  Told'
<1>1. \A s \in Stream : sent[s] \in Views
  BY DEF TypeInv, TypeOK, Views
<1>2. sent' = [s \in Stream |-> HeardAll(sent[s], Changes(s, names, docs'))]
  BY DEF Publish
<1>3. PICK full \in SUBSET Stream :
        streams' = [s \in Stream |->
           IF s \in full THEN [streams[s] EXCEPT !.state = "failed"] ELSE streams[s]]
  BY DEF Publish
<1>4. \A s \in Stream : streams[s] \in [of : Member \cup {None},
                                      state : {"idle", "open", "failed", "closed"}]
  BY DEF TypeInv, TypeOK
<1>5. \A s \in Stream : /\ streams'[s].state = "open" => streams'[s] = streams[s]
                        /\ streams'[s].state = "idle" => streams'[s] = streams[s]
  BY <1>3, <1>4
<1>6. ASSUME NEW s \in Stream, NEW t \in Targets
      PROVE  /\ sent[s][t] = None => sent'[s][t] = None
             /\ sent[s][t] # None => \A n \in DocumentName :
                  sent'[s][t][n] = IF n \in names /\ Matches(t, n) THEN docs'[n] ELSE sent[s][t][n]
  <2> DEFINE v == HeardAll(sent[s], Changes(s, names, docs'))
  <2>1. \A x \in Targets :
                /\ sent[s][x] = None => v[x] = None
                /\ sent[s][x] # None =>
                      /\ v[x] \in View
                      /\ \A n \in DocumentName :
                           v[x][n] = IF n \in names /\ Matches(x, n) THEN docs'[n] ELSE sent[s][x][n]
    BY <1>1, ToldChanges
  <2>2. sent'[s] = v
    BY <1>2
  <2> HIDE DEF v
  <2> QED BY <2>1, <2>2
<1>7. StreamsFit'
  BY <1>5, <1>6 DEF Told, StreamsFit
<1>8. ASSUME NEW s \in Stream, streams'[s].state = "open",
             NEW t \in Targets, sent'[s][t] # None
      PROVE  Shows(sent'[s][t], t, docs', Stale')
  <2>1. sent[s][t] # None /\ Shows(sent[s][t], t, docs, Stale)
    BY <1>5, <1>6, <1>8 DEF Told, StreamsTold
  <2> QED BY <1>6, <2>1 DEF Shows
<1> QED BY <1>7, <1>8 DEF Told, StreamsTold

LEMMA RememberTold ==
    ASSUME IInv, TypeInv, TypeInv', Told, NEW u \in Member, Remember(u) PROVE Told'
<1>1. publishing = None /\ Stale = {} /\ Stale' = {}
  BY DEF Remember, Publishing, Stale
<1>2. CASE u \in sessions
  BY <1>1, <1>2, ToldNothing DEF Remember, known, told
<1>3. CASE u \notin sessions
  <2>1. /\ Publish({SessionDoc(u)}, docs') /\ sessions' = sessions \cup {u}
        /\ \A n \in DocumentName : docs'[n] # docs[n] => n \in {SessionDoc(u)}
    BY <1>3 DEF Remember, TypeInv, TypeOK, View
  <2>2. docs' \in View /\ {SessionDoc(u)} \in SUBSET DocumentName
    BY Names DEF TypeInv, TypeOK
  <2> QED BY <1>1, <2>1, <2>2, ToldNames
<1> QED BY <1>2, <1>3

LEMMA PublishTold ==
    ASSUME TypeInv, Told, PublishCommit \/ PublishExpiry PROVE Told'
<1>1. /\ publishing # None /\ publishing' = None /\ Publish(publishing.changed, docs)
      /\ UNCHANGED <<docs, sessions>>
  BY DEF PublishCommit, PublishExpiry, committed, known
<1>2. Stale = publishing.changed /\ Stale' = {}
  BY <1>1 DEF Stale
<1>3. publishing.changed \in SUBSET DocumentName /\ docs \in View
  BY <1>1 DEF TypeInv, TypeOK, Publication
<1>4. Publish(publishing.changed, docs')
  BY <1>1
<1> QED BY <1>1, <1>2, <1>3, <1>4, ToldNames

LEMMA SeedTold ==
    ASSUME IInv, TypeInv, StreamsInv, NEW u \in Member, InitializeFixedData(u) PROVE Told'
<1>1. UNCHANGED <<publishing, streams, sent, sessions>>
  BY DEF InitializeFixedData, known, told
<1>2. CASE docs[FixedDoc] # None
  BY <1>1, <1>2, ToldNothing DEF InitializeFixedData, Stale, StreamsInv, Told
<1>3. CASE docs[FixedDoc] = None
  BY <1>1, <1>3 DEF StreamsInv, SeedFits, StreamsFit, Told, StreamsTold
<1> QED BY <1>2, <1>3

LEMMA OpenStreamTold ==
    ASSUME TypeInv, Told, NEW s \in Stream, NEW u \in Member, OpenStream(s, u) PROVE Told'
<1>1. /\ streams[s].state = "idle" /\ u \in sessions
      /\ streams' = [streams EXCEPT ![s] = [of |-> u, state |-> "open"]]
      /\ UNCHANGED <<docs, sessions, publishing, sent>>
  BY DEF OpenStream, committed, known
<1>2. streams'[s].state = "open" /\ streams'[s].of = u
      /\ \A r \in Stream : r # s => streams'[r] = streams[r]
  BY <1>1 DEF TypeInv, TypeOK
<1>3. Stale' = Stale
  BY <1>1 DEF Stale
<1> QED BY <1>1, <1>2, <1>3 DEF Told, StreamsTold, StreamsFit, Shows

LEMMA CloseStreamTold ==
    ASSUME TypeInv, Told, NEW s \in Stream, CloseStream(s) PROVE Told'
<1>1. /\ streams' = [streams EXCEPT ![s].state = "closed"]
      /\ sent' = [sent EXCEPT ![s] = [t \in Targets |-> None]]
      /\ UNCHANGED <<docs, sessions, publishing>>
  BY DEF CloseStream, committed, known
<1>2. streams'[s].state = "closed"
      /\ \A r \in Stream : r # s => streams'[r] = streams[r] /\ sent'[r] = sent[r]
  BY <1>1 DEF TypeInv, TypeOK
<1>3. Stale' = Stale
  BY <1>1 DEF Stale
<1> QED BY <1>1, <1>2, <1>3 DEF Told, StreamsTold, StreamsFit, Shows

LEMMA ReceiveTold ==
    ASSUME TypeInv, Told, NEW s \in Stream, NEW r \in StreamRequests, Receive(s, r) PROVE Told'
<1>1. UNCHANGED <<docs, sessions, publishing, streams>> /\ streams[s].state = "open"
  BY DEF Receive, committed, known
<1>2. PICK t \in Targets :
        \/ ~ Publishing /\ sent' = [sent EXCEPT ![s] = [sent[s] EXCEPT ![t] = Shown(t, docs)]]
        \/ sent' = [sent EXCEPT ![s] = [sent[s] EXCEPT ![t] = None]]
  BY ReceiveCases DEF TypeInv
<1>3. PICK y : /\ sent' = [sent EXCEPT ![s] = [sent[s] EXCEPT ![t] = y]]
               /\ y = None \/ y = Shown(t, docs)
  BY <1>2
<1>4. sent'[s][t] = y
      /\ \A q \in Stream, x \in Targets : q # s \/ x # t => sent'[q][x] = sent[q][x]
  BY <1>3 DEF TypeInv, TypeOK
<1>5. Shows(Shown(t, docs), t, docs, Stale)
  BY DEF Shows, Shown
<1>6. Stale' = Stale
  BY <1>1 DEF Stale
<1>7. StreamsFit'
  BY <1>1, <1>4 DEF Told, StreamsFit
<1>8. ASSUME NEW q \in Stream, streams'[q].state = "open",
             NEW x \in Targets, sent'[q][x] # None
      PROVE  Shows(sent'[q][x], x, docs', Stale')
  <2>1. CASE q = s /\ x = t
    BY <1>1, <1>3, <1>4, <1>5, <1>6, <1>8, <2>1
  <2>2. CASE q # s \/ x # t
    BY <1>1, <1>4, <1>6, <1>8, <2>2 DEF Told, StreamsTold
  <2> QED BY <2>1, <2>2
<1> QED BY <1>7, <1>8 DEF Told, StreamsTold

LEMMA StreamsStep ==
    ASSUME IInv, TypeInv, TypeInv', StreamsInv, [Next]_vars PROVE Told'
<1>0. Told
  BY DEF StreamsInv, Told
<1>1. ASSUME NEW u \in Member, InitializeFixedData(u) \/ Remember(u) PROVE Told'
  BY <1>0, <1>1, SeedTold, RememberTold
<1>2. PublishCommit \/ PublishExpiry => Told'
  BY <1>0, PublishTold
<1>3. ASSUME NEW s \in Stream, NEW u \in Member, OpenStream(s, u) PROVE Told'
  BY <1>0, <1>3, OpenStreamTold
<1>4. ASSUME NEW s \in Stream, NEW r \in StreamRequests, Receive(s, r) PROVE Told'
  BY <1>0, <1>4, ReceiveTold
<1>5. ASSUME NEW s \in Stream, CloseStream(s) PROVE Told'
  BY <1>0, <1>5, CloseStreamTold
<1>6. ASSUME NEW u \in Member, Expire(u) PROVE Told'
  <2>1. /\ publishing = None /\ ~ Streaming(u) /\ sessions' = sessions \ {u}
        /\ publishing' = [step |-> "depart", by |-> u, changed |-> DeletedWith(u),
                          response |-> None]
        /\ docs' = [n \in DocumentName |-> IF n \in DeletedWith(u) THEN None ELSE docs[n]]
        /\ UNCHANGED <<streams, sent>>
    BY <1>6 DEF Expire, Publishing, told
  <2>2. publishing' # None
    <3>1. publishing' \in Publication \cup {None} /\ DeletedWith(u) \in SUBSET DocumentName
      BY Names DEF TypeInv, TypeOK, DeletedWith, DeferredBy, OwnedBy
    <3> HIDE DEF DeletedWith
    <3>2. publishing' \in Publication
      BY <2>1, <3>1 DEF Publication
    <3> QED BY <3>2, PublicationAssumption
  <2>3. Stale = {} /\ Stale' = DeletedWith(u)
    BY <2>1, <2>2 DEF Stale
  <2> HIDE DEF DeletedWith
  <2> QED BY <1>0, <2>1, <2>3, ToldNothing
<1>7. ASSUME Commit PROVE Told'
  <2>1. /\ Locked /\ docs' = work.docs
        /\ publishing' = [step |-> "commit", by |-> work.request.by, changed |-> work.changed,
                       response |-> [results |-> work.results, commitTime |-> clock + 1]]
        /\ UNCHANGED <<sessions, streams, sent>>
    BY <1>7 DEF Commit, Finished, known, told
  <2>2. publishing = None
    BY <2>1 DEF TypeInv, LockFits
  <2>3. publishing' # None
    BY <1>7, CommitPublishes
  <2>4. Stale = {} /\ Stale' = work.changed
    BY <2>1, <2>2, <2>3 DEF Stale
  <2>5. \A n \in DocumentName : docs'[n] # docs[n] => n \in work.changed
    BY <2>1 DEF StreamsInv, ChangesFit
  <2> QED BY <1>0, <2>1, <2>4, <2>5, ToldNothing
<1>8. ASSUME CheckReopen PROVE Told'
  <2>1. /\ publishing # None /\ UNCHANGED <<sessions, streams, sent>>
    BY <1>8 DEF CheckReopen, known, told
  <2>2. publishing \in Publication
    BY <2>1 DEF TypeInv, TypeOK
  <2>3. CASE NeedsReopen /\ docs[ControlDoc] # None
    <3>1. /\ publishing' = [publishing EXCEPT !.step = "reopened",
                                              !.changed = publishing.changed \cup {ControlDoc}]
          /\ \A n \in DocumentName : docs'[n] # docs[n] => n = ControlDoc
      BY <1>8, <2>3, Names DEF CheckReopen, TypeInv, TypeOK, View
    <3>2. publishing.changed \cup {ControlDoc} \in SUBSET DocumentName
      BY <2>2, Names DEF Publication
    <3>3. publishing' \in Publication /\ publishing'.changed = publishing.changed \cup {ControlDoc}
      BY <2>2, <3>1, <3>2, GoesOn
    <3>4. Stale = publishing.changed /\ Stale' = publishing.changed \cup {ControlDoc}
      BY <2>1, <3>3, PublicationAssumption DEF Stale
    <3> QED BY <1>0, <2>1, <3>1, <3>4, ToldNothing
  <2>4. CASE ~ (NeedsReopen /\ docs[ControlDoc] # None)
    <3>1. UNCHANGED docs /\ publishing' = [publishing EXCEPT !.step = "tell"]
      BY <1>8, <2>4 DEF CheckReopen, Goes
    <3>2. publishing' \in Publication /\ publishing'.changed = publishing.changed
      BY <2>2, <3>1 DEF Publication
    <3>3. Stale' = Stale
      BY <2>1, <3>2, PublicationAssumption DEF Stale
    <3> QED BY <1>0, <2>1, <3>1, <3>3, ToldNothing
  <2> QED BY <2>3, <2>4
<1>9. ASSUME Depart PROVE Told'
  <2>1. /\ publishing # None /\ publishing' = [publishing EXCEPT !.step = "check"]
        /\ UNCHANGED <<docs, sessions, streams, sent>>
    BY <1>9 DEF Depart, Goes, committed, known, told
  <2>2. publishing' \in Publication /\ publishing'.changed = publishing.changed
    BY <2>1 DEF Publication, TypeInv, TypeOK
  <2>3. Stale' = Stale
    BY <2>1, <2>2, PublicationAssumption DEF Stale
  <2> QED BY <1>0, <2>1, <2>3, ToldNothing
<1>10. ASSUME UNCHANGED <<docs, sessions, publishing, streams, sent>> PROVE Told'
  <2>1. Stale' = Stale
    BY <1>10 DEF Stale
  <2> QED BY <1>0, <1>10, <2>1, ToldNothing
<1>11. \/ \E u \in Member : Admit(u) \/ Begin(u)
       \/ \E r \in IssueTokenRequest : CheckMember(r)
       \/ \E r \in Requests : Authorize(r)
       \/ Write \/ Defer
       \/ UNCHANGED vars
       => UNCHANGED <<docs, sessions, publishing, streams, sent>>
  BY DEF Admit, Begin, CheckMember, Authorize, Write, Defer, vars, committed, known, told
<1> QED BY <1>1, <1>2, <1>3, <1>4, <1>5, <1>6, <1>7, <1>8, <1>9, <1>10, <1>11 DEF Next

LEMMA StreamsTheorem == Spec => [](IInv /\ TypeInv /\ StreamsInv)
<1>1. Init => StreamsInv
  BY StreamsInvInit
<1>2. IInv /\ TypeInv /\ TypeInv' /\ StreamsInv /\ [Next]_vars => StreamsInv'
  BY ChangesStep, SeedStep, StreamsStep DEF StreamsInv, Told
<1> QED BY <1>1, <1>2, TypeTheorem, PTL DEF Spec

(* What a stream was told adds up to what its member would read, for any   *)
(* number of members, streams, targets and requests.                       *)
THEOREM StreamsFollowTheorem == Spec => []StreamsFollow
<1>1. IInv /\ TypeInv /\ StreamsInv => StreamsFollow
  <2> SUFFICES ASSUME IInv, TypeInv, StreamsInv PROVE StreamsFollow
    OBVIOUS
  <2>1. ASSUME ~ Publishing, NEW s \in Stream, streams[s].state = "open",
               NEW t \in Targets, sent[s][t] # None, NEW n \in DocumentName
        PROVE  /\ sent[s][t][n] = IF Matches(t, n)
                   THEN GetDocument(streams[s].of, [name |-> n, mask |-> Everything]) ELSE None
               /\ Matches(t, n) =>
                   ReadDocuments([names |-> <<n>>, mask |-> Everything]).results[1] =
                      IF sent[s][t][n] = None THEN [missing |-> n] ELSE [found |-> sent[s][t][n]]
    <3>1. Stale = {} /\ streams[s].of \in sessions
      BY <2>1 DEF Publishing, Stale, StreamsInv, StreamsFit
    <3>2. Shows(sent[s][t], t, docs, Stale)
      BY <2>1 DEF StreamsInv, StreamsTold
    <3>3. sent[s][t][n] = IF Matches(t, n) THEN docs[n] ELSE None
      BY <3>1, <3>2 DEF Shows
    <3>4. GetDocument(streams[s].of, [name |-> n, mask |-> Everything]) = docs[n]
      BY <3>1 DEF GetDocument, Masked
    <3>5. ReadDocuments([names |-> <<n>>, mask |-> Everything]).results[1] =
             IF docs[n] = None THEN [missing |-> n] ELSE [found |-> docs[n]]
      BY DEF ReadDocuments, Masked
    <3> QED BY <3>3, <3>4, <3>5
  <2> QED BY <2>1 DEF StreamsFollow, TypeInv
<1> QED BY <1>1, StreamsTheorem, PTL

-----------------------------------------------------------------------------
(* The flags of the room                                                   *)
(*                                                                         *)
(* The registry follows the control document one step later: what holds at *)
(* any time is that the document has both flags, and that they are the     *)
(* registry's unless a change of theirs is still to be published.          *)

(* An update of the control document that names one of the two flags gives *)
(* it a value, as the game's do: without one the field would go and the    *)
(* registry keep the flag.                                                 *)
WholeControls ==
    \A r \in Requests : \A i \in DOMAIN r.writes :
        LET op == r.writes[i] IN
        NameOf(op) = ControlDoc /\ "update" \in DOMAIN op /\ op.fields # None =>
            \A f \in {"cp", "ip"} : op.mask = Everything \/ f \in op.mask => op.fields[f] # None

HasFlags(f) == \A k \in {"cp", "ip"} : \E b \in BOOLEAN : f[k] = Boolean(b)

ControlFits(d) ==
    d[ControlDoc] # None => d[ControlDoc] \in Document /\ HasFlags(d[ControlDoc].fields)

(* The flags of the document in d are those of the registry. *)
AsRegistered(d) ==
    room.active /\ d[ControlDoc] # None =>
        /\ d[ControlDoc].fields["cp"] = Boolean(room.open)
        /\ d[ControlDoc].fields["ip"] = Boolean(room.public)

(* A change of the control document is committed and not yet published. *)
ControlPending ==
    /\ publishing # None
    /\ \/ publishing.step = "reopened"
       \/ publishing.step = "commit" /\ ControlDoc \in publishing.changed

RoomFits ==
    /\ DOMAIN room = {"seats", "open", "public", "active"}
    /\ room.open \in BOOLEAN /\ room.public \in BOOLEAN
PublishingFits ==
    /\ publishing # None => DOMAIN publishing = {"step", "by", "changed", "response"}
    /\ Locked => publishing = None

(* Before the room is seeded it is open, and so is every copy of it that   *)
(* it may be seeded from.                                                  *)
TokensFit ==
    /\ DOMAIN token = Member
    /\ \A u \in Member : token[u].step = "checked" =>
          token[u].open \in BOOLEAN /\ token[u].public \in BOOLEAN
    /\ docs[FixedDoc] = None =>
          /\ docs[ControlDoc] = None
          /\ room.active =>
                /\ room.open = TRUE /\ room.public = TRUE
                /\ \A u \in Member : token[u].step = "checked" =>
                      token[u].open = TRUE /\ token[u].public = TRUE

(* A call with copies has not made the control document, nor deleted it.   *)
ControlCopied(w) ==
    /\ ControlFits(w.docs)
    /\ w.docs[ControlDoc] = None => w.owners[ControlDoc] = None
    /\ docs[ControlDoc] = None => w.docs[ControlDoc] = None
    /\ ControlDoc \notin w.changed => w.docs[ControlDoc] = docs[ControlDoc]

ControlInv ==
    /\ RoomFits /\ PublishingFits /\ TokensFit
    /\ ControlFits(docs)
    /\ docs[ControlDoc] = None => owners[ControlDoc] = None
    /\ ControlPending \/ AsRegistered(docs)
    /\ Locked => ControlCopied(work)

-----------------------------------------------------------------------------
LEMMA OutcomeOfUpdate ==
    ASSUME NEW op \in UpdateDocumentRequest, NEW w, Outcome(op, w).ok
    PROVE  LET doc == w.docs[op.update]
               f   == Outcome(op, w).fields
           IN  /\ op.fields # None
               /\ \/ op.mask = Everything /\ f = op.fields
                  \/ f = [k \in FieldName |->
                            IF k \in op.mask THEN op.fields[k]
                            ELSE (IF doc = None THEN NoFields ELSE doc.fields)[k]]
<1>1. DOMAIN op = {"update", "fields", "mask", "current"}
  BY DEF UpdateDocumentRequest
<1>2. NameOf(op) = op.update /\ ~ IsDelete(op)
  BY <1>1 DEF NameOf, IsDelete
<1> QED BY <1>1, <1>2 DEF Outcome

LEMMA OutcomeOfMerge ==
    ASSUME NEW op \in MergeDocumentRequest, NEW w, Outcome(op, w).ok
    PROVE  LET doc == w.docs[op.merge]
           IN  /\ op.fields # None
               /\ Outcome(op, w).fields =
                     [k \in FieldName |->
                        IF op.fields[k] # None THEN op.fields[k]
                        ELSE (IF doc = None THEN NoFields ELSE doc.fields)[k]]
<1>1. DOMAIN op = {"merge", "fields"}
  BY DEF MergeDocumentRequest
<1>2. NameOf(op) = op.merge /\ ~ IsDelete(op) /\ "update" \notin DOMAIN op
  BY <1>1 DEF NameOf, IsDelete
<1> QED BY <1>1, <1>2 DEF Outcome

LEMMA OutcomeOfTransform ==
    ASSUME NEW op \in TransformDocumentRequest, NEW w, Outcome(op, w).ok
    PROVE  op.transform[1] = "__pus"
<1>1. DOMAIN op = {"transform", "transforms"}
  BY DEF TransformDocumentRequest
<1>2. /\ NameOf(op) = op.transform /\ ~ IsDelete(op)
      /\ "update" \notin DOMAIN op /\ "merge" \notin DOMAIN op
  BY <1>1 DEF NameOf, IsDelete
<1> QED BY <1>1, <1>2 DEF Outcome

(* The control document is written by its owner only, with both flags.     *)
LEMMA ControlWritten ==
    ASSUME WholeControls, CopiesFit(work), ControlCopied(work),
           NEW i \in DOMAIN work.request.writes, work.request.writes[i] \in WriteOperation,
           Accepted(work.request.writes[i], work), NameOf(work.request.writes[i]) = ControlDoc
    PROVE  LET op == work.request.writes[i] IN
           /\ ~ IsDelete(op) /\ work.docs[ControlDoc] # None
           /\ Outcome(op, work).fields \in Fields /\ HasFlags(Outcome(op, work).fields)
<1> DEFINE op == work.request.writes[i]
           f == Outcome(op, work).fields
           doc == work.docs[ControlDoc]
<1>1. Outcome(op, work).ok /\ Writable(ControlDoc, f, work.request.by, work.owners, doc)
  BY DEF Accepted
<1>2. /\ f # None /\ work.owners[ControlDoc] = work.request.by
      /\ \A k \in FieldName : IsBoolean(f[k])
  BY <1>1, Names DEF Writable
<1>3. ~ IsDelete(op)
  <2>1. IsDelete(op) => DOMAIN op = {"delete", "current"}
    BY DEF WriteOperation, UpdateDocumentRequest, MergeDocumentRequest,
           TransformDocumentRequest, DeleteDocumentRequest, IsDelete
  <2>2. IsDelete(op) => f = None
    BY <2>1 DEF Outcome
  <2> QED BY <1>2, <2>2
<1>4. work.request.by \in Member /\ work.request.by # None
  BY NoneAssumption, RequestAssumption DEF CopiesFit, WriteDocumentsRequest
<1>5. doc # None /\ doc.fields \in Fields /\ HasFlags(doc.fields)
  BY <1>2, <1>4 DEF ControlCopied, ControlFits, Document
<1>6. \A v \in Value : "boolean" \in DOMAIN v => \E b \in BOOLEAN : v = Boolean(b)
  BY DEF Value, Boolean
<1>7. {"cp", "ip"} \subseteq FieldName
  BY DEF FieldName
<1>8. ASSUME f \in Fields, \A k \in {"cp", "ip"} : f[k] # None \/ f[k] = doc.fields[k]
      PROVE  HasFlags(f)
  <2> SUFFICES ASSUME NEW k \in {"cp", "ip"} PROVE \E b \in BOOLEAN : f[k] = Boolean(b)
    BY DEF HasFlags
  <2>1. CASE f[k] = doc.fields[k]
    BY <1>5, <2>1 DEF HasFlags
  <2>2. CASE f[k] # None
    <3>1. f[k] \in Value
      BY <1>7, <1>8, <2>2 DEF Fields, MapValue
    <3>2. "boolean" \in DOMAIN f[k]
      BY <1>2, <1>7, <2>2 DEF IsBoolean
    <3> QED BY <1>6, <3>1, <3>2
  <2> QED BY <1>8, <2>1, <2>2
<1>9. f \in Fields /\ \A k \in {"cp", "ip"} : f[k] # None \/ f[k] = doc.fields[k]
  <2>1. CASE op \in UpdateDocumentRequest
    <3>1. /\ op.fields \in Fields \cup {None} /\ "update" \in DOMAIN op
          /\ NameOf(op) = op.update /\ op.update = ControlDoc
      BY <2>1 DEF UpdateDocumentRequest, NameOf
    <3> HIDE DEF op
    <3>2. /\ op.fields # None
          /\ \/ op.mask = Everything /\ f = op.fields
             \/ f = [k \in FieldName |-> IF k \in op.mask THEN op.fields[k] ELSE doc.fields[k]]
      BY <1>1, <1>5, <2>1, <3>1, OutcomeOfUpdate
    <3> USE DEF op
    <3>3. \A k \in {"cp", "ip"} : op.mask = Everything \/ k \in op.mask => op.fields[k] # None
      BY <3>1, <3>2 DEF WholeControls, CopiesFit
    <3> HIDE DEF op, f
    <3> QED BY <1>5, <1>7, <3>1, <3>2, <3>3 DEF Fields, MapValue
  <2>2. CASE op \in MergeDocumentRequest
    <3>1. /\ op.fields \in Fields \cup {None}
          /\ NameOf(op) = op.merge /\ op.merge = ControlDoc
      BY <2>2 DEF MergeDocumentRequest, NameOf
    <3> HIDE DEF op
    <3>2. /\ op.fields # None
          /\ f = [k \in FieldName |->
                    IF op.fields[k] # None THEN op.fields[k] ELSE doc.fields[k]]
      BY <1>1, <1>5, <2>2, <3>1, OutcomeOfMerge
    <3> HIDE DEF f
    <3> QED BY <1>5, <1>7, <3>1, <3>2 DEF Fields, MapValue
  <2>3. op \notin TransformDocumentRequest
    <3>1. op \in TransformDocumentRequest => NameOf(op) = op.transform
      BY DEF TransformDocumentRequest, NameOf
    <3> QED BY <1>1, <3>1, OutcomeOfTransform, Names
  <2>4. op \notin DeleteDocumentRequest
    BY <1>3 DEF DeleteDocumentRequest, IsDelete
  <2> QED BY <2>1, <2>2, <2>3, <2>4 DEF WriteOperation
<1> QED BY <1>3, <1>5, <1>8, <1>9

-----------------------------------------------------------------------------
(* Steps that leave the control document and its copy alone. *)

LEMMA ControlInvInit == Init => ControlInv
<1> SUFFICES ASSUME Init PROVE ControlInv
  OBVIOUS
<1>1. docs[ControlDoc] = None /\ docs[FixedDoc] = None /\ owners[ControlDoc] = None
  BY Names DEF Init, Nothing
<1>2. RoomFits /\ PublishingFits /\ TokensFit
  BY <1>1 DEF Init, NoCall, RoomFits, PublishingFits, TokensFit, Locked
<1> QED BY <1>1, <1>2 DEF ControlInv, ControlFits, AsRegistered, Init, Locked

(* A call inside g.mu keeps what is said of its copies while the maps stay. *)
LEMMA CopyStays ==
    ASSUME UNCHANGED docs, NEW w, ControlCopied(w) PROVE ControlCopied(w)'
  BY DEF ControlCopied, ControlFits

LEMMA AdmitControl ==
    ASSUME ControlInv, NEW u \in Member, Admit(u) PROVE ControlInv'
<1>1. /\ UNCHANGED <<docs, owners, token, work, publishing>>
      /\ room' = [room EXCEPT !.seats = Append(@, u)]
  BY DEF Admit, committed
<1>2. RoomFits' /\ room'.open = room.open /\ room'.public = room.public
      /\ room'.active = room.active
  BY <1>1 DEF ControlInv, RoomFits
<1> QED BY <1>1, <1>2 DEF ControlInv, PublishingFits, TokensFit, ControlFits, ControlPending,
             AsRegistered, ControlCopied, Locked

LEMMA CheckMemberControl ==
    ASSUME ControlInv, NEW r \in IssueTokenRequest, CheckMember(r) PROVE ControlInv'
<1> DEFINE u == r.session
           c == [step |-> "checked", first |-> room.seats[1],
                 open |-> room.open, public |-> room.public]
<1>1. /\ UNCHANGED <<room, docs, owners, work, publishing>>
      /\ token' = [token EXCEPT ![u] = c]
  BY DEF CheckMember, committed
<1>2. TokensFit'
  <2>1. u \in Member
    BY DEF IssueTokenRequest
  <2>2. c.open = room.open /\ c.public = room.public
    OBVIOUS
  <2> HIDE DEF u, c
  <2> QED BY <1>1, <2>1, <2>2 DEF ControlInv, TokensFit, RoomFits
<1> QED BY <1>1, <1>2 DEF ControlInv, RoomFits, PublishingFits, ControlFits, ControlPending,
             AsRegistered, ControlCopied, Locked

LEMMA SeedControl ==
    ASSUME IInv, ControlInv, NEW u \in Member, InitializeFixedData(u) PROVE ControlInv'
<1> DEFINE t == clock + 1
           f == [NoFields EXCEPT !["cp"] = Boolean(token[u].open),
                                 !["ip"] = Boolean(token[u].public),
                                 !["ebf"] = Boolean(FALSE)]
           fixed == [fields |-> NoFields, updateTime |-> t]
           control == [fields |-> f, updateTime |-> t]
           seeded == [NoCall EXCEPT !.step = "seeded"]
<1>1. /\ ~ Locked /\ UNCHANGED <<room, work, publishing>>
      /\ token[u].step = "checked" /\ token' = [token EXCEPT ![u] = seeded]
  BY DEF InitializeFixedData
<1>2. seeded.step = "seeded"
  BY DEF NoCall
<1> HIDE DEF seeded
<1>3. DOMAIN token' = Member /\ \A v \in Member : token'[v].step = "checked" =>
                                                     token'[v] = token[v]
  BY <1>1, <1>2 DEF ControlInv, TokensFit
<1>4. RoomFits' /\ PublishingFits' /\ ~ Locked'
  BY <1>1 DEF ControlInv, RoomFits, PublishingFits, Locked
<1>5. CASE docs[FixedDoc] # None
  <2>1. UNCHANGED <<docs, owners>>
    BY <1>5 DEF InitializeFixedData
  <2>2. TokensFit'
    BY <1>1, <1>3, <2>1 DEF ControlInv, TokensFit
  <2> QED BY <1>1, <1>4, <2>1, <2>2 DEF ControlInv, ControlFits, ControlPending, AsRegistered
<1>6. CASE docs[FixedDoc] = None
  <2>1. /\ docs' = [docs EXCEPT ![FixedDoc] = fixed, ![ControlDoc] = control]
        /\ owners' = [owners EXCEPT ![ControlDoc] = token[u].first]
    BY <1>6 DEF InitializeFixedData
  <2>2. fixed # None
    BY ANewDocumentIsThere, PlainFields DEF IInv
  <2>3. token[u].open \in BOOLEAN /\ token[u].public \in BOOLEAN
    BY <1>1 DEF ControlInv, TokensFit
  <2>4. /\ f \in Fields /\ HasFlags(f)
        /\ f["cp"] = Boolean(token[u].open) /\ f["ip"] = Boolean(token[u].public)
    <3>1. \A b \in BOOLEAN : Boolean(b) \in Value
      BY DEF Boolean, Value
    <3>2. f = [k \in FieldName |-> IF k = "cp" THEN Boolean(token[u].open)
                                   ELSE IF k = "ip" THEN Boolean(token[u].public)
                                   ELSE IF k = "ebf" THEN Boolean(FALSE) ELSE None]
      BY DEF NoFields, FieldName
    <3>3. {"cp", "ip"} \subseteq FieldName
      BY DEF FieldName
    <3> HIDE DEF f
    <3>4. f["cp"] = Boolean(token[u].open) /\ f["ip"] = Boolean(token[u].public)
      BY <3>2, <3>3
    <3>5. f \in Fields
      BY <2>3, <3>1, <3>2 DEF Fields, MapValue
    <3> QED BY <2>3, <3>4, <3>5 DEF HasFlags
  <2> HIDE DEF f
  <2>5. control \in Document /\ control.fields = f
    BY <2>4 DEF IInv, MapsFit, Document
  <2> HIDE DEF fixed, control
  <2>6. docs'[FixedDoc] # None /\ docs'[ControlDoc] = control /\ docs'[ControlDoc] # None
    BY <2>1, <2>2, <2>5, Names, DocumentAssumption DEF IInv, MapsFit, DocsFit
  <2>7. TokensFit' /\ ControlFits(docs')
    BY <1>3, <2>4, <2>5, <2>6 DEF TokensFit, ControlFits, ControlInv
  <2>8. AsRegistered(docs)'
    BY <1>1, <1>6, <2>4, <2>5, <2>6 DEF AsRegistered, ControlInv, TokensFit
  <2> QED BY <1>4, <2>6, <2>7, <2>8 DEF ControlInv, ControlFits, AsRegistered
<1> QED BY <1>5, <1>6

(* What is said here stays when the flags, the documents and the calls do. *)
LEMMA NothingOfControl ==
    ASSUME ControlInv, UNCHANGED <<room, docs, owners, work, publishing>>,
           UNCHANGED token \/ \E u \in Member : token' = [token EXCEPT ![u] = NoCall]
    PROVE  ControlInv'
<1>1. TokensFit'
  BY DEF ControlInv, TokensFit, NoCall
<1> QED BY <1>1 DEF ControlInv, RoomFits, PublishingFits, ControlFits, ControlPending,
             AsRegistered, ControlCopied, Locked

LEMMA RememberControl ==
    ASSUME IInv, ControlInv, NEW u \in Member, Remember(u) PROVE ControlInv'
<1>1. /\ ~ Locked /\ UNCHANGED <<room, owners, work, publishing>>
      /\ token' = [token EXCEPT ![u] = NoCall]
  BY DEF Remember, Publishing
<1>2. docs'[ControlDoc] = docs[ControlDoc] /\ docs'[FixedDoc] = docs[FixedDoc]
  BY Names DEF Remember, IInv, MapsFit, DocsFit
<1>3. TokensFit'
  BY <1>1, <1>2 DEF ControlInv, TokensFit, NoCall
<1> QED BY <1>1, <1>2, <1>3 DEF ControlInv, RoomFits, PublishingFits, ControlFits,
             ControlPending, AsRegistered, Locked

LEMMA ExpireControl ==
    ASSUME IInv, ControlInv, NEW u \in Member, Expire(u) PROVE ControlInv'
<1>1. /\ ~ Locked /\ publishing = None /\ UNCHANGED <<room, token, work>>
      /\ docs' = [n \in DocumentName |-> IF n \in DeletedWith(u) THEN None ELSE docs[n]]
      /\ owners' = [n \in DocumentName |-> IF n \in DeletedWith(u) THEN None ELSE owners[n]]
      /\ publishing' = [step |-> "depart", by |-> u, changed |-> DeletedWith(u),
                        response |-> None]
  BY DEF Expire, Publishing, Locked
<1>2. FixedDoc \notin DeletedWith(u)
  BY DeletedIsOwn, Names, NoneAssumption DEF IInv, MapsFit, OwnersFit
<1>3. docs'[FixedDoc] = docs[FixedDoc]
  BY <1>1, <1>2, Names
<1>4. \/ docs'[ControlDoc] = docs[ControlDoc] /\ owners'[ControlDoc] = owners[ControlDoc]
      \/ docs'[ControlDoc] = None /\ owners'[ControlDoc] = None
  BY <1>1, Names
<1>5. ~ ControlPending /\ publishing'.step = "depart" /\ PublishingFits' /\ ~ Locked'
  BY <1>1 DEF ControlPending, PublishingFits, Locked
<1> HIDE DEF DeletedWith
<1> QED BY <1>1, <1>3, <1>4, <1>5 DEF ControlInv, RoomFits, TokensFit, ControlFits,
             ControlPending, AsRegistered

LEMMA Reopens ==
    ASSUME TypeInv, CheckReopen, NeedsReopen, docs[ControlDoc] # None
    PROVE  publishing' # None
<1>1. publishing \in Publication
  BY DEF CheckReopen, TypeInv, TypeOK
<1>2. publishing.changed \cup {ControlDoc} \in SUBSET DocumentName
  BY <1>1, Names DEF Publication
<1>3. publishing' = [publishing EXCEPT !.step = "reopened",
                                       !.changed = publishing.changed \cup {ControlDoc}]
  BY DEF CheckReopen
<1> DEFINE c == publishing.changed \cup {ControlDoc}
           p == [publishing EXCEPT !.step = "reopened", !.changed = c]
<1>4. c \in SUBSET DocumentName /\ publishing' = p
  BY <1>2, <1>3
<1>5. p \in Publication
  <2> HIDE DEF c
  <2> QED BY <1>1, <1>4, GoesOn
<1> QED BY <1>4, <1>5, PublicationAssumption

LEMMA CheckReopenControl ==
    ASSUME IInv, TypeInv, ControlInv, CheckReopen PROVE ControlInv'
<1>1. /\ publishing # None /\ publishing.step = "check" /\ ~ Locked
      /\ UNCHANGED <<room, owners, token, work>>
  BY DEF CheckReopen
<1>2. DOMAIN publishing = {"step", "by", "changed", "response"} /\ ~ ControlPending
  BY <1>1 DEF ControlInv, PublishingFits, ControlPending
<1>3. CASE NeedsReopen /\ docs[ControlDoc] # None
  <2> DEFINE f == Reopened(docs[ControlDoc].fields)
             d == [fields |-> f, updateTime |-> clock + 1]
  <2>1. /\ docs' = [docs EXCEPT ![ControlDoc] = d]
        /\ publishing' = [publishing EXCEPT !.step = "reopened",
                                            !.changed = @ \cup {ControlDoc}]
    BY <1>3 DEF CheckReopen
  <2>2. docs[ControlDoc].fields \in Fields
    BY <1>3 DEF ControlInv, ControlFits, Document
  <2>3. f \in Fields /\ HasFlags(f)
    <3>1. \A b \in BOOLEAN : Boolean(b) \in Value
      BY DEF Boolean, Value
    <3>2. {"cp", "ip", "ebf"} \subseteq FieldName
      BY DEF FieldName
    <3>3. f \in Fields /\ f["cp"] = Boolean(TRUE) /\ f["ip"] = Boolean(TRUE)
      BY <2>2, <3>1, <3>2 DEF Reopened, Fields, MapValue
    <3> QED BY <3>3 DEF HasFlags
  <2> HIDE DEF f
  <2>4. d \in Document /\ d.fields = f
    BY <2>3 DEF IInv, MapsFit, Document
  <2> HIDE DEF d
  <2>5. docs'[ControlDoc] = d /\ docs'[FixedDoc] = docs[FixedDoc] /\ d # None
    BY <2>1, <2>4, Names, DocumentAssumption DEF IInv, MapsFit, DocsFit
  <2>6. /\ DOMAIN publishing' = {"step", "by", "changed", "response"}
        /\ publishing'.step = "reopened" /\ publishing' # None
    <3>1. DOMAIN publishing' = {"step", "by", "changed", "response"}
          /\ publishing'.step = "reopened"
      BY <1>2, <2>1
    <3>2. publishing' # None
      BY <1>3, Reopens
    <3> QED BY <3>1, <3>2
  <2>7. docs[FixedDoc] # None
    BY <1>3 DEF ControlInv, TokensFit
  <2>8. ControlPending' /\ PublishingFits' /\ ~ Locked'
    BY <1>1, <2>6 DEF ControlPending, PublishingFits, Locked
  <2> QED BY <1>1, <2>3, <2>4, <2>5, <2>7, <2>8 DEF ControlInv, RoomFits, TokensFit, ControlFits
<1>4. CASE ~ (NeedsReopen /\ docs[ControlDoc] # None)
  <2>1. UNCHANGED docs /\ publishing' = [publishing EXCEPT !.step = "tell"]
    BY <1>4 DEF CheckReopen, Goes
  <2>2. DOMAIN publishing' = {"step", "by", "changed", "response"} /\ publishing'.step = "tell"
    BY <1>2, <2>1
  <2>3. PublishingFits' /\ ~ Locked'
    BY <1>1, <2>2 DEF PublishingFits, Locked
  <2> QED BY <1>1, <1>2, <2>1, <2>3 DEF ControlInv, RoomFits, TokensFit, ControlFits,
             AsRegistered
<1> QED BY <1>3, <1>4

LEMMA CommitControl ==
    ASSUME IInv, TypeInv, ControlInv, Commit PROVE ControlInv'
<1>1. /\ Locked /\ UNCHANGED <<room, token>> /\ work' = None
      /\ docs' = work.docs /\ owners' = work.owners
      /\ publishing' = [step |-> "commit", by |-> work.request.by, changed |-> work.changed,
                         response |-> [results |-> work.results, commitTime |-> clock + 1]]
  BY DEF Commit, Finished
<1>2. CopiesFit(work) /\ ControlCopied(work) /\ publishing = None
  BY <1>1 DEF IInv, ControlInv, PublishingFits
<1>3. ~ Locked' /\ PublishingFits'
  BY <1>1 DEF Locked, PublishingFits
<1>4. docs'[FixedDoc] = docs[FixedDoc]
  BY <1>1, <1>2 DEF CopiesFit
<1>5. TokensFit'
  BY <1>1, <1>2, <1>4 DEF ControlInv, TokensFit, ControlCopied
<1>6. ControlPending' \/ AsRegistered(docs)'
  <2>1. CASE ControlDoc \in work.changed
    <3>1. publishing' # None
      BY CommitPublishes
    <3> QED BY <1>1, <2>1, <3>1 DEF ControlPending
  <2>2. CASE ControlDoc \notin work.changed
    BY <1>1, <1>2, <2>2 DEF ControlInv, ControlPending, ControlCopied, AsRegistered
  <2> QED BY <2>1, <2>2
<1> QED BY <1>1, <1>2, <1>3, <1>5, <1>6 DEF ControlInv, RoomFits, ControlFits, ControlCopied

LEMMA BeginControl ==
    ASSUME IInv, ControlInv, NEW u \in Member, Begin(u) PROVE ControlInv'
<1>1. /\ ~ Locked /\ publishing = None
      /\ UNCHANGED <<room, docs, owners, token, publishing>>
      /\ UNCHANGED work \/ (work'.docs = docs /\ work'.owners = owners)
  <2>1. /\ ~ Locked /\ publishing = None
        /\ UNCHANGED <<room, docs, owners, token, publishing>>
    BY DEF Begin, committed, Publishing
  <2>2. UNCHANGED work \/ (work'.docs = docs /\ work'.owners = owners)
    <3>1. UNCHANGED work \/ Start(u)
      BY DEF Begin
    <3>2. Start(u) => work'.docs = docs /\ work'.owners = owners
      BY DEF Start
    <3> QED BY <3>1, <3>2
  <2> QED BY <2>1, <2>2
<1>2. Locked' => work'.docs = docs /\ work'.owners = owners
  BY <1>1 DEF Locked
<1> QED BY <1>1, <1>2 DEF ControlInv, RoomFits, PublishingFits, TokensFit, ControlFits,
             ControlPending, AsRegistered, ControlCopied

LEMMA WriteControl ==
    ASSUME WholeControls, IInv, TypeInv, ControlInv, Write PROVE ControlInv'
<1> DEFINE i == work.at
           op == Writes[i]
           out == Outcome(op, work)
           n == NameOf(op)
           v == Written(op, work)
           doc == [fields |-> out.fields, updateTime |-> clock + 1]
<1>1. /\ Locked /\ i <= Len(Writes)
      /\ work' = IF Accepted(op, work) THEN v ELSE None
      /\ UNCHANGED <<room, docs, owners, token, publishing>>
  BY DEF Write, InWrites, committed
<1>2. /\ CopiesFit(work) /\ ControlCopied(work) /\ DOMAIN work = CopyFields
      /\ DOMAIN work.docs = DocumentName /\ DOMAIN work.owners = DocumentName
  BY <1>1 DEF IInv, ControlInv, CopiesFit, DocsFit, OwnersFit
<1>3. i \in DOMAIN work.request.writes /\ op \in WriteOperation
  <2>1. work.at \in Nat \ {0} /\ work.request \in WriteDocumentsRequest
    BY <1>2, RequestAssumption DEF CopiesFit
  <2>2. Writes \in Seq(WriteOperation)
    BY <2>1 DEF Writes, WriteDocumentsRequest
  <2> QED BY <1>1, <2>1, <2>2 DEF Writes
<1>4. n \in DocumentName
  BY <1>3, NamesOfOperations
<1>5. /\ v.docs = [work.docs EXCEPT ![n] = IF IsDelete(op) THEN None ELSE doc]
      /\ v.owners = [work.owners EXCEPT ![n] = IF IsDelete(op) THEN None ELSE work.request.by]
      /\ v.changed = work.changed \cup {n}
  BY <1>2 DEF Written, CopyFields
<1>6. ASSUME Accepted(op, work) PROVE ControlCopied(v)
  <2>1. CASE n # ControlDoc
    <3> HIDE DEF n, doc, v, op
    <3> QED BY <1>2, <1>4, <1>5, <2>1, Names DEF ControlCopied, ControlFits
  <2>2. CASE n = ControlDoc
    <3>1. ~ IsDelete(op) /\ work.docs[ControlDoc] # None
          /\ out.fields \in Fields /\ HasFlags(out.fields)
      BY <1>2, <1>3, <1>6, <2>2, ControlWritten DEF Writes
    <3>2. doc \in Document /\ doc # None /\ doc.fields = out.fields
      BY <3>1, NewDocument, DocumentAssumption DEF TypeInv, TypeOK
    <3> HIDE DEF n, doc, v, op, out
    <3> QED BY <1>2, <1>4, <1>5, <2>2, <3>1, <3>2 DEF ControlCopied, ControlFits
  <2> QED BY <2>1, <2>2
<1> HIDE DEF v, op
<1>7. Locked' => ControlCopied(work)'
  BY <1>1, <1>6 DEF Locked, ControlCopied, ControlFits
<1> QED BY <1>1, <1>7 DEF ControlInv, RoomFits, PublishingFits, TokensFit, ControlFits,
             ControlPending, AsRegistered

LEMMA DeferControl ==
    ASSUME IInv, ControlInv, Defer PROVE ControlInv'
<1> DEFINE op == Deferments[work.at - Len(Writes)]
           v == Deferred(op, work)
<1>1. /\ Locked /\ work' = IF DefermentAccepted(op, work) THEN v ELSE None
      /\ UNCHANGED <<room, docs, owners, token, publishing>>
  BY DEF Defer, InDeferments, committed
<1>2. ControlCopied(work) /\ DOMAIN work = CopyFields
  BY <1>1 DEF IInv, ControlInv, CopiesFit
<1> HIDE DEF op
<1>3. v.docs = work.docs /\ v.owners = work.owners /\ v.changed = work.changed
  BY <1>2, CopiesOfDeferred, ChangedByDeferred
<1> HIDE DEF v
<1>4. Locked' => ControlCopied(work)'
  BY <1>1, <1>2, <1>3 DEF Locked, ControlCopied, ControlFits
<1> QED BY <1>1, <1>4 DEF ControlInv, RoomFits, PublishingFits, TokensFit, ControlFits,
             ControlPending, AsRegistered

(* updateRoomControl makes the flags those of the document. *)
LEMMA ControlledAgrees ==
    ASSUME RoomFits, NEW f, HasFlags(f)
    PROVE  LET r == Controlled(f) IN
           /\ DOMAIN r = DOMAIN room /\ r.active = room.active
           /\ r.open \in BOOLEAN /\ r.public \in BOOLEAN
           /\ room.active => f["cp"] = Boolean(r.open) /\ f["ip"] = Boolean(r.public)
<1>1. PICK b \in BOOLEAN : f["cp"] = Boolean(b)
  BY DEF HasFlags
<1>2. PICK c \in BOOLEAN : f["ip"] = Boolean(c)
  BY DEF HasFlags
<1>3. \A x \in BOOLEAN : Boolean(x).boolean = x /\ Boolean(x) # None
  <2>1. \A x \in BOOLEAN : Boolean(x).boolean = x
    BY DEF Boolean
  <2>2. \A x \in BOOLEAN : Boolean(x) \in Value
    BY Flags
  <2> QED BY <2>1, <2>2, ValueAssumption
<1>4. CASE ~ room.active
  BY <1>4 DEF Controlled, RoomFits
<1>5. CASE room.active
  <2>1. Controlled(f) = [room EXCEPT !.open = b, !.public = c]
    BY <1>1, <1>2, <1>3, <1>5 DEF Controlled
  <2> QED BY <1>1, <1>2, <1>5, <2>1 DEF RoomFits
<1> QED BY <1>4, <1>5

LEMMA PublishControl ==
    ASSUME TypeInv, ReopenFits, ControlInv, PublishCommit \/ PublishExpiry PROVE ControlInv'
<1>1. /\ publishing # None /\ publishing' = None /\ ~ Locked
      /\ UNCHANGED <<docs, owners, token, work>>
  BY DEF PublishCommit, PublishExpiry, committed, TypeInv, LockFits
<1>2. \/ room' = room /\ (~ ControlPending \/ docs[ControlDoc] = None)
      \/ room' = Controlled(docs[ControlDoc].fields) /\ docs[ControlDoc] # None
  BY DEF PublishCommit, PublishExpiry, ControlPending, ReopenFits
<1>3. PublishingFits' /\ ~ Locked' /\ ~ ControlPending'
  BY <1>1 DEF PublishingFits, Locked, ControlPending
<1>4. CASE room' = room /\ (~ ControlPending \/ docs[ControlDoc] = None)
  BY <1>1, <1>3, <1>4 DEF ControlInv, RoomFits, TokensFit, ControlFits, AsRegistered
<1>5. CASE room' = Controlled(docs[ControlDoc].fields) /\ docs[ControlDoc] # None
  <2> DEFINE f == docs[ControlDoc].fields
  <2>1. HasFlags(f) /\ RoomFits
    BY <1>5 DEF ControlInv, ControlFits
  <2>2. /\ DOMAIN room' = DOMAIN room /\ room'.active = room.active
        /\ room'.open \in BOOLEAN /\ room'.public \in BOOLEAN
        /\ room.active => f["cp"] = Boolean(room'.open) /\ f["ip"] = Boolean(room'.public)
    BY <1>5, <2>1, ControlledAgrees
  <2>3. RoomFits' /\ AsRegistered(docs)'
    BY <1>1, <2>1, <2>2 DEF RoomFits, AsRegistered
  <2>4. TokensFit' /\ ControlFits(docs)'
    BY <1>1, <1>5 DEF ControlInv, TokensFit, ControlFits
  <2> QED BY <1>1, <1>3, <2>3, <2>4 DEF ControlInv, ControlFits
<1> QED BY <1>2, <1>4, <1>5

LEMMA DepartControl ==
    ASSUME TypeInv, ControlInv, Depart PROVE ControlInv'
<1> DEFINE u == publishing.by
           left == Without(room.seats, {u})
           ends == left = <<>> \/ (IsRaid /\ u = Host /\ Seated(u))
<1>1. /\ publishing # None /\ publishing.step = "depart" /\ ~ Locked
      /\ room' = [room EXCEPT !.seats = left, !.open = @ /\ ~ ends, !.active = @ /\ ~ ends]
      /\ publishing' = [publishing EXCEPT !.step = "check"]
      /\ UNCHANGED <<docs, owners, token, work>>
  BY DEF Depart, Goes, committed, TypeInv, LockFits
<1>2. room \in [seats : Seq(Member), open : BOOLEAN, public : BOOLEAN, active : BOOLEAN]
      /\ publishing \in Publication
  BY <1>1 DEF TypeInv, TypeOK
<1> HIDE DEF left, ends, u
<1>3. /\ RoomFits' /\ room'.public = room.public
      /\ room'.active => room.active /\ room'.open = room.open
  BY <1>1, <1>2 DEF RoomFits
<1>4. PublishingFits' /\ ~ Locked' /\ ~ ControlPending
  BY <1>1, <1>2 DEF PublishingFits, Locked, ControlPending, Publication
<1> QED BY <1>1, <1>3, <1>4 DEF ControlInv, TokensFit, ControlFits, AsRegistered

LEMMA ControlStep ==
    ASSUME WholeControls, IInv, TypeInv, ReopenFits, ControlInv, [Next]_vars PROVE ControlInv'
<1>1. ASSUME NEW u \in Member, Admit(u) \/ InitializeFixedData(u) \/ Remember(u)
      PROVE  ControlInv'
  BY <1>1, AdmitControl, SeedControl, RememberControl
<1>2. ASSUME NEW r \in IssueTokenRequest, CheckMember(r) PROVE ControlInv'
  BY <1>2, CheckMemberControl
<1>3. ASSUME NEW u \in Member, Begin(u) \/ Expire(u) PROVE ControlInv'
  BY <1>3, BeginControl, ExpireControl
<1>4. Write \/ Defer \/ Commit \/ PublishCommit \/ Depart \/ CheckReopen \/ PublishExpiry
      => ControlInv'
  BY WriteControl, DeferControl, CommitControl, PublishControl, DepartControl,
     CheckReopenControl
<1>5. \/ \E s \in Stream, u \in Member : OpenStream(s, u)
      \/ \E s \in Stream, r \in StreamRequests : Receive(s, r)
      \/ \E s \in Stream : CloseStream(s)
      \/ \E r \in Requests : Authorize(r)
      \/ UNCHANGED vars
      => UNCHANGED <<room, docs, owners, work, publishing, token>>
  BY DEF OpenStream, Receive, CloseStream, Authorize, vars, committed
<1> QED BY <1>1, <1>2, <1>3, <1>4, <1>5, NothingOfControl DEF Next

(* The flags that searches and joins read are those of the control         *)
(* document, if requests leave it both of them.                            *)
THEOREM ControlTheorem == WholeControls => (Spec => []ControlAgrees)
<1> SUFFICES ASSUME WholeControls PROVE Spec => []ControlAgrees
  OBVIOUS
<1>1. IInv /\ TypeInv /\ ReopenFits /\ ControlInv /\ [Next]_vars => ControlInv'
  BY ControlStep
<1>2. IInv /\ TypeInv /\ ControlInv => ControlAgrees
  <2> SUFFICES ASSUME TypeInv, ControlInv, ~ Publishing, room.active, NEW u \in sessions,
                      docs[ControlDoc] # None
               PROVE  Masked(docs[ControlDoc], {"cp", "ip"}).fields =
                        [NoFields EXCEPT !["cp"] = Boolean(room.open),
                                         !["ip"] = Boolean(room.public)]
    BY DEF ControlAgrees, GetDocument
  <2> DEFINE doc == docs[ControlDoc]
  <2>1. doc \in Document /\ doc.fields \in Fields
    BY DEF ControlInv, ControlFits, Document
  <2>2. doc.fields["cp"] = Boolean(room.open) /\ doc.fields["ip"] = Boolean(room.public)
    BY DEF ControlInv, AsRegistered, ControlPending, Publishing
  <2>3. {"cp", "ip"} # Everything
    BY DEF Everything, Wildcard
  <2>4. Masked(doc, {"cp", "ip"}).fields =
          [f \in FieldName |-> IF f \in {"cp", "ip"} THEN doc.fields[f] ELSE None]
    BY <2>1, <2>3 DEF Masked, Document
  <2> HIDE DEF doc
  <2> QED BY <2>2, <2>4 DEF NoFields, FieldName, doc
<1> QED BY <1>1, <1>2, ControlInvInit, TypeTheorem, PTL DEF Spec

-----------------------------------------------------------------------------
(* Connection numbers                                                      *)
(*                                                                         *)
(* The shared counter is never below the number of a presence document,    *)
(* and no two documents have one number: not in the maps, and not in the   *)
(* copies of a call but between its announcement and the number drawn for  *)
(* it.                                                                     *)

AboutPresence(op) == NameOf(op)[1] = "__pus"

(* A presence document is written with no number, and one is drawn for it. *)
Introduces(op) ==
    /\ op \in UpdateDocumentRequest /\ AboutPresence(op) /\ op.mask = Everything
    /\ op.fields # None => op.fields["upcsid"] = None
LoadNumber == [field |-> "upcsid", load |-> "__upcsidn"]
NextNumber == [field |-> "upcsid", increment |-> Integer(1)]
StoreNumber == [field |-> "upcsid", store |-> "__upcsidn"]
Draws(op) ==
    /\ op \in TransformDocumentRequest /\ AboutPresence(op)
    /\ op.transforms = <<LoadNumber, NextNumber, StoreNumber>>

(* A request deletes presence documents or announces its member once, as   *)
(* the game's do: without the number drawn right behind it an announcement *)
(* leaves a document without one.                                          *)
WholeAnnouncements ==
    \A r \in Requests :
        \/ \A i \in DOMAIN r.writes : AboutPresence(r.writes[i]) => IsDelete(r.writes[i])
        \/ \E k \in DOMAIN r.writes :
              /\ k + 1 \in DOMAIN r.writes
              /\ Introduces(r.writes[k]) /\ Draws(r.writes[k + 1])
              /\ \A i \in DOMAIN r.writes : AboutPresence(r.writes[i]) => i \in {k, k + 1}

NumberOf(d, u) == d[PresenceDoc(u)].fields["upcsid"]

(* The numbers that the members U have in the documents d are below c. *)
NumbersFit(d, c, U) ==
    /\ c # None => c \in [integer : Int]
    /\ \A u \in U : d[PresenceDoc(u)] # None =>
          /\ c # None /\ NumberOf(d, u) \in [integer : Int]
          /\ NumberOf(d, u).integer <= c.integer
    /\ \A u, v \in U :
          u # v /\ d[PresenceDoc(u)] # None /\ d[PresenceDoc(v)] # None =>
              NumberOf(d, u) # NumberOf(d, v)

(* The next write draws a number. *)
AtDraw(w) == w.at \in DOMAIN w.request.writes /\ Draws(w.request.writes[w.at])

Answers(results, d, u) ==
    \A i \in DOMAIN results :
        "transform" \in DOMAIN results[i] => Last(results[i].transform) = NumberOf(d, u)

NumbersCopied(w) ==
    LET u == w.request.by  ops == w.request.writes IN
    /\ NumbersFit(w.docs, w.globals, IF AtDraw(w) THEN Member \ {u} ELSE Member)
    /\ AtDraw(w) => w.docs[PresenceDoc(u)] # None /\ NumberOf(w.docs, u) = None
    /\ Answers(w.results, w.docs, u)
    /\ \A i \in DOMAIN w.results : "transform" \in DOMAIN w.results[i] =>
          \A j \in DOMAIN ops : j >= w.at => ~ AboutPresence(ops[j])

NumberInv ==
    /\ NumbersFit(docs, globals, Member)
    /\ Locked => NumbersCopied(work)
    /\ publishing # None /\ publishing.step = "commit" =>
          Answers(publishing.response.results, docs, publishing.by)

LEMMA PresenceNames ==
    /\ \A u \in Member : /\ PresenceDoc(u) \in DocumentName
                         /\ PresenceDoc(u)[1] = "__pus" /\ PresenceDoc(u)[2] = u
    /\ \A n \in DocumentName : n[1] = "__pus" => n[2] \in Member /\ n = PresenceDoc(n[2])
<1>1. \A u \in Member : PresenceDoc(u) \in OwnDocs(u)
  BY DEF OwnDocs
<1>2. \A u \in Member : PresenceDoc(u) \in DocumentName
  BY <1>1 DEF DocumentName
<1>3. \A u \in Member : PresenceDoc(u)[1] = "__pus" /\ PresenceDoc(u)[2] = u
  BY DEF PresenceDoc
<1>4. ASSUME NEW n \in DocumentName, n[1] = "__pus"
      PROVE  n[2] \in Member /\ n = PresenceDoc(n[2])
  <2>1. n \notin {ControlDoc, FixedDoc, MetricsDoc, StartDoc, GroupDoc, ReportDoc(1), ReportDoc(2)}
    BY <1>4 DEF ControlDoc, FixedDoc, MetricsDoc, StartDoc, GroupDoc, ReportDoc
  <2>2. PICK u \in Member : n \in OwnDocs(u)
    BY <2>1 DEF DocumentName
  <2>3. n = PresenceDoc(u)
    BY <1>4, <2>2 DEF OwnDocs, SessionDoc, MailDoc
  <2> QED BY <1>3, <2>3
<1> QED BY <1>2, <1>3, <1>4

(* The three transforms of a draw, on the fields f and the counter c. *)
Accumulator(f, c, values, ok) == [fields |-> f, globals |-> c, values |-> values, ok |-> ok]
Numbered(f, x) == [f EXCEPT !["upcsid"] = x]
Loaded(c) == IF c # None THEN c ELSE Integer(0)

LEMMA Loads ==
    ASSUME NEW f \in Fields, NEW c \in Value \cup {None}, f["upcsid"] = None, NEW values
    PROVE  Transformed(Accumulator(f, c, values, TRUE), LoadNumber)
             = Accumulator(Numbered(f, Loaded(c)), c, Append(values, Loaded(c)), TRUE)
<1> DEFINE x == Loaded(c)
           acc == [fields |-> f, globals |-> c, values |-> values, ok |-> TRUE]
           next == [fields |-> [f EXCEPT !["upcsid"] = x], globals |-> c,
                    values |-> values, ok |-> TRUE]
<1>1. x # None
  BY ValueAssumption DEF Value, Integer, Loaded
<1>2. DOMAIN LoadNumber = {"field", "load"} /\ LoadNumber.field = "upcsid"
      /\ LoadNumber.load = "__upcsidn" /\ LoadNumber.field # Wildcard
  BY DEF LoadNumber, Wildcard
<1>3. "upcsid" \in DOMAIN f
  BY DEF Fields, MapValue, FieldName
<1>4. Transform(acc, LoadNumber, clock + 1) = [acc EXCEPT !.fields["upcsid"] = x]
  <2>1. (IF acc.globals # None THEN acc.globals
         ELSE IF acc.fields["upcsid"] # None THEN acc.fields["upcsid"] ELSE Integer(0)) = x
    BY DEF Loaded
  <2> HIDE DEF x
  <2> QED BY <1>1, <1>2, <2>1 DEF Transform
<1> DEFINE a == Transform(acc, LoadNumber, clock + 1)
<1> HIDE DEF x
<1>5. a = next
  BY <1>4
<1>6. next.fields["upcsid"] = x
  BY <1>3
<1>7. Transformed(acc, LoadNumber) =
        IF a.ok THEN [a EXCEPT !.values = Append(@, a.fields["upcsid"])] ELSE a
  BY <1>2 DEF Transformed
<1>8. Transformed(acc, LoadNumber) = [next EXCEPT !.values = Append(@, x)]
  <2> HIDE DEF a, acc
  <2> QED BY <1>5, <1>6, <1>7
<1> HIDE DEF a, acc
<1>9. Transformed(acc, LoadNumber)
        = [fields |-> [f EXCEPT !["upcsid"] = x], globals |-> c,
           values |-> Append(values, x), ok |-> TRUE]
  BY <1>8
<1> QED BY <1>9 DEF acc, x, Accumulator, Numbered

LEMMA Increments ==
    ASSUME NEW f \in Fields, NEW c, NEW m \in Int, f["upcsid"] = Integer(m), NEW values
    PROVE  \/ Transformed(Accumulator(f, c, values, TRUE), NextNumber)
                = Accumulator(Numbered(f, Integer(m + 1)), c, Append(values, Integer(m + 1)), TRUE)
           \/ Transformed(Accumulator(f, c, values, TRUE), NextNumber) = Accumulator(f, c, values, FALSE)
<1> DEFINE acc == [fields |-> f, globals |-> c, values |-> values, ok |-> TRUE]
           x == Integer(m + 1)
           next == [fields |-> [f EXCEPT !["upcsid"] = x], globals |-> c,
                    values |-> values, ok |-> TRUE]
           a == Transform(acc, NextNumber, clock + 1)
<1>1. /\ \A n \in Int : /\ Integer(n) \in Value /\ Integer(n) # None
                        /\ IntegerOrNone(Integer(n)) /\ AsInteger(Integer(n)) = n
  BY ValueAssumption DEF Value, Integer, IntegerOrNone, AsInteger
<1>2. DOMAIN NextNumber = {"field", "increment"} /\ NextNumber.field = "upcsid"
      /\ NextNumber.increment = Integer(1) /\ NextNumber.field # Wildcard
  BY DEF NextNumber, Wildcard
<1>3. "upcsid" \in DOMAIN f
  BY DEF Fields, MapValue, FieldName
<1>4. a = [acc EXCEPT !.fields["upcsid"] = x] \/ a = [acc EXCEPT !.ok = FALSE]
  <2>1. AsInteger(acc.fields["upcsid"]) = m /\ AsInteger(NextNumber.increment) = 1
        /\ IntegerOrNone(acc.fields["upcsid"]) /\ IntegerOrNone(NextNumber.increment)
        /\ Integer(m + 1) # None
    BY <1>1, <1>2
  <2> QED BY <1>2, <2>1 DEF Transform
<1> HIDE DEF a
<1>5. a = next \/ a = [fields |-> f, globals |-> c, values |-> values, ok |-> FALSE]
  <2> HIDE DEF x
  <2> QED BY <1>4
<1>6. next.fields["upcsid"] = x
  <2> HIDE DEF x
  <2> QED BY <1>3
<1>7. Transformed(acc, NextNumber) =
        IF a.ok THEN [a EXCEPT !.values = Append(@, a.fields["upcsid"])] ELSE a
  BY <1>2 DEF Transformed, a
<1> HIDE DEF x
<1>8. CASE a = next
  BY <1>6, <1>7, <1>8 DEF x, Accumulator, Numbered
<1>9. CASE a = [fields |-> f, globals |-> c, values |-> values, ok |-> FALSE]
  BY <1>7, <1>9 DEF Accumulator
<1> QED BY <1>5, <1>8, <1>9

LEMMA Stores ==
    ASSUME NEW f \in Fields, NEW c, f["upcsid"] # None, NEW values, NEW ok \in BOOLEAN
    PROVE  /\ ok => Transformed(Accumulator(f, c, values, ok), StoreNumber)
                      = Accumulator(f, f["upcsid"], Append(values, f["upcsid"]), TRUE)
           /\ ~ ok => ~ Transformed(Accumulator(f, c, values, ok), StoreNumber).ok
<1> DEFINE acc == [fields |-> f, globals |-> c, values |-> values, ok |-> ok]
           a == Transform(acc, StoreNumber, clock + 1)
<1>1. DOMAIN StoreNumber = {"field", "store"} /\ StoreNumber.field = "upcsid"
      /\ StoreNumber.store = "__upcsidn" /\ StoreNumber.field # Wildcard
  BY DEF StoreNumber, Wildcard
<1>2. CASE ok
  <2>1. a = [acc EXCEPT !.globals = f["upcsid"]]
    BY <1>1, <1>2 DEF Transform
  <2>2. a = [fields |-> f, globals |-> f["upcsid"], values |-> values, ok |-> TRUE]
    BY <1>2, <2>1
  <2>3. Transformed(acc, StoreNumber) =
          IF a.ok THEN [a EXCEPT !.values = Append(@, a.fields["upcsid"])] ELSE a
    BY <1>1 DEF Transformed
  <2> HIDE DEF a
  <2> QED BY <1>2, <2>2, <2>3 DEF Accumulator
<1>3. CASE ~ ok
  <2>1. a = [acc EXCEPT !.ok = FALSE]
    BY <1>3 DEF Transform
  <2>2. ~ a.ok
    BY <2>1
  <2> HIDE DEF a, acc
  <2> QED BY <1>3, <2>2 DEF Transformed, a, acc, Accumulator
<1> QED BY <1>2, <1>3

LEMMA ThreeTransforms ==
    ASSUME NEW first, NEW transforms, Len(transforms) \in Nat
    PROVE  Len(transforms) = 3 =>
             TransformAll(first, transforms) =
               Transformed(Transformed(Transformed(first, transforms[1]), transforms[2]),
                           transforms[3])
<1>1. PICK after : /\ after[0] = first
                   /\ \A i \in 1..Len(transforms) :
                         after[i] = Transformed(after[i - 1], transforms[i])
                   /\ TransformAll(first, transforms) = after[Len(transforms)]
  BY TransformSteps
<1> SUFFICES ASSUME Len(transforms) = 3
             PROVE  TransformAll(first, transforms) =
                      Transformed(Transformed(Transformed(first, transforms[1]),
                                              transforms[2]), transforms[3])
  OBVIOUS
<1>2. after[1] = Transformed(after[0], transforms[1])
  BY <1>1
<1>3. after[2] = Transformed(after[1], transforms[2])
  BY <1>1
<1>4. after[3] = Transformed(after[2], transforms[3])
  BY <1>1
<1> QED BY <1>1, <1>2, <1>3, <1>4

(* An operation that draws a number leaves it in the field and in the      *)
(* counter, and answers it.                                                *)
LEMMA Drawn ==
    ASSUME NEW op, Draws(op), NEW w, w.globals \in Value \cup {None},
           w.globals # None => w.globals \in [integer : Int],
           w.docs[NameOf(op)] # None, w.docs[NameOf(op)].fields \in Fields,
           w.docs[NameOf(op)].fields["upcsid"] = None, Outcome(op, w).ok
    PROVE  \E m \in Int :
              LET out == Outcome(op, w) IN
              /\ w.globals # None => w.globals = Integer(m)
              /\ out.globals = Integer(m + 1) /\ out.fields["upcsid"] = Integer(m + 1)
              /\ Last(out.values) = Integer(m + 1)
              /\ ResultOf(op, out) = [transform |-> out.values]
<1> DEFINE f == w.docs[NameOf(op)].fields
           c == w.globals
           v0 == <<>>
           first == Accumulator(f, c, v0, TRUE)
           steps == op.transforms
           out == Outcome(op, w)
<1>1. DOMAIN op = {"transform", "transforms"} /\ NameOf(op)[1] = "__pus"
      /\ op.transforms = <<LoadNumber, NextNumber, StoreNumber>>
  BY DEF Draws, TransformDocumentRequest, AboutPresence
<1>2. ~ IsDelete(op) /\ "update" \notin DOMAIN op /\ "merge" \notin DOMAIN op
  BY <1>1 DEF IsDelete
<1>3. out = TransformAll(first, steps)
  BY <1>1, <1>2 DEF Outcome, Accumulator
<1>4. ResultOf(op, out) = [transform |-> out.values]
  BY <1>1, <1>2 DEF ResultOf
<1>5. \E m \in Int : (c # None => c = Integer(m)) /\ (c = None => m = 0)
  BY DEF Integer
<1>6. PICK m \in Int : (c # None => c = Integer(m)) /\ (c = None => m = 0)
  BY <1>5
<1>7. (IF c # None THEN c ELSE Integer(0)) = Integer(m)
  BY <1>6
<1>8. Len(steps) = 3 /\ Len(steps) \in Nat /\ steps[1] = LoadNumber
      /\ steps[2] = NextNumber /\ steps[3] = StoreNumber
  BY <1>1
<1> HIDE DEF out
<1> DEFINE a1 == Transformed(first, LoadNumber)
           a2 == Transformed(a1, NextNumber)
<1>9. out = Transformed(a2, StoreNumber)
  <2> HIDE DEF steps, first
  <2>1. TransformAll(first, steps) =
          Transformed(Transformed(Transformed(first, steps[1]), steps[2]), steps[3])
    BY <1>8, ThreeTransforms
  <2> QED BY <1>3, <1>8, <2>1
<1> HIDE DEF a2
<1> DEFINE f1 == Numbered(f, Integer(m))
           f2 == Numbered(f1, Integer(m + 1))
           v1 == Append(v0, Integer(m))
           v2 == Append(v1, Integer(m + 1))
           v3 == Append(v2, Integer(m + 1))
<1>10. f \in Fields /\ f["upcsid"] = None /\ c \in Value \cup {None}
  OBVIOUS
<1> HIDE DEF f, c, v0
<1>11. a1 = Accumulator(f1, c, v1, TRUE)
  <2>1. Loaded(c) = Integer(m)
    BY <1>7 DEF Loaded
  <2>2. Transformed(Accumulator(f, c, v0, TRUE), LoadNumber)
          = Accumulator(Numbered(f, Loaded(c)), c, Append(v0, Loaded(c)), TRUE)
    BY <1>10, Loads
  <2> QED BY <2>1, <2>2
<1>12. \A n \in Int : Integer(n) \in Value /\ Integer(n) # None
  BY ValueAssumption DEF Value, Integer
<1>13. f1 \in Fields /\ f1["upcsid"] = Integer(m)
       /\ f2 \in Fields /\ f2["upcsid"] = Integer(m + 1) /\ f2["upcsid"] # None
  <2>1. m + 1 \in Int /\ "upcsid" \in FieldName
    BY DEF FieldName
  <2> QED BY <1>10, <1>12, <2>1 DEF Fields, MapValue, Numbered
<1> HIDE DEF a1
<1>14. \/ a2 = Accumulator(f2, c, v2, TRUE)
       \/ a2 = Accumulator(f1, c, v1, FALSE)
  <2>1. \/ Transformed(Accumulator(f1, c, v1, TRUE), NextNumber) = Accumulator(f2, c, v2, TRUE)
        \/ Transformed(Accumulator(f1, c, v1, TRUE), NextNumber) = Accumulator(f1, c, v1, FALSE)
    BY <1>13, Increments
  <2> HIDE DEF f1, v1, f2, v2
  <2> QED BY <1>11, <2>1 DEF a2
<1>15. out.ok
  BY DEF out
<1>16. f1["upcsid"] # None
  BY <1>12, <1>13
<1> HIDE DEF f1, f2, v1, v2
<1> DEFINE more == Append(v2, f2["upcsid"])
<1>17. out = Accumulator(f2, f2["upcsid"], more, TRUE)
  <2>1. CASE a2 = Accumulator(f1, c, v1, FALSE)
    <3>1. ~ Transformed(Accumulator(f1, c, v1, FALSE), StoreNumber).ok
      BY <1>13, <1>16, Stores
    <3> QED BY <1>9, <1>15, <2>1, <3>1
  <2>2. CASE a2 = Accumulator(f2, c, v2, TRUE)
    <3>1. Transformed(Accumulator(f2, c, v2, TRUE), StoreNumber)
            = Accumulator(f2, f2["upcsid"], more, TRUE)
      BY <1>13, Stores
    <3> QED BY <1>9, <2>2, <3>1
  <2> QED BY <1>14, <2>1, <2>2
<1>18. out = [fields |-> f2, globals |-> Integer(m + 1), values |-> v3, ok |-> TRUE]
  BY <1>13, <1>17 DEF Accumulator
<1>19. Last(v3) = Integer(m + 1)
  <2> DEFINE y == Integer(m + 1)
  <2>1. \A z, y1, y2 : Last(Append(Append(Append(<<>>, z), y1), y2)) = y2
    BY DEF Last
  <2> QED BY <2>1 DEF v0, v1, v2
<1> HIDE DEF v3
<1>20. /\ out.globals = Integer(m + 1) /\ out.fields["upcsid"] = Integer(m + 1)
       /\ Last(out.values) = Integer(m + 1)
  BY <1>13, <1>18, <1>19
<1> QED BY <1>4, <1>6, <1>20 DEF out, c

(* Every other operation that is accepted leaves the counter. *)
LEMMA NotDrawn ==
    ASSUME NEW op \in WriteOperation, NEW w, op \notin TransformDocumentRequest
    PROVE  LET out == Outcome(op, w) IN
           out.globals = w.globals /\ "transform" \notin DOMAIN ResultOf(op, out)
<1> DEFINE out == Outcome(op, w)
<1>1. CASE op \in DeleteDocumentRequest
  <2>1. DOMAIN op = {"delete", "current"}
    BY <1>1 DEF DeleteDocumentRequest
  <2> QED BY <2>1 DEF IsDelete, Outcome, ResultOf
<1>2. CASE op \in UpdateDocumentRequest
  <2>1. DOMAIN op = {"update", "fields", "mask", "current"}
    BY <1>2 DEF UpdateDocumentRequest
  <2>2. ~ IsDelete(op) /\ "transform" \notin DOMAIN op /\ "update" \in DOMAIN op
    BY <2>1 DEF IsDelete
  <2>3. out.globals = w.globals
    BY <2>2 DEF Outcome
  <2>4. ResultOf(op, out) = [update |-> "updated"]
    BY <2>2 DEF ResultOf
  <2> QED BY <2>3, <2>4
<1>3. CASE op \in MergeDocumentRequest
  <2>1. DOMAIN op = {"merge", "fields"}
    BY <1>3 DEF MergeDocumentRequest
  <2>2. ~ IsDelete(op) /\ "transform" \notin DOMAIN op /\ "update" \notin DOMAIN op
        /\ "merge" \in DOMAIN op
    BY <2>1 DEF IsDelete
  <2>3. out.globals = w.globals
    BY <2>2 DEF Outcome
  <2>4. ResultOf(op, out) = [update |-> "updated"]
    BY <2>2 DEF ResultOf
  <2> QED BY <2>3, <2>4
<1> QED BY <1>1, <1>2, <1>3 DEF WriteOperation

(* A member is introduced by a document without a number. *)
LEMMA Introduced ==
    ASSUME NEW op, Introduces(op), NEW w, Outcome(op, w).ok
    PROVE  Outcome(op, w).fields["upcsid"] = None /\ Outcome(op, w).fields # None
           /\ ~ IsDelete(op)
<1>1. DOMAIN op = {"update", "fields", "mask", "current"} /\ op.mask = Everything
  BY DEF Introduces, UpdateDocumentRequest
<1>2. ~ IsDelete(op) /\ "update" \in DOMAIN op
  BY <1>1 DEF IsDelete
<1>3. op.fields # None
  BY OutcomeOfUpdate DEF Introduces
<1>4. Outcome(op, w).fields = op.fields
  BY <1>1, <1>2, <1>3 DEF Outcome
<1> QED BY <1>2, <1>3, <1>4 DEF Introduces

(* The operations of a request, if announcements are whole. *)
LEMMA OfAnnouncements ==
    ASSUME WholeAnnouncements, NEW r \in Requests, NEW i \in DOMAIN r.writes
    PROVE  LET op == r.writes[i] IN
           /\ Draws(op) => /\ ~ IsDelete(op) /\ ~ Introduces(op) /\ AboutPresence(op)
                           /\ \A j \in DOMAIN r.writes : j > i => ~ AboutPresence(r.writes[j])
           /\ Introduces(op) => /\ ~ IsDelete(op)
                                /\ i + 1 \in DOMAIN r.writes /\ Draws(r.writes[i + 1])
           /\ AboutPresence(op) => IsDelete(op) \/ Introduces(op) \/ Draws(op)
           /\ ~ Introduces(op) /\ i + 1 \in DOMAIN r.writes => ~ Draws(r.writes[i + 1])
<1> DEFINE ops == r.writes
<1>0. ops \in Seq(WriteOperation) /\ DOMAIN ops = 1..Len(ops) /\ Len(ops) \in Nat
  BY RequestAssumption DEF WriteDocumentsRequest
<1>1. \A op : /\ Draws(op) => DOMAIN op = {"transform", "transforms"} /\ AboutPresence(op)
              /\ Introduces(op) => DOMAIN op = {"update", "fields", "mask", "current"}
                                   /\ AboutPresence(op)
  BY DEF Draws, Introduces, TransformDocumentRequest, UpdateDocumentRequest
<1>2. \A op : /\ Draws(op) => ~ IsDelete(op) /\ ~ Introduces(op) /\ AboutPresence(op)
              /\ Introduces(op) => ~ IsDelete(op) /\ ~ Draws(op) /\ AboutPresence(op)
  <2>1. ASSUME NEW op, Draws(op) PROVE ~ IsDelete(op) /\ ~ Introduces(op) /\ AboutPresence(op)
    BY <1>1, <2>1 DEF IsDelete
  <2>2. ASSUME NEW op, Introduces(op) PROVE ~ IsDelete(op) /\ ~ Draws(op) /\ AboutPresence(op)
    BY <1>1, <2>2 DEF IsDelete
  <2> QED BY <2>1, <2>2
<1>3. CASE \A j \in DOMAIN ops : AboutPresence(ops[j]) => IsDelete(ops[j])
  BY <1>2, <1>3
<1>4. CASE \E k \in DOMAIN ops :
              /\ k + 1 \in DOMAIN ops
              /\ Introduces(ops[k]) /\ Draws(ops[k + 1])
              /\ \A j \in DOMAIN ops : AboutPresence(ops[j]) => j \in {k, k + 1}
  <2>1. PICK k \in DOMAIN ops :
              /\ k + 1 \in DOMAIN ops
              /\ Introduces(ops[k]) /\ Draws(ops[k + 1])
              /\ \A j \in DOMAIN ops : AboutPresence(ops[j]) => j \in {k, k + 1}
    BY <1>4
  <2>2. \A j \in DOMAIN ops : /\ Draws(ops[j]) => j = k + 1
                              /\ Introduces(ops[j]) => j = k
                              /\ AboutPresence(ops[j]) => j \in {k, k + 1}
    BY <1>2, <2>1
  <2>3. i \in DOMAIN ops /\ i \in Nat /\ k \in Nat /\ \A j \in DOMAIN ops : j \in Nat
    BY <1>0
  <2> HIDE DEF ops
  <2>4. Draws(ops[i]) => \A j \in DOMAIN ops : j > i => ~ AboutPresence(ops[j])
    BY <2>2, <2>3
  <2>5. Introduces(ops[i]) => i + 1 \in DOMAIN ops /\ Draws(ops[i + 1])
    BY <2>1, <2>2, <2>3
  <2>6. ~ Introduces(ops[i]) /\ i + 1 \in DOMAIN ops => ~ Draws(ops[i + 1])
    BY <2>1, <2>2, <2>3
  <2>7. AboutPresence(ops[i]) => IsDelete(ops[i]) \/ Introduces(ops[i]) \/ Draws(ops[i])
    BY <2>1, <2>2, <2>3
  <2> QED BY <1>2, <2>4, <2>5, <2>6, <2>7 DEF ops
<1> QED BY <1>3, <1>4 DEF WholeAnnouncements

(* Copies v that one more operation leaves of the copies w. *)
Moved(v, w, n, doc, c, result) ==
    /\ v.request = w.request /\ v.at = w.at + 1
    /\ v.docs = [w.docs EXCEPT ![n] = doc] /\ v.globals = c
    /\ v.results = Append(w.results, result)

LEMMA ResultsAppended ==
    ASSUME NEW s, s \in Seq(WriteResult), NEW result
    PROVE  /\ \A i \in DOMAIN s : i \in DOMAIN Append(s, result) /\ Append(s, result)[i] = s[i]
           /\ \A i \in DOMAIN Append(s, result) :
                 \/ i \in DOMAIN s
                 \/ i = Len(s) + 1 /\ Append(s, result)[i] = result
<1>1. Len(s) \in Nat /\ DOMAIN s = 1..Len(s)
  OBVIOUS
<1>2. DOMAIN Append(s, result) = 1..(Len(s) + 1)
  OBVIOUS
<1> QED BY <1>1, <1>2

(* An operation about no member's presence leaves what is said of numbers. *)
LEMMA OtherNumbers ==
    ASSUME NEW w, NEW v, NEW n \in DocumentName, NEW doc, NEW result,
           w.docs \in View, w.results \in Seq(WriteResult), w.at \in Nat,
           w.request \in WriteDocumentsRequest,
           NumbersCopied(w), Moved(v, w, n, doc, w.globals, result), n[1] # "__pus",
           "transform" \notin DOMAIN result, ~ AtDraw(w), ~ AtDraw(v)
    PROVE  NumbersCopied(v)
<1> DEFINE u == w.request.by
           ops == w.request.writes
<1>1. v.request = w.request /\ v.at = w.at + 1 /\ v.globals = w.globals
      /\ v.results = Append(w.results, result)
  BY DEF Moved
<1>2. \A x \in Member : v.docs[PresenceDoc(x)] = w.docs[PresenceDoc(x)]
  BY PresenceNames DEF Moved, View
<1>3. u \in Member /\ \A j \in DOMAIN ops : j \in Nat
  BY DEF WriteDocumentsRequest
<1>4. NumbersFit(v.docs, v.globals, Member)
  <2>1. NumbersFit(w.docs, w.globals, Member)
    BY DEF NumbersCopied
  <2> QED BY <1>1, <1>2, <2>1 DEF NumbersFit, NumberOf
<1>5. \A i \in DOMAIN v.results : "transform" \in DOMAIN v.results[i] =>
         i \in DOMAIN w.results /\ v.results[i] = w.results[i]
  BY <1>1, ResultsAppended
<1>6. Answers(v.results, v.docs, u)
  BY <1>2, <1>3, <1>5 DEF NumbersCopied, Answers, NumberOf
<1>7. \A i \in DOMAIN v.results : "transform" \in DOMAIN v.results[i] =>
          \A j \in DOMAIN ops : j >= v.at => ~ AboutPresence(ops[j])
  BY <1>1, <1>3, <1>5 DEF NumbersCopied
<1> QED BY <1>1, <1>4, <1>6, <1>7 DEF NumbersCopied

(* So does one that deletes or introduces its caller's, but for his        *)
(* number: none was drawn in the call yet, and he has none.                *)
LEMMA OwnNumber ==
    ASSUME NEW w, NEW v, NEW doc, NEW result,
           w.docs \in View, w.results \in Seq(WriteResult), w.at \in Nat,
           w.request \in WriteDocumentsRequest,
           NumbersCopied(w), w.at \in DOMAIN w.request.writes,
           AboutPresence(w.request.writes[w.at]),
           Moved(v, w, PresenceDoc(w.request.by), doc, w.globals, result),
           "transform" \notin DOMAIN result, ~ AtDraw(w),
           \/ ~ AtDraw(v) /\ doc = None
           \/ AtDraw(v) /\ doc # None /\ doc.fields["upcsid"] = None
    PROVE  NumbersCopied(v)
<1> DEFINE u == w.request.by
           ops == w.request.writes
           own == PresenceDoc(u)
<1>1. v.request = w.request /\ v.at = w.at + 1 /\ v.globals = w.globals
      /\ v.results = Append(w.results, result)
  BY DEF Moved
<1>2. u \in Member /\ \A j \in DOMAIN ops : j \in Nat
  BY DEF WriteDocumentsRequest
<1>3. /\ \A x \in Member \ {u} : v.docs[PresenceDoc(x)] = w.docs[PresenceDoc(x)]
      /\ v.docs[own] = doc
  <2>1. \A x \in Member \ {u} : PresenceDoc(x) # own
    BY <1>2, PresenceNames
  <2> QED BY <1>2, <2>1, PresenceNames DEF Moved, View
<1>4. \A i \in DOMAIN v.results : "transform" \notin DOMAIN v.results[i]
  <2>1. \A i \in DOMAIN w.results : "transform" \notin DOMAIN w.results[i]
    BY <1>2 DEF NumbersCopied
  <2> QED BY <1>1, <2>1, ResultsAppended
<1>5. NumbersFit(w.docs, w.globals, Member)
  BY DEF NumbersCopied
<1>6. NumbersFit(v.docs, v.globals, Member \ {u})
  <2> HIDE DEF u
  <2> QED BY <1>1, <1>3, <1>5 DEF NumbersFit, NumberOf
<1>7. CASE ~ AtDraw(v) /\ doc = None
  <2>1. NumbersFit(v.docs, v.globals, Member)
    <3> HIDE DEF u
    <3> QED BY <1>3, <1>6, <1>7 DEF NumbersFit, own
  <2> QED BY <1>1, <1>4, <1>7, <2>1 DEF NumbersCopied, Answers
<1>8. CASE AtDraw(v) /\ doc # None /\ doc.fields["upcsid"] = None
  BY <1>1, <1>3, <1>4, <1>6, <1>8 DEF NumbersCopied, Answers, NumberOf
<1> QED BY <1>7, <1>8

(* The number drawn is above all others. *)
LEMMA DrawnNumber ==
    ASSUME NEW w, NEW v, NEW doc, NEW values, NEW m \in Int,
           w.docs \in View, w.results \in Seq(WriteResult), w.at \in Nat,
           w.request \in WriteDocumentsRequest,
           NumbersCopied(w), AtDraw(w), ~ AtDraw(v),
           \A j \in DOMAIN w.request.writes :
              j > w.at => ~ AboutPresence(w.request.writes[j]),
           w.globals # None => w.globals = Integer(m),
           Moved(v, w, PresenceDoc(w.request.by), doc, Integer(m + 1),
                 [transform |-> values]),
           doc # None, doc.fields["upcsid"] = Integer(m + 1), Last(values) = Integer(m + 1)
    PROVE  NumbersCopied(v)
<1> DEFINE u == w.request.by
           ops == w.request.writes
           own == PresenceDoc(u)
           result == [transform |-> values]
<1>1. v.request = w.request /\ v.at = w.at + 1 /\ v.globals = Integer(m + 1)
      /\ v.results = Append(w.results, result)
  BY DEF Moved
<1>2. u \in Member /\ \A j \in DOMAIN ops : j \in Nat
  BY DEF WriteDocumentsRequest
<1>3. /\ \A x \in Member \ {u} : v.docs[PresenceDoc(x)] = w.docs[PresenceDoc(x)]
      /\ v.docs[own] = doc
  <2>1. \A x \in Member \ {u} : PresenceDoc(x) # own
    BY <1>2, PresenceNames
  <2> QED BY <1>2, <2>1, PresenceNames DEF Moved, View
<1>4. \A i \in DOMAIN v.results : "transform" \in DOMAIN v.results[i] =>
         v.results[i] = result
  <2>1. w.at \in DOMAIN ops /\ AboutPresence(ops[w.at])
    BY DEF AtDraw, Draws
  <2>2. \A i \in DOMAIN w.results : "transform" \notin DOMAIN w.results[i]
    BY <2>1 DEF NumbersCopied
  <2> HIDE DEF result
  <2> QED BY <1>1, <2>2, ResultsAppended
<1>5. NumbersFit(w.docs, w.globals, Member \ {u})
  BY DEF NumbersCopied
<1>6. \A n \in Int : Integer(n) \in [integer : Int] /\ Integer(n).integer = n /\ Integer(n) # None
  BY ValueAssumption DEF Integer, Value
<1>7. \A x \in [integer : Int] : x.integer <= m => x # Integer(m + 1) /\ x.integer <= m + 1
  BY <1>6
<1>8. NumberOf(v.docs, u) = Integer(m + 1)
  BY <1>3 DEF NumberOf
<1>9. \A x \in Member \ {u} : v.docs[PresenceDoc(x)] # None =>
         /\ NumberOf(v.docs, x) \in [integer : Int] /\ NumberOf(v.docs, x).integer <= m
         /\ NumberOf(v.docs, x) = NumberOf(w.docs, x)
         /\ w.docs[PresenceDoc(x)] # None
  <2> HIDE DEF u
  <2> QED BY <1>3, <1>5, <1>6 DEF NumbersFit, NumberOf
<1>10. NumbersFit(v.docs, v.globals, Member)
  <2> HIDE DEF u
  <2>1. \A x \in Member : v.docs[PresenceDoc(x)] # None =>
           /\ NumberOf(v.docs, x) \in [integer : Int]
           /\ NumberOf(v.docs, x).integer <= m + 1
    BY <1>6, <1>7, <1>8, <1>9
  <2>2. \A x, y \in Member : x # y /\ v.docs[PresenceDoc(x)] # None
                               /\ v.docs[PresenceDoc(y)] # None =>
           NumberOf(v.docs, x) # NumberOf(v.docs, y)
    <3> SUFFICES ASSUME NEW x \in Member, NEW y \in Member, x # y,
                        v.docs[PresenceDoc(x)] # None, v.docs[PresenceDoc(y)] # None
                 PROVE  NumberOf(v.docs, x) # NumberOf(v.docs, y)
      OBVIOUS
    <3>1. CASE x # u /\ y # u
      BY <1>5, <1>9, <3>1 DEF NumbersFit
    <3>2. CASE x = u
      BY <1>7, <1>8, <1>9, <3>2
    <3>3. CASE y = u
      BY <1>7, <1>8, <1>9, <3>3
    <3> QED BY <3>1, <3>2, <3>3
  <2>3. m + 1 \in Int
    OBVIOUS
  <2> QED BY <1>1, <1>6, <2>1, <2>2, <2>3 DEF NumbersFit
<1>11. Answers(v.results, v.docs, u)
  BY <1>4, <1>8 DEF Answers
<1>12. \A j \in DOMAIN ops : j >= v.at => ~ AboutPresence(ops[j])
  BY <1>1, <1>2
<1> QED BY <1>1, <1>10, <1>11, <1>12 DEF NumbersCopied

LEMMA WrittenMoves ==
    ASSUME NEW op, NEW w, DOMAIN w = CopyFields
    PROVE  Moved(Written(op, w), w, NameOf(op),
                 IF IsDelete(op) THEN None
                 ELSE [fields |-> Outcome(op, w).fields, updateTime |-> clock + 1],
                 Outcome(op, w).globals, ResultOf(op, Outcome(op, w)))
  BY DEF Written, CopyFields, Moved

LEMMA WriteNumbers ==
    ASSUME WholeAnnouncements, IInv, TypeInv, NumberInv, Write PROVE NumberInv'
<1> DEFINE i == work.at
           ops == work.request.writes
           op == ops[i]
           out == Outcome(op, work)
           n == NameOf(op)
           v == Written(op, work)
           doc == IF IsDelete(op) THEN None
                  ELSE [fields |-> out.fields, updateTime |-> clock + 1]
           result == ResultOf(op, out)
           u == work.request.by
<1>1. /\ Locked /\ i <= Len(ops)
      /\ work' = IF Accepted(op, work) THEN v ELSE None
      /\ UNCHANGED <<docs, globals, publishing>>
  BY DEF Write, InWrites, committed, Writes
<1>2. /\ CopiesFit(work) /\ NumbersCopied(work) /\ DOMAIN work = CopyFields
      /\ work \in Copies /\ work.request \in Requests
      /\ work.docs \in View /\ work.results \in Seq(WriteResult) /\ work.at \in Nat
      /\ work.globals \in Value \cup {None} /\ clock \in 0..MaxClock /\ clock \in Nat
  BY <1>1, Bounds DEF IInv, CopiesFit, NumberInv, TypeInv, TypeOK, Locked, Copies
<1>3. i \in DOMAIN ops /\ op \in WriteOperation /\ work.request \in WriteDocumentsRequest
  <2>1. work.at \in Nat \ {0} /\ work.request \in WriteDocumentsRequest
    BY <1>2, RequestAssumption DEF CopiesFit
  <2>2. ops \in Seq(WriteOperation)
    BY <2>1 DEF WriteDocumentsRequest
  <2> QED BY <1>1, <2>1, <2>2
<1>4. ASSUME Accepted(op, work) PROVE NumbersCopied(v)
  <2>1. out.ok /\ n \in DocumentName
    BY <1>3, <1>4, NamesOfOperations DEF Accepted
  <2>2. Moved(v, work, n, doc, out.globals, result)
    BY <1>2, WrittenMoves
  <2>3. n[1] = "__pus" => n = PresenceDoc(u)
    BY <1>3, <1>4, <2>1, AcceptedIsAllowed, PresenceNames
  <2>4. /\ Draws(op) => /\ ~ IsDelete(op) /\ ~ Introduces(op) /\ AboutPresence(op)
                        /\ \A j \in DOMAIN ops : j > i => ~ AboutPresence(ops[j])
        /\ Introduces(op) => /\ ~ IsDelete(op)
                             /\ i + 1 \in DOMAIN ops /\ Draws(ops[i + 1])
        /\ AboutPresence(op) => IsDelete(op) \/ Introduces(op) \/ Draws(op)
        /\ ~ Introduces(op) /\ i + 1 \in DOMAIN ops => ~ Draws(ops[i + 1])
    BY <1>2, <1>3, OfAnnouncements
  <2>5. /\ AtDraw(work) <=> Draws(op)
        /\ AtDraw(v) <=> i + 1 \in DOMAIN ops /\ Draws(ops[i + 1])
    BY <1>3, <2>2 DEF AtDraw, Moved
  <2>6. n[1] = "__pus" <=> AboutPresence(op)
    BY DEF AboutPresence
  <2>7. ~ IsDelete(op) => out.fields \in Fields /\ doc # None /\ doc.fields = out.fields
    <3>1. ~ IsDelete(op) => out.fields \in Fields
      BY <1>2, <1>3, <2>1, OutcomeType
    <3> QED BY <1>2, <3>1, NewDocument, DocumentAssumption
  <2>8. op \notin TransformDocumentRequest =>
           out.globals = work.globals /\ "transform" \notin DOMAIN result
    BY <1>3, NotDrawn
  <2>9. op \in TransformDocumentRequest => n[1] = "__pus"
    <3>1. op \in TransformDocumentRequest => n = op.transform
      BY DEF TransformDocumentRequest, NameOf
    <3> QED BY <2>1, <3>1, OutcomeOfTransform
  <2> HIDE DEF v, doc, out, result, n, op
  <2>10. CASE ~ AboutPresence(op)
    <3>1. n[1] # "__pus" /\ op \notin TransformDocumentRequest /\ ~ AtDraw(work) /\ ~ AtDraw(v)
      <4>1. ~ Introduces(op)
        BY <2>10 DEF Introduces
      <4> QED BY <2>4, <2>5, <2>6, <2>9, <2>10, <4>1, <1>3 DEF WriteDocumentsRequest
    <3>2. Moved(v, work, n, doc, work.globals, result)
      BY <2>2, <2>8, <3>1
    <3> QED BY <1>2, <1>3, <2>1, <2>8, <3>1, <3>2, OtherNumbers
  <2>11. CASE AboutPresence(op) /\ ~ Draws(op)
    <3>1. op \notin TransformDocumentRequest
      BY <2>4, <2>11 DEF Introduces, IsDelete, TransformDocumentRequest, UpdateDocumentRequest
    <3>2. n = PresenceDoc(u) /\ AboutPresence(ops[i])
      BY <2>3, <2>11 DEF AboutPresence, n, op
    <3>3. Moved(v, work, PresenceDoc(u), doc, work.globals, result)
      BY <2>2, <2>8, <3>1, <3>2
    <3>4. \/ ~ AtDraw(v) /\ doc = None
          \/ AtDraw(v) /\ doc # None /\ doc.fields["upcsid"] = None
      <4>1. CASE IsDelete(op)
        BY <2>4, <2>5, <4>1 DEF doc
      <4>2. CASE Introduces(op)
        <5>1. out.fields["upcsid"] = None /\ ~ IsDelete(op)
          BY <2>1, <4>2, Introduced DEF out
        <5> QED BY <2>4, <2>5, <2>7, <4>2, <5>1
      <4> QED BY <2>4, <2>11, <4>1, <4>2
    <3>5. ~ AtDraw(work) /\ "transform" \notin DOMAIN result
      BY <2>5, <2>8, <2>11, <3>1
    <3> QED BY <1>2, <1>3, <3>2, <3>3, <3>4, <3>5, OwnNumber
  <2>12. CASE Draws(op)
    <3>1. n = PresenceDoc(u) /\ AtDraw(work) /\ ~ AtDraw(v)
          /\ \A j \in DOMAIN ops : j > i => ~ AboutPresence(ops[j])
      BY <2>3, <2>4, <2>5, <2>12 DEF AboutPresence, n
    <3>2. work.docs[n] # None /\ work.docs[n].fields \in Fields
          /\ work.docs[n].fields["upcsid"] = None
      <4>1. work.docs[n] # None /\ work.docs[n].fields["upcsid"] = None
        BY <1>2, <3>1 DEF NumbersCopied, NumberOf
      <4>2. work.docs[n] \in Document
        BY <1>2, <2>1, <4>1 DEF View, DocumentOrNone
      <4> QED BY <4>1, <4>2 DEF Document
    <3>3. work.globals # None => work.globals \in [integer : Int]
      BY <1>2 DEF NumbersCopied, NumbersFit
    <3>4. PICK m \in Int :
             /\ work.globals # None => work.globals = Integer(m)
             /\ out.globals = Integer(m + 1) /\ out.fields["upcsid"] = Integer(m + 1)
             /\ Last(out.values) = Integer(m + 1)
             /\ result = [transform |-> out.values]
      BY <1>2, <2>1, <2>12, <3>2, <3>3, Drawn DEF n, out, result
    <3>5. doc # None /\ doc.fields["upcsid"] = Integer(m + 1)
      BY <2>4, <2>7, <2>12, <3>4
    <3> DEFINE values == out.values
    <3>6. Moved(v, work, PresenceDoc(u), doc, Integer(m + 1), [transform |-> values])
          /\ Last(values) = Integer(m + 1)
      BY <2>2, <3>1, <3>4
    <3> HIDE DEF values
    <3> QED BY <1>2, <1>3, <3>1, <3>4, <3>5, <3>6, DrawnNumber
  <2> QED BY <2>10, <2>11, <2>12
<1> HIDE DEF v, op
<1>5. Locked' => NumbersCopied(work)'
  BY <1>1, <1>4 DEF Locked, NumbersCopied, NumbersFit, NumberOf, AtDraw, Answers
<1> QED BY <1>1, <1>5 DEF NumberInv, NumbersFit, NumberOf, Answers

LEMMA DeferNumbers ==
    ASSUME IInv, TypeInv, NumberInv, Defer PROVE NumberInv'
<1> DEFINE op == Deferments[work.at - Len(Writes)]
           v == Deferred(op, work)
<1>1. /\ Locked /\ ~ (work.at <= Len(Writes))
      /\ work' = IF DefermentAccepted(op, work) THEN v ELSE None
      /\ UNCHANGED <<docs, globals, publishing>>
  BY DEF Defer, InDeferments, InWrites, committed
<1>2. NumbersCopied(work) /\ DOMAIN work = CopyFields /\ work.at \in Nat
      /\ work.request \in WriteDocumentsRequest
  BY <1>1, RequestAssumption DEF IInv, CopiesFit, NumberInv
<1> HIDE DEF op
<1>3. /\ v.docs = work.docs /\ v.globals = work.globals /\ v.results = work.results
      /\ v.request = work.request /\ v.at = work.at + 1
  BY <1>2 DEF Deferred, CopyFields
<1>4. \A j \in DOMAIN work.request.writes : j \in Nat /\ j <= Len(work.request.writes)
      /\ Len(work.request.writes) \in Nat
  BY <1>2 DEF WriteDocumentsRequest
<1>5. ~ AtDraw(work) /\ ~ AtDraw(v)
  BY <1>1, <1>2, <1>3, <1>4 DEF AtDraw, Writes
<1> HIDE DEF v
<1>6. NumbersCopied(v)
  BY <1>2, <1>3, <1>4, <1>5 DEF NumbersCopied
<1>7. Locked' => NumbersCopied(work)'
  BY <1>1, <1>6 DEF Locked, NumbersCopied, NumbersFit, NumberOf, AtDraw, Answers
<1> QED BY <1>1, <1>7 DEF NumberInv, NumbersFit, NumberOf, Answers

LEMMA BeginNumbers ==
    ASSUME WholeAnnouncements, IInv, TypeInv, NumberInv, NEW u \in Member, Begin(u)
    PROVE  NumberInv'
<1>1. /\ writer[u] # None /\ UNCHANGED <<docs, globals, publishing>>
      /\ UNCHANGED work \/ Start(u)
  BY DEF Begin, committed
<1>2. CASE UNCHANGED work
  BY <1>1, <1>2 DEF NumberInv, Locked, NumbersCopied, NumbersFit, NumberOf, AtDraw, Answers
<1>3. CASE Start(u)
  <2> DEFINE r == writer[u]
             w == [request |-> r, at |-> 1, docs |-> docs, owners |-> owners,
                   globals |-> globals, deferments |-> deferments[u], changed |-> {},
                   results |-> <<>>]
  <2>1. work' = w /\ r \in Requests /\ r \in WriteDocumentsRequest
    BY <1>1, <1>3, RequestAssumption DEF Start, IInv, WritersFit
  <2>2. /\ w.request = r /\ w.at = 1 /\ w.docs = docs /\ w.globals = globals
        /\ w.results = <<>>
    OBVIOUS
  <2> HIDE DEF r, w
  <2>3. ~ AtDraw(w)
    <3> SUFFICES ASSUME 1 \in DOMAIN r.writes, Draws(r.writes[1]) PROVE FALSE
      BY <2>2 DEF AtDraw
    <3>1. Draws(r.writes[1]) => AboutPresence(r.writes[1]) /\ ~ IsDelete(r.writes[1])
      BY <2>1, OfAnnouncements
    <3>2. PICK k \in DOMAIN r.writes :
              /\ k + 1 \in DOMAIN r.writes
              /\ Introduces(r.writes[k]) /\ Draws(r.writes[k + 1])
              /\ \A i \in DOMAIN r.writes : AboutPresence(r.writes[i]) => i \in {k, k + 1}
      BY <2>1, <3>1 DEF WholeAnnouncements
    <3>3. k \in Nat \ {0}
      BY <2>1 DEF WriteDocumentsRequest
    <3>4. 1 = k
      BY <3>1, <3>2, <3>3
    <3>5. Draws(r.writes[1]) => ~ Introduces(r.writes[1])
      BY <2>1, OfAnnouncements
    <3> QED BY <3>2, <3>4, <3>5
  <2>4. NumbersCopied(w)
    BY <2>2, <2>3 DEF NumberInv, NumbersCopied, Answers
  <2>5. NumbersCopied(work)'
    BY <2>1, <2>4 DEF NumbersCopied, NumbersFit, NumberOf, AtDraw, Answers
  <2> QED BY <1>1, <2>5 DEF NumberInv, NumbersFit, NumberOf, Answers
<1> QED BY <1>1, <1>2, <1>3

LEMMA CommitNumbers ==
    ASSUME IInv, TypeInv, NumberInv, Commit PROVE NumberInv'
<1>1. /\ Locked /\ work.at > Len(Writes) + Len(Deferments) /\ work' = None
      /\ docs' = work.docs /\ globals' = work.globals
      /\ publishing' = [step |-> "commit", by |-> work.request.by, changed |-> work.changed,
                         response |-> [results |-> work.results, commitTime |-> clock + 1]]
  BY DEF Commit, Finished
<1>2. NumbersCopied(work) /\ work.at \in Nat /\ work.request \in WriteDocumentsRequest
  BY <1>1, RequestAssumption DEF IInv, CopiesFit, NumberInv
<1>3. ~ AtDraw(work)
  <2>1. /\ \A j \in DOMAIN Writes : j \in Nat /\ j <= Len(Writes)
        /\ Len(Writes) \in Nat /\ Len(Deferments) \in Nat
    BY <1>2 DEF WriteDocumentsRequest, Writes, Deferments
  <2> QED BY <1>1, <1>2, <2>1 DEF AtDraw, Writes
<1>4. NumbersFit(work.docs, work.globals, Member) /\ Answers(work.results, work.docs, work.request.by)
  BY <1>2, <1>3 DEF NumbersCopied
<1>5. NumbersFit(docs', globals', Member)
  BY <1>1, <1>4
<1>6. publishing'.response.results = work.results /\ publishing'.by = work.request.by
  BY <1>1
<1>7. Answers(publishing'.response.results, docs', publishing'.by)
  BY <1>1, <1>4, <1>6
<1>8. ~ Locked'
  BY <1>1 DEF Locked
<1> QED BY <1>5, <1>7, <1>8 DEF NumberInv, NumbersFit, NumberOf, Answers

(* The other steps draw no number: presence documents stay or go, and      *)
(* while a commit is still to be told they stay.                           *)
LEMMA NumbersStay ==
    ASSUME NumberInv, UNCHANGED <<globals, work>>, ~ Locked \/ UNCHANGED docs,
           \A u \in Member : \/ docs'[PresenceDoc(u)] = docs[PresenceDoc(u)]
                             \/ docs'[PresenceDoc(u)] = None,
           publishing' # None /\ publishing'.step = "commit" =>
              /\ publishing' = publishing /\ publishing.by \in Member
              /\ \A u \in Member : docs'[PresenceDoc(u)] = docs[PresenceDoc(u)]
    PROVE  NumberInv'
<1>1. NumbersFit(docs', globals', Member)
  BY DEF NumberInv, NumbersFit, NumberOf
<1>2. Locked' => NumbersCopied(work)'
  BY DEF NumberInv, Locked, NumbersCopied, NumbersFit, NumberOf, AtDraw, Answers
<1>3. publishing' # None /\ publishing'.step = "commit" =>
         Answers(publishing'.response.results, docs', publishing'.by)
  BY DEF NumberInv, Answers, NumberOf
<1> QED BY <1>1, <1>2, <1>3 DEF NumberInv, NumbersFit, NumberOf, Answers

LEMMA OtherNames ==
    ASSUME NEW u \in Member
    PROVE  /\ PresenceDoc(u) \in DocumentName
           /\ PresenceDoc(u) \notin {ControlDoc, FixedDoc}
           /\ \A v \in Member : PresenceDoc(u) # SessionDoc(v)
  BY Names, PresenceNames

LEMMA SeedNumbers ==
    ASSUME IInv, TypeInv, NumberInv, NEW u \in Member, InitializeFixedData(u) PROVE NumberInv'
<1>1. UNCHANGED <<globals, work, publishing>> /\ ~ Locked
  BY DEF InitializeFixedData
<1>2. \A v \in Member : docs'[PresenceDoc(v)] = docs[PresenceDoc(v)]
  BY OtherNames DEF InitializeFixedData, TypeInv, TypeOK, View
<1>3. publishing # None => publishing.by \in Member
  BY DEF TypeInv, TypeOK, Publication
<1> QED BY <1>1, <1>2, <1>3, NumbersStay

LEMMA RememberNumbers ==
    ASSUME IInv, TypeInv, NumberInv, NEW u \in Member, Remember(u) PROVE NumberInv'
<1>1. UNCHANGED <<globals, work, publishing>> /\ ~ Locked
  BY DEF Remember, Publishing
<1>2. \A v \in Member : docs'[PresenceDoc(v)] = docs[PresenceDoc(v)]
  BY OtherNames DEF Remember, TypeInv, TypeOK, View
<1>3. publishing # None => publishing.by \in Member
  BY DEF TypeInv, TypeOK, Publication
<1> QED BY <1>1, <1>2, <1>3, NumbersStay

LEMMA ExpireNumbers ==
    ASSUME TypeInv, NumberInv, NEW u \in Member, Expire(u) PROVE NumberInv'
<1>1. UNCHANGED <<globals, work>> /\ ~ Locked /\ publishing'.step = "depart"
  BY DEF Expire, Publishing
<1>2. \A v \in Member : \/ docs'[PresenceDoc(v)] = docs[PresenceDoc(v)]
                        \/ docs'[PresenceDoc(v)] = None
  <2>1. docs' = [n \in DocumentName |-> IF n \in DeletedWith(u) THEN None ELSE docs[n]]
    BY DEF Expire
  <2> QED BY <2>1, OtherNames
<1> QED BY <1>1, <1>2, NumbersStay

LEMMA CheckReopenNumbers ==
    ASSUME TypeInv, NumberInv, CheckReopen PROVE NumberInv'
<1>1. UNCHANGED <<globals, work>> /\ ~ Locked
  BY DEF CheckReopen
<1>2. \A v \in Member : docs'[PresenceDoc(v)] = docs[PresenceDoc(v)]
  BY OtherNames DEF CheckReopen, TypeInv, TypeOK, View
<1>3. publishing'.step # "commit"
  <2>1. /\ publishing \in Publication
        /\ \/ publishing' = [publishing EXCEPT !.step = "tell"]
           \/ publishing' = [publishing EXCEPT !.step = "reopened",
                                               !.changed = publishing.changed \cup {ControlDoc}]
    BY DEF CheckReopen, TypeInv, TypeOK, Goes
  <2> QED BY <2>1 DEF Publication
<1> QED BY <1>1, <1>2, <1>3, NumbersStay

LEMMA DepartNumbers ==
    ASSUME TypeInv, NumberInv, Depart PROVE NumberInv'
<1>1. UNCHANGED <<globals, work, docs>>
  BY DEF Depart, committed
<1>2. publishing'.step # "commit"
  <2>1. publishing \in Publication /\ publishing' = [publishing EXCEPT !.step = "check"]
    BY DEF Depart, TypeInv, TypeOK, Goes
  <2> QED BY <2>1 DEF Publication
<1> QED BY <1>1, <1>2, NumbersStay

LEMMA NumberStep ==
    ASSUME WholeAnnouncements, IInv, TypeInv, NumberInv, [Next]_vars PROVE NumberInv'
<1>1. ASSUME NEW u \in Member, InitializeFixedData(u) \/ Remember(u) PROVE NumberInv'
  BY <1>1, SeedNumbers, RememberNumbers
<1>2. ASSUME NEW u \in Member, Begin(u) \/ Expire(u) PROVE NumberInv'
  BY <1>2, BeginNumbers, ExpireNumbers
<1>3. Write \/ Defer \/ Commit \/ Depart \/ CheckReopen => NumberInv'
  BY WriteNumbers, DeferNumbers, CommitNumbers, DepartNumbers, CheckReopenNumbers
<1>4. PublishCommit \/ PublishExpiry => NumberInv'
  <2>1. PublishCommit \/ PublishExpiry =>
           UNCHANGED <<globals, work, docs>> /\ publishing' = None
    BY DEF PublishCommit, PublishExpiry, committed
  <2> QED BY <2>1, NumbersStay
<1>5. \/ \E u \in Member : Admit(u)
      \/ \E r \in IssueTokenRequest : CheckMember(r)
      \/ \E s \in Stream, u \in Member : OpenStream(s, u)
      \/ \E s \in Stream, r \in StreamRequests : Receive(s, r)
      \/ \E s \in Stream : CloseStream(s)
      \/ \E r \in Requests : Authorize(r)
      \/ UNCHANGED vars
      => UNCHANGED <<globals, work, docs, publishing>>
  BY DEF Admit, CheckMember, OpenStream, Receive, CloseStream, Authorize, vars, committed
<1>6. publishing # None => publishing.by \in Member
  BY DEF TypeInv, TypeOK, Publication
<1>7. UNCHANGED <<globals, work, docs, publishing>> => NumberInv'
  BY <1>6, NumbersStay
<1> QED BY <1>1, <1>2, <1>3, <1>4, <1>5, <1>7 DEF Next

(* No two members are announced with one number, and each is answered the  *)
(* number that the others see.                                             *)
THEOREM NumbersTheorem == WholeAnnouncements => (Spec => []NumbersAreUnique)
<1> SUFFICES ASSUME WholeAnnouncements PROVE Spec => []NumbersAreUnique
  OBVIOUS
<1>1. Init => NumberInv
  <2> SUFFICES ASSUME Init PROVE NumberInv
    OBVIOUS
  <2>1. \A u \in Member : docs[PresenceDoc(u)] = None
    BY PresenceNames DEF Init, Nothing
  <2> QED BY <2>1 DEF Init, NumberInv, NumbersFit, Locked
<1>2. IInv /\ TypeInv /\ NumberInv /\ [Next]_vars => NumberInv'
  BY NumberStep
<1>3. NumberInv => NumbersAreUnique
  BY DEF NumberInv, NumbersFit, NumberOf, Answers, NumbersAreUnique
<1> QED BY <1>1, <1>2, <1>3, TypeTheorem, PTL DEF Spec
=============================================================================
