-------------------------- MODULE GamesyncMessages --------------------------
(***************************************************************************)
(* The messages of the Gamesync service, as src/proto/gamesync/v1 defines  *)
(* them and the server reads them.                                         *)
(*                                                                         *)
(* A oneof is a union of records that differ in one field's name, which    *)
(* names the arm: "update" \in DOMAIN op is op.GetUpdateDocument() # nil.  *)
(* A message or a map entry that may be missing is None.  A field path is  *)
(* one name: no document of the game has nested fields that are written    *)
(* one by one.                                                             *)
(***************************************************************************)
EXTENDS Integers, Sequences

CONSTANTS
    Member,            (* user sessions of the room, and their users       *)
    Payload,           (* what the server never looks into                 *)
    None               (* nil                                              *)

ASSUME NoneAssumption == None \notin Member /\ None \notin Payload

(* common.Value and common.MapValue, as far as the server tells them apart *)
Integer(n) == [integer |-> n]
Boolean(b) == [boolean |-> b]
String(x)  == [string |-> x]
Bytes(x)   == [bytes |-> x]
Timestamp(t) == [timestamp |-> t]
Value ==
    [integer : Int] \cup [boolean : BOOLEAN] \cup [string : Member]
        \cup [bytes : Payload] \cup [timestamp : Nat]
ASSUME ValueAssumption == None \notin Value
MapValue(keys) == [keys -> Value \cup {None}]

(* Names of documents: docs/<collection>/<id>. *)
ControlDoc == <<"__gs", "m">>
FixedDoc   == <<"__gs", "f">>
MetricsDoc == <<"__mt", "nat_traversal">>
StartDoc   == <<"@@battleStart", "id">>
GroupDoc   == <<"__stg", "All">>
SessionDoc(u)  == <<"__us", u>>
PresenceDoc(u) == <<"__pus", u>>
MailDoc(u)     == <<"__stu", u>>
ReportDoc(q)   == <<"@@battleReport", q>>
OwnDocs(u) == {SessionDoc(u), PresenceDoc(u), MailDoc(u)}
DocumentName ==
    {ControlDoc, FixedDoc, MetricsDoc, StartDoc, GroupDoc, ReportDoc(1), ReportDoc(2)}
        \cup UNION {OwnDocs(u) : u \in Member}

(* The fields that documents have.  "id" stands for the fields that name   *)
(* the sender: uid, ussid and ucsid, or suid, susid and sussid.            *)
FieldName == {"id", "upcsid", "pl", "cp", "ip", "ebf", "lu", "ru", "result"}
Wildcard == "*"
Fields == MapValue(FieldName)
NoFields == [f \in FieldName |-> None]

Document == [fields : Fields, updateTime : Nat]
DocumentOrNone == Document \cup {None}
ASSUME DocumentAssumption == None \notin Document

FieldMask == SUBSET (FieldName \cup {Wildcard})
Everything == {Wildcard}

Precondition == {None} \cup [exists : BOOLEAN] \cup [updateTime : Nat]

GlobalName == {"__upcsidn", "unknown"}
ServerValueType == {"SERVER_VALUE_TYPE_UNSPECIFIED", "REQUEST_TIME"}
FieldTransform ==
    [field : FieldName \cup {Wildcard}, load : GlobalName]
        \cup [field : FieldName, store : GlobalName]
        \cup [field : FieldName, clear : GlobalName]
        \cup [field : FieldName, increment : Value]
        \cup [field : FieldName, maximum : Value]
        \cup [field : FieldName, minimum : Value]
        \cup [field : FieldName, server : ServerValueType]

UpdateDocumentRequest ==
    [update : DocumentName, fields : Fields \cup {None}, mask : FieldMask, current : Precondition]
MergeDocumentRequest == [merge : DocumentName, fields : Fields \cup {None}]
TransformDocumentRequest == [transform : DocumentName, transforms : Seq(FieldTransform)]
DeleteDocumentRequest == [delete : DocumentName, current : Precondition]
WriteOperation ==
    UpdateDocumentRequest \cup MergeDocumentRequest
        \cup TransformDocumentRequest \cup DeleteDocumentRequest

(* A deferment's name says under whose user session it is filed; the       *)
(* alias "current" is a name of its own for the same session.              *)
DefermentName == (Member \cup {"current"}) \X Payload
Deferment == [name : DefermentName, writes : Seq(WriteOperation)]
UpdateDefermentRequest == [defer : Deferment]
DeleteDefermentRequest == [undefer : DefermentName]
DefermentOperation == UpdateDefermentRequest \cup DeleteDefermentRequest

WriteDocumentsRequest ==
    [by : Member, writes : Seq(WriteOperation), deferments : Seq(DefermentOperation)]

(* The answer: one result per write, of a transform the values its parts   *)
(* left.                                                                   *)
UpdateResult == {"updated"}
DeleteResult == {"deleted"}
TransformResult == Seq(Value)
WriteResult ==
    [update : UpdateResult] \cup [transform : TransformResult] \cup [delete : DeleteResult]
WriteDocumentsResponse == [results : Seq(WriteResult), commitTime : Nat]

(* Reads; a transaction is not supported. *)
GetDocumentRequest == [name : DocumentName, mask : FieldMask]
ReadDocumentsRequest == [names : Seq(DocumentName), mask : FieldMask]
ReadResult == [found : Document] \cup [missing : DocumentName]
ReadDocumentsResponse == [results : Seq(ReadResult)]

(* A user session is asked for with the match token of one. *)
IssueTokenRequest == [session : Member, token : Member]

(* What a stream is asked to follow.  A client names its targets apart, so *)
(* a target stands for its name.                                           *)
DocumentsTarget == [documents : SUBSET DocumentName]
CollectionTarget == [collection : {"__gs", "__us", "__pus", "__stu", "__stg", "__mt",
                                   "@@battleStart", "@@battleReport"}]
Target == DocumentsTarget \cup CollectionTarget
UpdateTargetRequest == [target : Target]
DeleteTargetRequest == [name : Target]
KeepUserSessionRequest ==
    [of : Member, echo : Payload]
        \cup [of : Member, update : UpdateTargetRequest]
        \cup [of : Member, delete : DeleteTargetRequest]

(* What a stream is told: a document that is gone has a name and no more.  *)
(* No target ever fails.                                                   *)
DocumentChangeType == {"EXIST", "UPDATED", "DELETED"}
TargetChangeType == {"UPDATED", "LISTED", "DELETED"}
DocumentChange ==
    [target : Target, type : DocumentChangeType, name : DocumentName, document : DocumentOrNone]
TargetChange == [target : Target, type : TargetChangeType]

(* targetMatchesDocument *)
Matches(target, name) ==
    \/ "documents" \in DOMAIN target /\ name \in target.documents
    \/ "collection" \in DOMAIN target /\ name[1] = target.collection
=============================================================================
