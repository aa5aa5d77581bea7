---------------------------- MODULE UgcMessages ----------------------------
(***************************************************************************)
(* The messages of the Ugcstore service, as src/proto/ugcstore/v1 defines  *)
(* them and the server tells them apart.                                   *)
(*                                                                         *)
(* A oneof is a union of records that differ in the name of one field.     *)
(* Names are parsed: a rental team's slot and a penalty document are       *)
(* members of two sets, "tenants/current" and the tenant's id are one      *)
(* name.  Times, rule contexts, read masks and payloads of attachments     *)
(* are left out: no answer depends on them.                                *)
(***************************************************************************)
EXTENDS Integers, Sequences

CONSTANTS
    Slot,            (* .../publicItems/rental_team_0 to 4                 *)
    PenaltyName,     (* .../privateItems/penalty, one per alias of a save  *)
    Team,            (* RentalTeamBinary, of the right size                *)
    Code,            (* six characters of the alphabet of codes            *)
    None             (* nil, "" and a missing map entry                    *)

ASSUME UgcNameAssumption ==
    /\ Slot \cap PenaltyName = {} /\ None \notin Slot \cup PenaltyName \cup Team \cup Code

(* The fields of the two families of documents. *)
TeamFields == [binary : Team \cup {None}, code : Code \cup {None}]
PenaltyField == {"disconnect_count", "penalty_start_at", "warning_flag"}
PenaltyFields == [PenaltyField -> Int \cup {None}]
NoTeam == [binary |-> None, code |-> None]
NoPenalty == [f \in PenaltyField |-> 0]

Document == [name : Slot, fields : TeamFields] \cup [name : PenaltyName, fields : PenaltyFields]
DocumentShortAlias == [name : Code, document : Slot]

Precondition == {None} \cup [exists : BOOLEAN] \cup [updateTime : Nat]

(* "*", or the quoted names of fields. *)
Everything == {"*"}
UpdateMask == {Everything, {"code"}, {}} \cup SUBSET PenaltyField

UpdateDocumentRequest == [update : Document, mask : UpdateMask, current : Precondition]
DeleteDocumentRequest == [delete : Slot \cup PenaltyName, current : Precondition]

(* Operations the server answers with Unimplemented. *)
ServerValueType == {"SERVER_VALUE_TYPE_UNSPECIFIED", "REQUEST_TIME"}
FieldTransform ==
    [field : PenaltyField, server : ServerValueType] \cup [field : PenaltyField, increment : Int]
        \cup [field : PenaltyField, maximum : Int] \cup [field : PenaltyField, minimum : Int]
        \cup [field : PenaltyField, buffered : Int]
BufferedFieldTransform == [field : PenaltyField, increment : Int]
TransformDocumentRequest ==
    [transform : Slot \cup PenaltyName, transforms : Seq(FieldTransform),
     buffered : Seq(BufferedFieldTransform)]
SetAttachmentRequest == [attach : Slot \cup PenaltyName, exists : BOOLEAN]
UnsetAttachmentRequest == [unset : Slot \cup PenaltyName, force : BOOLEAN]
ImportAttachmentRequest == [import : Slot \cup PenaltyName]

WriteOperation ==
    UpdateDocumentRequest \cup DeleteDocumentRequest \cup TransformDocumentRequest
        \cup SetAttachmentRequest \cup UnsetAttachmentRequest \cup ImportAttachmentRequest

CommitDocumentsRequest == [writes : Seq(WriteOperation), ruled : BOOLEAN]

GetDocumentRequest == [name : Slot \cup PenaltyName]
BulkGetDocumentsRequest == [names : Seq(Slot \cup PenaltyName)]
BulkGetDocumentsResponse == [found : Document] \cup [missing : Slot]

(* A name asks for a code of the caller's own choice. *)
CreateDocumentShortAliasRequest == [document : Slot, name : Code \cup {None}]
GetDocumentShortAliasRequest == [name : Code]
BulkGetDocumentShortAliasesRequest == [requests : Seq(GetDocumentShortAliasRequest)]
BulkGetDocumentShortAliasesResult == [found : DocumentShortAlias] \cup [missing : Code]
BulkGetDocumentShortAliasesResponse == [results : Seq(BulkGetDocumentShortAliasesResult)]
=============================================================================
