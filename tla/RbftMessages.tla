---------------------------- MODULE RbftMessages ----------------------------
(***************************************************************************)
(* The messages of rbft.proto as their generated functions treat them      *)
(* (common/consensus/rbft_vtproto.pb.go).  For each message three tables,  *)
(* one per function, each read off that function alone, because nothing    *)
(* but their agreement makes a message survive the wire:                   *)
(*   MarshalM    the fields MarshalToSizedBufferVTStrict writes, in the    *)
(*               order of the output, with the field numbers of their tags;*)
(*   SizeM       the fields SizeVT counts, with the bytes of their tags;   *)
(*   UnmarshalM  the cases of UnmarshalVT, by field number;                *)
(* and for some messages, read off likewise,                               *)
(*   EqualM      what EqualVT compares, for those the program compares:    *)
(*               VcBasis and NodeDynamicInfo, with all they contain;       *)
(*   CloneM      what CloneVT copies, for those it copies: SignedCheckpoint*)
(*               with all it contains, Prepare and Commit.                 *)
(* WireFormat says what the kinds of fields mean.                          *)
(***************************************************************************)

Field(k, n, name, type) == [kind |-> k, n |-> n, name |-> name, type |-> type]

Varint(n, name) == Field("varint", n, name, "")          \* uint64, int64, enum
Bool(n, name) == Field("bool", n, name, "")
Bytes(n, name) == Field("bytes", n, name, "")            \* bytes, string
Msg(n, name, type) == Field("msg", n, name, type)
BytesList(n, name) == Field("byteslist", n, name, "")
BoolList(n, name) == Field("boollist", n, name, "")      \* packed
MsgList(n, name, type) == Field("msglist", n, name, type)
BytesMap(n, name) == Field("bytesmap", n, name, "")      \* map<uint64, bytes>
MsgMap(n, name, type) == Field("msgmap", n, name, type)

(* ConsensusMessage *)
MarshalConsensusMessage ==
  <<Varint(1, "Type"), Varint(2, "From"), Varint(3, "To"), Varint(4, "Epoch"),
    Varint(5, "View"), Bytes(6, "Payload"), Varint(7, "Nonce")>>
SizeConsensusMessage ==
  <<Varint(1, "Type"), Varint(1, "From"), Varint(1, "To"), Varint(1, "Epoch"),
    Varint(1, "View"), Bytes(1, "Payload"), Varint(1, "Nonce")>>
UnmarshalConsensusMessage ==
  <<Varint(1, "Type"), Varint(2, "From"), Varint(3, "To"), Varint(4, "Epoch"),
    Varint(5, "View"), Bytes(6, "Payload"), Varint(7, "Nonce")>>

(* NullRequest *)
MarshalNullRequest == <<Varint(1, "ReplicaId")>>
SizeNullRequest == <<Varint(1, "ReplicaId")>>
UnmarshalNullRequest == <<Varint(1, "ReplicaId")>>

(* PrePrepare *)
MarshalPrePrepare ==
  <<Varint(1, "ReplicaId"), Varint(2, "View"), Varint(3, "SequenceNumber"),
    Bytes(4, "BatchDigest"), Msg(5, "HashBatch", "HashBatch")>>
SizePrePrepare ==
  <<Varint(1, "ReplicaId"), Varint(1, "View"), Varint(1, "SequenceNumber"),
    Bytes(1, "BatchDigest"), Msg(1, "HashBatch", "HashBatch")>>
UnmarshalPrePrepare ==
  <<Varint(1, "ReplicaId"), Varint(2, "View"), Varint(3, "SequenceNumber"),
    Bytes(4, "BatchDigest"), Msg(5, "HashBatch", "HashBatch")>>

(* Prepare *)
MarshalPrepare ==
  <<Varint(1, "ReplicaId"), Varint(2, "View"), Varint(3, "SequenceNumber"),
    Bytes(4, "BatchDigest")>>
SizePrepare ==
  <<Varint(1, "ReplicaId"), Varint(1, "View"), Varint(1, "SequenceNumber"),
    Bytes(1, "BatchDigest")>>
UnmarshalPrepare ==
  <<Varint(1, "ReplicaId"), Varint(2, "View"), Varint(3, "SequenceNumber"),
    Bytes(4, "BatchDigest")>>
ClonePrepare ==
  {"ReplicaId", "View", "SequenceNumber", "BatchDigest", "unknownFields"}

(* Commit *)
MarshalCommit ==
  <<Varint(1, "ReplicaId"), Varint(2, "View"), Varint(3, "SequenceNumber"),
    Bytes(4, "BatchDigest")>>
SizeCommit ==
  <<Varint(1, "ReplicaId"), Varint(1, "View"), Varint(1, "SequenceNumber"),
    Bytes(1, "BatchDigest")>>
UnmarshalCommit ==
  <<Varint(1, "ReplicaId"), Varint(2, "View"), Varint(3, "SequenceNumber"),
    Bytes(4, "BatchDigest")>>
CloneCommit ==
  {"ReplicaId", "View", "SequenceNumber", "BatchDigest", "unknownFields"}

(* ReBroadcastRequestSet *)
MarshalReBroadcastRequestSet ==
  <<Varint(1, "ReplicaId"), BytesList(2, "Requests")>>
SizeReBroadcastRequestSet ==
  <<Varint(1, "ReplicaId"), BytesList(1, "Requests")>>
UnmarshalReBroadcastRequestSet ==
  <<Varint(1, "ReplicaId"), BytesList(2, "Requests")>>

(* HashBatch *)
MarshalHashBatch ==
  <<BytesList(1, "RequestHashList"),
    BytesList(2, "DeDuplicateRequestHashList"), Varint(3, "Timestamp"),
    Varint(4, "Proposer")>>
SizeHashBatch ==
  <<BytesList(1, "RequestHashList"),
    BytesList(1, "DeDuplicateRequestHashList"), Varint(1, "Timestamp"),
    Varint(1, "Proposer")>>
UnmarshalHashBatch ==
  <<BytesList(1, "RequestHashList"),
    BytesList(2, "DeDuplicateRequestHashList"), Varint(3, "Timestamp"),
    Varint(4, "Proposer")>>

(* FetchCheckpoint *)
MarshalFetchCheckpoint ==
  <<Varint(1, "ReplicaId"), Varint(2, "SequenceNumber")>>
SizeFetchCheckpoint == <<Varint(1, "ReplicaId"), Varint(1, "SequenceNumber")>>
UnmarshalFetchCheckpoint ==
  <<Varint(1, "ReplicaId"), Varint(2, "SequenceNumber")>>

(* ViewChange *)
MarshalViewChange ==
  <<Msg(1, "Basis", "VcBasis"), Bytes(2, "Signature"), Varint(3, "Timestamp"),
    Bool(4, "Recovery")>>
SizeViewChange ==
  <<Msg(1, "Basis", "VcBasis"), Bytes(1, "Signature"), Varint(1, "Timestamp"),
    Bool(1, "Recovery")>>
UnmarshalViewChange ==
  <<Msg(1, "Basis", "VcBasis"), Bytes(2, "Signature"), Varint(3, "Timestamp"),
    Bool(4, "Recovery")>>
EqualViewChange ==
  {"Basis", "Signature", "Timestamp", "Recovery", "unknownFields"}
CloneViewChange ==
  {"Basis", "Timestamp", "Recovery", "Signature", "unknownFields"}

(* ValidatorDynamicInfo *)
MarshalValidatorDynamicInfo == <<MsgList(1, "Info", "NodeDynamicInfo")>>
SizeValidatorDynamicInfo == <<MsgList(1, "Info", "NodeDynamicInfo")>>
UnmarshalValidatorDynamicInfo == <<MsgList(1, "Info", "NodeDynamicInfo")>>

(* VcBasis *)
MarshalVcBasis ==
  <<Varint(1, "ReplicaId"), Varint(2, "View"), Varint(3, "H"),
    MsgList(4, "Pset", "VcPq"), MsgList(5, "Qset", "VcPq"),
    MsgList(6, "Cset", "SignedCheckpoint"),
    MsgList(7, "IfNotRecoverValidatorDynamicInfo", "NodeDynamicInfo"),
    MsgList(8, "IfRecoverValidatorDynamicInfo", "NodeDynamicInfo")>>
SizeVcBasis ==
  <<Varint(1, "ReplicaId"), Varint(1, "View"), Varint(1, "H"),
    MsgList(1, "Pset", "VcPq"), MsgList(1, "Qset", "VcPq"),
    MsgList(1, "Cset", "SignedCheckpoint"),
    MsgList(1, "IfNotRecoverValidatorDynamicInfo", "NodeDynamicInfo"),
    MsgList(1, "IfRecoverValidatorDynamicInfo", "NodeDynamicInfo")>>
\* Mutant: the two lists of validator infos change places.
UnmarshalVcBasisSwapped ==
  <<Varint(1, "ReplicaId"), Varint(2, "View"), Varint(3, "H"),
    MsgList(4, "Pset", "VcPq"), MsgList(5, "Qset", "VcPq"),
    MsgList(6, "Cset", "SignedCheckpoint"),
    MsgList(8, "IfNotRecoverValidatorDynamicInfo", "NodeDynamicInfo"),
    MsgList(7, "IfRecoverValidatorDynamicInfo", "NodeDynamicInfo")>>

UnmarshalVcBasis ==
  <<Varint(1, "ReplicaId"), Varint(2, "View"), Varint(3, "H"),
    MsgList(4, "Pset", "VcPq"), MsgList(5, "Qset", "VcPq"),
    MsgList(6, "Cset", "SignedCheckpoint"),
    MsgList(7, "IfNotRecoverValidatorDynamicInfo", "NodeDynamicInfo"),
    MsgList(8, "IfRecoverValidatorDynamicInfo", "NodeDynamicInfo")>>

\* Mutant: the Q lists are not compared.
EqualVcBasisShort ==
  {"ReplicaId", "View", "H", "Pset", "Cset",
    "IfNotRecoverValidatorDynamicInfo", "IfRecoverValidatorDynamicInfo",
    "unknownFields"}

EqualVcBasis ==
  {"ReplicaId", "View", "H", "Pset", "Qset", "Cset",
    "IfNotRecoverValidatorDynamicInfo", "IfRecoverValidatorDynamicInfo",
    "unknownFields"}
CloneVcBasis ==
  {"ReplicaId", "View", "H", "Pset", "Qset", "Cset",
    "IfNotRecoverValidatorDynamicInfo", "IfRecoverValidatorDynamicInfo",
    "unknownFields"}

(* VcPq *)
MarshalVcPq ==
  <<Varint(1, "SequenceNumber"), Bytes(2, "BatchDigest"), Varint(3, "View")>>
SizeVcPq ==
  <<Varint(1, "SequenceNumber"), Bytes(1, "BatchDigest"), Varint(1, "View")>>
UnmarshalVcPq ==
  <<Varint(1, "SequenceNumber"), Bytes(2, "BatchDigest"), Varint(3, "View")>>
EqualVcPq == {"SequenceNumber", "BatchDigest", "View", "unknownFields"}
CloneVcPq == {"SequenceNumber", "BatchDigest", "View", "unknownFields"}

(* QuorumViewChange *)
MarshalQuorumViewChange ==
  <<Varint(1, "ReplicaId"), MsgList(2, "ViewChanges", "ViewChange")>>
SizeQuorumViewChange ==
  <<Varint(1, "ReplicaId"), MsgList(1, "ViewChanges", "ViewChange")>>
UnmarshalQuorumViewChange ==
  <<Varint(1, "ReplicaId"), MsgList(2, "ViewChanges", "ViewChange")>>

(* NodeDynamicInfo *)
MarshalNodeDynamicInfo ==
  <<Varint(1, "Id"), Varint(2, "ConsensusVotingPower"),
    Bool(3, "ConsensusVotingPowerReduced"),
    Varint(4, "ConsensusVotingPowerReduceView")>>
SizeNodeDynamicInfo ==
  <<Varint(1, "Id"), Varint(1, "ConsensusVotingPower"),
    Bool(1, "ConsensusVotingPowerReduced"),
    Varint(1, "ConsensusVotingPowerReduceView")>>
UnmarshalNodeDynamicInfo ==
  <<Varint(1, "Id"), Varint(2, "ConsensusVotingPower"),
    Bool(3, "ConsensusVotingPowerReduced"),
    Varint(4, "ConsensusVotingPowerReduceView")>>
EqualNodeDynamicInfo ==
  {"Id", "ConsensusVotingPower", "ConsensusVotingPowerReduced",
    "ConsensusVotingPowerReduceView", "unknownFields"}
CloneNodeDynamicInfo ==
  {"Id", "ConsensusVotingPower", "ConsensusVotingPowerReduced",
    "ConsensusVotingPowerReduceView", "unknownFields"}

(* NewView *)
MarshalNewView ==
  <<Varint(1, "ReplicaId"), Varint(2, "View"), MsgList(3, "Xset", "VcPq"),
    Msg(4, "ViewChangeSet", "QuorumViewChange"),
    Msg(5, "QuorumCheckpoint", "QuorumCheckpoint"), Bytes(6, "Signature"),
    Varint(7, "FromId"), Bool(8, "AutoTermUpdate"),
    MsgList(9, "ValidatorDynamicInfo", "NodeDynamicInfo")>>
\* Mutant: a field added to the message is not counted.
SizeNewViewShort ==
  <<Varint(1, "ReplicaId"), Varint(1, "View"), MsgList(1, "Xset", "VcPq"),
    Msg(1, "ViewChangeSet", "QuorumViewChange"),
    Msg(1, "QuorumCheckpoint", "QuorumCheckpoint"), Bytes(1, "Signature"),
    Bool(1, "AutoTermUpdate"),
    MsgList(1, "ValidatorDynamicInfo", "NodeDynamicInfo")>>

SizeNewView ==
  <<Varint(1, "ReplicaId"), Varint(1, "View"), MsgList(1, "Xset", "VcPq"),
    Msg(1, "ViewChangeSet", "QuorumViewChange"),
    Msg(1, "QuorumCheckpoint", "QuorumCheckpoint"), Bytes(1, "Signature"),
    Varint(1, "FromId"), Bool(1, "AutoTermUpdate"),
    MsgList(1, "ValidatorDynamicInfo", "NodeDynamicInfo")>>

UnmarshalNewView ==
  <<Varint(1, "ReplicaId"), Varint(2, "View"), MsgList(3, "Xset", "VcPq"),
    Msg(4, "ViewChangeSet", "QuorumViewChange"),
    Msg(5, "QuorumCheckpoint", "QuorumCheckpoint"), Bytes(6, "Signature"),
    Varint(7, "FromId"), Bool(8, "AutoTermUpdate"),
    MsgList(9, "ValidatorDynamicInfo", "NodeDynamicInfo")>>

(* FetchView *)
MarshalFetchView == <<Varint(1, "ReplicaId"), Varint(2, "View")>>
SizeFetchView == <<Varint(1, "ReplicaId"), Varint(1, "View")>>
UnmarshalFetchView == <<Varint(1, "ReplicaId"), Varint(2, "View")>>

(* RecoveryResponse *)
MarshalRecoveryResponse ==
  <<Msg(1, "NewView", "NewView"),
    Msg(2, "InitialCheckpoint", "SignedCheckpoint"),
    Bytes(3, "GenesisBlockDigest")>>
SizeRecoveryResponse ==
  <<Msg(1, "NewView", "NewView"),
    Msg(1, "InitialCheckpoint", "SignedCheckpoint"),
    Bytes(1, "GenesisBlockDigest")>>
UnmarshalRecoveryResponse ==
  <<Msg(1, "NewView", "NewView"),
    Msg(2, "InitialCheckpoint", "SignedCheckpoint"),
    Bytes(3, "GenesisBlockDigest")>>

(* FetchBatchRequest *)
MarshalFetchBatchRequest == <<Varint(1, "ReplicaId"), Bytes(2, "BatchDigest")>>
SizeFetchBatchRequest == <<Varint(1, "ReplicaId"), Bytes(1, "BatchDigest")>>
UnmarshalFetchBatchRequest ==
  <<Varint(1, "ReplicaId"), Bytes(2, "BatchDigest")>>

(* FetchBatchResponse *)
MarshalFetchBatchResponse ==
  <<Varint(1, "ReplicaId"), Msg(2, "Batch", "RequestBatch"),
    Bytes(3, "BatchDigest")>>
SizeFetchBatchResponse ==
  <<Varint(1, "ReplicaId"), Msg(1, "Batch", "RequestBatch"),
    Bytes(1, "BatchDigest")>>
UnmarshalFetchBatchResponse ==
  <<Varint(1, "ReplicaId"), Msg(2, "Batch", "RequestBatch"),
    Bytes(3, "BatchDigest")>>

(* RequestBatch *)
MarshalRequestBatch ==
  <<BytesList(1, "RequestHashList"), BytesList(2, "RequestList"),
    Varint(3, "Timestamp"), Varint(4, "SeqNo"), BoolList(5, "LocalList"),
    Bytes(6, "BatchHash"), Varint(7, "Proposer")>>
SizeRequestBatch ==
  <<BytesList(1, "RequestHashList"), BytesList(1, "RequestList"),
    Varint(1, "Timestamp"), Varint(1, "SeqNo"), BoolList(1, "LocalList"),
    Bytes(1, "BatchHash"), Varint(1, "Proposer")>>
UnmarshalRequestBatch ==
  <<BytesList(1, "RequestHashList"), BytesList(2, "RequestList"),
    Varint(3, "Timestamp"), Varint(4, "SeqNo"), BoolList(5, "LocalList"),
    Bytes(6, "BatchHash"), Varint(7, "Proposer")>>

(* FetchMissingRequest *)
MarshalFetchMissingRequest ==
  <<Varint(1, "ReplicaId"), Varint(2, "View"), Varint(3, "SequenceNumber"),
    Bytes(4, "BatchDigest"), BytesMap(5, "MissingRequestHashes")>>
SizeFetchMissingRequest ==
  <<Varint(1, "ReplicaId"), Varint(1, "View"), Varint(1, "SequenceNumber"),
    Bytes(1, "BatchDigest"), BytesMap(1, "MissingRequestHashes")>>
UnmarshalFetchMissingRequest ==
  <<Varint(1, "ReplicaId"), Varint(2, "View"), Varint(3, "SequenceNumber"),
    Bytes(4, "BatchDigest"), BytesMap(5, "MissingRequestHashes")>>

(* FetchMissingResponse *)
MarshalFetchMissingResponse ==
  <<Varint(1, "ReplicaId"), Varint(2, "View"), Varint(3, "SequenceNumber"),
    Bytes(4, "BatchDigest"), BytesMap(5, "MissingRequestHashes"),
    BytesMap(6, "MissingRequests"), Varint(7, "Status")>>
SizeFetchMissingResponse ==
  <<Varint(1, "ReplicaId"), Varint(1, "View"), Varint(1, "SequenceNumber"),
    Bytes(1, "BatchDigest"), BytesMap(1, "MissingRequestHashes"),
    BytesMap(1, "MissingRequests"), Varint(1, "Status")>>
UnmarshalFetchMissingResponse ==
  <<Varint(1, "ReplicaId"), Varint(2, "View"), Varint(3, "SequenceNumber"),
    Bytes(4, "BatchDigest"), BytesMap(5, "MissingRequestHashes"),
    BytesMap(6, "MissingRequests"), Varint(7, "Status")>>

(* FetchPQCRequest *)
MarshalFetchPQCRequest == <<Varint(1, "ReplicaId"), Varint(2, "H")>>
SizeFetchPQCRequest == <<Varint(1, "ReplicaId"), Varint(1, "H")>>
UnmarshalFetchPQCRequest == <<Varint(1, "ReplicaId"), Varint(2, "H")>>

(* FetchPQCResponse *)
MarshalFetchPQCResponse ==
  <<Varint(1, "ReplicaId"), MsgList(2, "PrepreSet", "PrePrepare"),
    MsgList(3, "PreSet", "Prepare"), MsgList(4, "CmtSet", "Commit")>>
SizeFetchPQCResponse ==
  <<Varint(1, "ReplicaId"), MsgList(1, "PrepreSet", "PrePrepare"),
    MsgList(1, "PreSet", "Prepare"), MsgList(1, "CmtSet", "Commit")>>
UnmarshalFetchPQCResponse ==
  <<Varint(1, "ReplicaId"), MsgList(2, "PrepreSet", "PrePrepare"),
    MsgList(3, "PreSet", "Prepare"), MsgList(4, "CmtSet", "Commit")>>

(* SyncState *)
MarshalSyncState == <<Bytes(1, "AuthorP2PNodeId")>>
SizeSyncState == <<Bytes(1, "AuthorP2PNodeId")>>
UnmarshalSyncState == <<Bytes(1, "AuthorP2PNodeId")>>

(* SyncStateResponse *)
MarshalSyncStateResponse ==
  <<Varint(1, "ReplicaId"), Varint(2, "View"),
    Msg(3, "SignedCheckpoint", "SignedCheckpoint")>>
SizeSyncStateResponse ==
  <<Varint(1, "ReplicaId"), Varint(1, "View"),
    Msg(1, "SignedCheckpoint", "SignedCheckpoint")>>
UnmarshalSyncStateResponse ==
  <<Varint(1, "ReplicaId"), Varint(2, "View"),
    Msg(3, "SignedCheckpoint", "SignedCheckpoint")>>

(* EpochChangeRequest *)
MarshalEpochChangeRequest ==
  <<Varint(1, "Author"), Varint(2, "StartEpoch"), Varint(3, "TargetEpoch"),
    Bytes(4, "AuthorP2PNodeId")>>
SizeEpochChangeRequest ==
  <<Varint(1, "Author"), Varint(1, "StartEpoch"), Varint(1, "TargetEpoch"),
    Bytes(1, "AuthorP2PNodeId")>>
UnmarshalEpochChangeRequest ==
  <<Varint(1, "Author"), Varint(2, "StartEpoch"), Varint(3, "TargetEpoch"),
    Bytes(4, "AuthorP2PNodeId")>>

(* Pset *)
MarshalPset == <<MsgList(1, "Set", "Prepare")>>
SizePset == <<MsgList(1, "Set", "Prepare")>>
UnmarshalPset == <<MsgList(1, "Set", "Prepare")>>

(* Cset *)
MarshalCset == <<MsgList(1, "Set", "Commit")>>
SizeCset == <<MsgList(1, "Set", "Commit")>>
UnmarshalCset == <<MsgList(1, "Set", "Commit")>>

(* Checkpoint_ExecuteState *)
MarshalCheckpoint_ExecuteState ==
  <<Varint(1, "Height"), Bytes(2, "Digest"), Bytes(3, "BatchDigest")>>
SizeCheckpoint_ExecuteState ==
  <<Varint(1, "Height"), Bytes(1, "Digest"), Bytes(1, "BatchDigest")>>
UnmarshalCheckpoint_ExecuteState ==
  <<Varint(1, "Height"), Bytes(2, "Digest"), Bytes(3, "BatchDigest")>>
EqualCheckpoint_ExecuteState ==
  {"Height", "Digest", "BatchDigest", "unknownFields"}
CloneCheckpoint_ExecuteState ==
  {"Height", "Digest", "BatchDigest", "unknownFields"}

(* Checkpoint *)
MarshalCheckpoint ==
  <<Varint(1, "Epoch"), Msg(2, "ExecuteState", "Checkpoint_ExecuteState"),
    Bool(3, "NeedUpdateEpoch"), Msg(4, "ViewChange", "ViewChange")>>
SizeCheckpoint ==
  <<Varint(1, "Epoch"), Msg(1, "ExecuteState", "Checkpoint_ExecuteState"),
    Bool(1, "NeedUpdateEpoch"), Msg(1, "ViewChange", "ViewChange")>>
UnmarshalCheckpoint ==
  <<Varint(1, "Epoch"), Msg(2, "ExecuteState", "Checkpoint_ExecuteState"),
    Bool(3, "NeedUpdateEpoch"), Msg(4, "ViewChange", "ViewChange")>>
EqualCheckpoint ==
  {"Epoch", "ExecuteState", "NeedUpdateEpoch", "ViewChange", "unknownFields"}
CloneCheckpoint ==
  {"Epoch", "ExecuteState", "NeedUpdateEpoch", "ViewChange", "unknownFields"}

(* SignedCheckpoint *)
MarshalSignedCheckpoint ==
  <<Msg(1, "Checkpoint", "Checkpoint"), Varint(2, "Author"),
    Bytes(3, "Signature")>>
SizeSignedCheckpoint ==
  <<Msg(1, "Checkpoint", "Checkpoint"), Varint(1, "Author"),
    Bytes(1, "Signature")>>
UnmarshalSignedCheckpoint ==
  <<Msg(1, "Checkpoint", "Checkpoint"), Varint(2, "Author"),
    Bytes(3, "Signature")>>
EqualSignedCheckpoint == {"Checkpoint", "Author", "Signature", "unknownFields"}
CloneSignedCheckpoint == {"Checkpoint", "Author", "Signature", "unknownFields"}

(* ValidatorInfo *)
MarshalValidatorInfo == <<Varint(1, "Id"), Bytes(2, "P2PId")>>
SizeValidatorInfo == <<Varint(1, "Id"), Bytes(1, "P2PId")>>
UnmarshalValidatorInfo == <<Varint(1, "Id"), Bytes(2, "P2PId")>>

(* QuorumCheckpoint *)
MarshalQuorumCheckpoint ==
  <<Msg(1, "Checkpoint", "Checkpoint"), BytesMap(2, "Signatures"),
    MsgMap(3, "ValidatorSet", "ValidatorInfo")>>
SizeQuorumCheckpoint ==
  <<Msg(1, "Checkpoint", "Checkpoint"), BytesMap(1, "Signatures"),
    MsgMap(1, "ValidatorSet", "ValidatorInfo")>>
UnmarshalQuorumCheckpoint ==
  <<Msg(1, "Checkpoint", "Checkpoint"), BytesMap(2, "Signatures"),
    MsgMap(3, "ValidatorSet", "ValidatorInfo")>>

(* EpochChangeProof *)
MarshalEpochChangeProof ==
  <<MsgList(1, "EpochChanges", "EpochChange"), Varint(2, "More"),
    Varint(3, "Author"), Bytes(4, "GenesisBlockDigest")>>
SizeEpochChangeProof ==
  <<MsgList(1, "EpochChanges", "EpochChange"), Varint(1, "More"),
    Varint(1, "Author"), Bytes(1, "GenesisBlockDigest")>>
UnmarshalEpochChangeProof ==
  <<MsgList(1, "EpochChanges", "EpochChange"), Varint(2, "More"),
    Varint(3, "Author"), Bytes(4, "GenesisBlockDigest")>>

(* EpochChange *)
MarshalEpochChange ==
  <<Msg(1, "Checkpoint", "QuorumCheckpoint"),
    Msg(2, "Validators", "QuorumValidators"), Varint(3, "LowWatermark")>>
SizeEpochChange ==
  <<Msg(1, "Checkpoint", "QuorumCheckpoint"),
    Msg(1, "Validators", "QuorumValidators"), Varint(1, "LowWatermark")>>
UnmarshalEpochChange ==
  <<Msg(1, "Checkpoint", "QuorumCheckpoint"),
    Msg(2, "Validators", "QuorumValidators"), Varint(3, "LowWatermark")>>

(* QuorumValidators *)
MarshalQuorumValidators == <<MsgList(1, "Validators", "QuorumValidator")>>
SizeQuorumValidators == <<MsgList(1, "Validators", "QuorumValidator")>>
UnmarshalQuorumValidators == <<MsgList(1, "Validators", "QuorumValidator")>>

(* QuorumValidator *)
MarshalQuorumValidator == <<Varint(1, "Id"), Bytes(2, "PeerId")>>
SizeQuorumValidator == <<Varint(1, "Id"), Bytes(1, "PeerId")>>
UnmarshalQuorumValidator == <<Varint(1, "Id"), Bytes(2, "PeerId")>>

-----------------------------------------------------------------------------
(* The functions by the name of their message. *)

MarshalOf ==
  [ConsensusMessage |-> MarshalConsensusMessage,
    NullRequest |-> MarshalNullRequest, PrePrepare |-> MarshalPrePrepare,
    Prepare |-> MarshalPrepare, Commit |-> MarshalCommit,
    ReBroadcastRequestSet |-> MarshalReBroadcastRequestSet,
    HashBatch |-> MarshalHashBatch, FetchCheckpoint |-> MarshalFetchCheckpoint,
    ViewChange |-> MarshalViewChange,
    ValidatorDynamicInfo |-> MarshalValidatorDynamicInfo,
    VcBasis |-> MarshalVcBasis, VcPq |-> MarshalVcPq,
    QuorumViewChange |-> MarshalQuorumViewChange,
    NodeDynamicInfo |-> MarshalNodeDynamicInfo, NewView |-> MarshalNewView,
    FetchView |-> MarshalFetchView,
    RecoveryResponse |-> MarshalRecoveryResponse,
    FetchBatchRequest |-> MarshalFetchBatchRequest,
    FetchBatchResponse |-> MarshalFetchBatchResponse,
    RequestBatch |-> MarshalRequestBatch,
    FetchMissingRequest |-> MarshalFetchMissingRequest,
    FetchMissingResponse |-> MarshalFetchMissingResponse,
    FetchPQCRequest |-> MarshalFetchPQCRequest,
    FetchPQCResponse |-> MarshalFetchPQCResponse,
    SyncState |-> MarshalSyncState,
    SyncStateResponse |-> MarshalSyncStateResponse,
    EpochChangeRequest |-> MarshalEpochChangeRequest, Pset |-> MarshalPset,
    Cset |-> MarshalCset,
    Checkpoint_ExecuteState |-> MarshalCheckpoint_ExecuteState,
    Checkpoint |-> MarshalCheckpoint,
    SignedCheckpoint |-> MarshalSignedCheckpoint,
    ValidatorInfo |-> MarshalValidatorInfo,
    QuorumCheckpoint |-> MarshalQuorumCheckpoint,
    EpochChangeProof |-> MarshalEpochChangeProof,
    EpochChange |-> MarshalEpochChange,
    QuorumValidators |-> MarshalQuorumValidators,
    QuorumValidator |-> MarshalQuorumValidator]

SizeOf ==
  [ConsensusMessage |-> SizeConsensusMessage, NullRequest |-> SizeNullRequest,
    PrePrepare |-> SizePrePrepare, Prepare |-> SizePrepare,
    Commit |-> SizeCommit, ReBroadcastRequestSet |-> SizeReBroadcastRequestSet,
    HashBatch |-> SizeHashBatch, FetchCheckpoint |-> SizeFetchCheckpoint,
    ViewChange |-> SizeViewChange,
    ValidatorDynamicInfo |-> SizeValidatorDynamicInfo, VcBasis |-> SizeVcBasis,
    VcPq |-> SizeVcPq, QuorumViewChange |-> SizeQuorumViewChange,
    NodeDynamicInfo |-> SizeNodeDynamicInfo, NewView |-> SizeNewView,
    FetchView |-> SizeFetchView, RecoveryResponse |-> SizeRecoveryResponse,
    FetchBatchRequest |-> SizeFetchBatchRequest,
    FetchBatchResponse |-> SizeFetchBatchResponse,
    RequestBatch |-> SizeRequestBatch,
    FetchMissingRequest |-> SizeFetchMissingRequest,
    FetchMissingResponse |-> SizeFetchMissingResponse,
    FetchPQCRequest |-> SizeFetchPQCRequest,
    FetchPQCResponse |-> SizeFetchPQCResponse, SyncState |-> SizeSyncState,
    SyncStateResponse |-> SizeSyncStateResponse,
    EpochChangeRequest |-> SizeEpochChangeRequest, Pset |-> SizePset,
    Cset |-> SizeCset, Checkpoint_ExecuteState |-> SizeCheckpoint_ExecuteState,
    Checkpoint |-> SizeCheckpoint, SignedCheckpoint |-> SizeSignedCheckpoint,
    ValidatorInfo |-> SizeValidatorInfo,
    QuorumCheckpoint |-> SizeQuorumCheckpoint,
    EpochChangeProof |-> SizeEpochChangeProof, EpochChange |-> SizeEpochChange,
    QuorumValidators |-> SizeQuorumValidators,
    QuorumValidator |-> SizeQuorumValidator]

UnmarshalOf ==
  [ConsensusMessage |-> UnmarshalConsensusMessage,
    NullRequest |-> UnmarshalNullRequest, PrePrepare |-> UnmarshalPrePrepare,
    Prepare |-> UnmarshalPrepare, Commit |-> UnmarshalCommit,
    ReBroadcastRequestSet |-> UnmarshalReBroadcastRequestSet,
    HashBatch |-> UnmarshalHashBatch,
    FetchCheckpoint |-> UnmarshalFetchCheckpoint,
    ViewChange |-> UnmarshalViewChange,
    ValidatorDynamicInfo |-> UnmarshalValidatorDynamicInfo,
    VcBasis |-> UnmarshalVcBasis, VcPq |-> UnmarshalVcPq,
    QuorumViewChange |-> UnmarshalQuorumViewChange,
    NodeDynamicInfo |-> UnmarshalNodeDynamicInfo, NewView |-> UnmarshalNewView,
    FetchView |-> UnmarshalFetchView,
    RecoveryResponse |-> UnmarshalRecoveryResponse,
    FetchBatchRequest |-> UnmarshalFetchBatchRequest,
    FetchBatchResponse |-> UnmarshalFetchBatchResponse,
    RequestBatch |-> UnmarshalRequestBatch,
    FetchMissingRequest |-> UnmarshalFetchMissingRequest,
    FetchMissingResponse |-> UnmarshalFetchMissingResponse,
    FetchPQCRequest |-> UnmarshalFetchPQCRequest,
    FetchPQCResponse |-> UnmarshalFetchPQCResponse,
    SyncState |-> UnmarshalSyncState,
    SyncStateResponse |-> UnmarshalSyncStateResponse,
    EpochChangeRequest |-> UnmarshalEpochChangeRequest, Pset |-> UnmarshalPset,
    Cset |-> UnmarshalCset,
    Checkpoint_ExecuteState |-> UnmarshalCheckpoint_ExecuteState,
    Checkpoint |-> UnmarshalCheckpoint,
    SignedCheckpoint |-> UnmarshalSignedCheckpoint,
    ValidatorInfo |-> UnmarshalValidatorInfo,
    QuorumCheckpoint |-> UnmarshalQuorumCheckpoint,
    EpochChangeProof |-> UnmarshalEpochChangeProof,
    EpochChange |-> UnmarshalEpochChange,
    QuorumValidators |-> UnmarshalQuorumValidators,
    QuorumValidator |-> UnmarshalQuorumValidator]

\* The messages that are compared (recvViewChange, ValidatorDynamicInfoEqual).
EqualOf ==
  [ViewChange |-> EqualViewChange, VcBasis |-> EqualVcBasis,
    VcPq |-> EqualVcPq, NodeDynamicInfo |-> EqualNodeDynamicInfo,
    Checkpoint_ExecuteState |-> EqualCheckpoint_ExecuteState,
    Checkpoint |-> EqualCheckpoint, SignedCheckpoint |-> EqualSignedCheckpoint]

\* The messages that are copied (persistPSet, persistCSet, the proof of a
\* checkpoint in helper.go).
CloneOf ==
  [Prepare |-> ClonePrepare, Commit |-> CloneCommit,
    ViewChange |-> CloneViewChange, VcBasis |-> CloneVcBasis,
    VcPq |-> CloneVcPq, NodeDynamicInfo |-> CloneNodeDynamicInfo,
    Checkpoint_ExecuteState |-> CloneCheckpoint_ExecuteState,
    Checkpoint |-> CloneCheckpoint, SignedCheckpoint |-> CloneSignedCheckpoint]

MessageType == DOMAIN MarshalOf
=============================================================================
