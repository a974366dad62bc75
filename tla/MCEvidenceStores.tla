-------------------------- MODULE MCEvidenceStores --------------------------
(* Two actions, one of them of a version that kept JSON files; three of *)
(* the six stores, one of each way a record is found.                          *)
EXTENDS EvidenceStores

ThreeKinds == {"approval_records", "audit", "verifications"}
=============================================================================
