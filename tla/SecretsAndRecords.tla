-------------------------- MODULE SecretsAndRecords --------------------------
(* The stored secrets, of the integrations and of the mailboxes, and the        *)
(* records, of the improvement loop and of the vault's log: the steps of each   *)
(* pair, in any order.                                                          *)
EXTENDS IntegrationSecrets, MailboxSecrets, ImprovementLoop, PassAudit

SecretsSpec == ISSpec /\ MSSpec

(* A key or credential is never an older one than the answers said, and none    *)
(* is lost while the keychain stays.                                            *)
SecretsHold == ServedAsPromised /\ NeverAnOlderSecret /\ SavedSecretServed

RecordsSpec == LoopSpec /\ PASpec

(* The improvement loop's history is what its snapshot went through; the log of *)
(* the vault tells every answer, and a gap in it is a removal or a change of    *)
(* client.                                                                      *)
RecordsHold == LoopHolds /\ AuditHolds

==============================================================================
