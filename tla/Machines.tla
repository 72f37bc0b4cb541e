------------------------------ MODULE Machines ------------------------------
(***************************************************************************)
(* The named lifecycle commands of packages/domain/src, as data: for each  *)
(* aggregate, each command's expected states and next state.  Each domain  *)
(* function is applyTransition(aggregate, command, state, expected, next). *)
(***************************************************************************)

From(expected, next) == [expected |-> expected, next |-> next]

VerificationCommands ==
  [scheduleRequest                |-> From({"requested"}, "scheduled"),
   checkInParticipant             |-> From({"scheduled"}, "checked_in"),
   beginReview                    |-> From({"checked_in"}, "under_review"),
   approveVerification            |-> From({"under_review"}, "approved"),
   rejectVerification             |-> From({"under_review"}, "rejected"),
   requestMoreInformation         |-> From({"under_review"}, "needs_more_information"),
   withdrawVerification           |-> From({"under_review"}, "withdrawn"),
   rescheduleAfterMoreInformation |-> From({"needs_more_information"}, "scheduled"),
   rejectAfterMoreInformation     |-> From({"needs_more_information"}, "rejected"),
   withdrawAfterMoreInformation   |-> From({"needs_more_information"}, "withdrawn"),
   requestIssuance                |-> From({"approved"}, "issuance_pending"),
   recordIssuance                 |-> From({"issuance_pending"}, "issued"),
   openAppeal                     |-> From({"rejected"}, "appealed"),
   upholdAppeal                   |-> From({"appealed"}, "appeal_upheld"),
   denyAppeal                     |-> From({"appealed"}, "appeal_denied"),
   remandAppeal                   |-> From({"appealed"}, "appeal_remanded")]

\* The commands of the attestation repository move the request as well.
AttestationCommands ==
  [activateAttestation  |-> From({"issued"}, "active"),
   expireAttestation    |-> From({"active"}, "expired"),
   revokeAttestation    |-> From({"active"}, "revoked"),
   supersedeAttestation |-> From({"active"}, "superseded")]

CommitteeCommands ==
  [beginCommitteeFormation    |-> From({"proposed"}, "forming"),
   beginCommitteePolicyReview |-> From({"forming"}, "policy_review"),
   beginTestnetProvisioning   |-> From({"policy_review"}, "testnet_provisioning"),
   markCommitteeTestnetReady  |-> From({"testnet_provisioning"}, "testnet_ready"),
   beginCommitteePilotReview  |-> From({"testnet_ready"}, "pilot_review"),
   approveCommitteePilot      |-> From({"pilot_review"}, "pilot_approved"),
   activateCommittee          |-> From({"pilot_approved"}, "active"),
   suspendCommittee           |-> From({"pilot_approved"}, "suspended"),
   retireCommittee            |-> From({"pilot_approved"}, "retired"),
   reactivateCommittee        |-> From({"suspended"}, "active"),
   retireSuspendedCommittee   |-> From({"suspended"}, "retired")]

RenewalCommands ==
  [commitEligibleSnapshot  |-> From({"draft"}, "snapshot_committed"),
   requestRenewalSelection |-> From({"snapshot_committed"}, "selection_pending"),
   recordRenewalSelection  |-> From({"selection_pending"}, "selection_ready"),
   queueRenewalNotices     |-> From({"selection_ready"}, "notices_pending"),
   beginRenewalCycle       |-> From({"notices_pending"}, "in_progress"),
   beginRenewalReporting   |-> From({"in_progress"}, "reporting"),
   publishRenewalReport    |-> From({"reporting"}, "published"),
   cancelDraftRenewalCycle |-> From({"draft"}, "cancelled")]

WalletChallengeCommands ==
  [presentWalletChallenge |-> From({"created"}, "presented"),
   recordWalletResponse   |-> From({"presented"}, "response_received"),
   consumeWalletChallenge |-> From({"response_received"}, "consumed"),
   rejectWalletResponse   |-> From({"response_received"}, "rejected"),
   expireWalletChallenge  |-> From({"created", "presented"}, "expired")]

ConsentCommands ==
  [acknowledgeConsent |-> From({"pending"}, "acknowledged"),
   withdrawConsent    |-> From({"acknowledged"}, "withdrawn")]

AppealCommands ==
  [assignAppeal       |-> From({"opened"}, "assigned"),
   beginAppealReview  |-> From({"assigned"}, "under_review"),
   upholdAppealCase   |-> From({"under_review"}, "upheld"),
   denyAppealCase     |-> From({"under_review"}, "denied"),
   remandAppealCase   |-> From({"under_review"}, "remanded"),
   withdrawAppealCase |-> From({"opened", "assigned", "under_review"}, "withdrawn")]

PrivacyCommands ==
  [confirmPrivacyRequester |-> From({"requested"}, "identity_confirmed"),
   beginPrivacyRequest     |-> From({"identity_confirmed"}, "processing"),
   completePrivacyRequest  |-> From({"processing"}, "completed"),
   denyPrivacyRequest      |-> From({"processing"}, "denied"),
   withdrawPrivacyRequest  |->
     From({"requested", "identity_confirmed", "processing"}, "withdrawn")]

NotificationCommands ==
  [claimNotification                  |-> From({"pending"}, "claimed"),
   recordNotificationDelivery         |-> From({"claimed"}, "delivered"),
   recordRetryableNotificationFailure |-> From({"claimed"}, "retryable_failed"),
   retryNotification                  |-> From({"retryable_failed"}, "pending"),
   recordTerminalNotificationFailure  |-> From({"claimed"}, "terminal_failed"),
   deadLetterNotification             |-> From({"terminal_failed"}, "dead_letter"),
   cancelPendingNotification          |-> From({"pending"}, "cancelled")]

RelyingPartyCommands ==
  [beginClientSecurityReview  |-> From({"proposed"}, "security_review"),
   approveRelyingPartyClient  |-> From({"security_review"}, "approved"),
   activateRelyingPartyClient |-> From({"approved", "suspended"}, "active"),
   suspendRelyingPartyClient  |-> From({"active"}, "suspended"),
   revokeRelyingPartyClient   |-> From({"approved", "active", "suspended"}, "revoked")]

-----------------------------------------------------------------------------
(* The transition triggers of the database: states allowed after a state.  *)
(* A state that is not listed is final.  Only these three tables have such *)
(* a trigger; what the others refuse is up to their CHECK constraints.     *)

VerificationGuard ==
  [requested |-> {"scheduled"}, scheduled |-> {"checked_in"},
   checked_in |-> {"under_review"},
   under_review |-> {"approved", "rejected", "needs_more_information", "withdrawn"},
   needs_more_information |-> {"scheduled", "rejected", "withdrawn"},
   approved |-> {"issuance_pending"}, issuance_pending |-> {"issued"},
   issued |-> {"active"}, active |-> {"expired", "revoked", "superseded"},
   rejected |-> {"appealed"},
   appealed |-> {"appeal_upheld", "appeal_denied", "appeal_remanded"}]

CommitteeGuard ==
  [proposed |-> {"forming"}, forming |-> {"policy_review"},
   policy_review |-> {"testnet_provisioning"},
   testnet_provisioning |-> {"testnet_ready"},
   testnet_ready |-> {"pilot_review"}, pilot_review |-> {"pilot_approved"},
   pilot_approved |-> {"active", "suspended", "retired"},
   suspended |-> {"active", "retired"}]

AttestationGuard ==
  [issued |-> {"active"}, active |-> {"expired", "revoked", "superseded"}]

Allows(guard, from, to) == from \in DOMAIN guard /\ to \in guard[from]
=============================================================================
