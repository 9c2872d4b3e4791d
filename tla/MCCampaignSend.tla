--------------------------- MODULE MCCampaignSend ---------------------------
(***************************************************************************)
(* Instances of CampaignSend for TLC.                                      *)
(***************************************************************************)
EXTENDS CampaignSend, TLC

\* Callers, worker slots and contacts are interchangeable (safety runs only).
Symmetry == Permutations(Contacts) \cup Permutations(Enqueuers) \cup Permutations(Workers)

\* CampaignMessage as declared in prisma/schema.prisma:276-318.
SchemaColumns == {"id", "ownerId", "campaignId", "contactId", "to", "text", "trackingId",
                  "status", "providerMessageId", "bulkId", "error", "retryCount",
                  "createdAt", "sentAt", "failedAt"}

\* The table the worker is written for.
ExpectedColumns == SchemaColumns \cup {"updatedAt"}
=============================================================================
