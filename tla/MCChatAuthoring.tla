-------------------------- MODULE MCChatAuthoring --------------------------
(***************************************************************************)
(* Small instances of ChatAuthoring for TLC.                               *)
(***************************************************************************)
EXTENDS ChatAuthoring, TLC

CONSTANTS q1, q2, k1, k2

\* An hour for drafts, a minute for the rest.
LongDraftWindow == [k \in RateKeys |-> IF k = "drafts" THEN 2 ELSE 1]

\* The endpoints' window is shorter than the chat tool's.
ShortEndpointWindow == [k \in RateKeys |-> IF k = "endpoint" THEN 2 ELSE 3]

\* One run and two drafts, so that a draft slot may have to be given back.
OneRunTwoDrafts == ("drafts" :> 2) @@ ("runs" :> 1) @@ ("endpoint" :> 2)

\* One draft.
OneDraft == ("drafts" :> 1) @@ ("runs" :> 2) @@ ("endpoint" :> 2)

=============================================================================
