---------------------------- MODULE PushLedger ----------------------------
(* What the post-job flow promises of one job's push to folio-insights, with  *)
(* the statuses, locks, revisions and saves left out: one sender at most, no  *)
(* call that is not on record first, no record of success without ingestion,  *)
(* success for good, and no sender that outlives its process.                 *)
VARIABLES record,    \* "idle", "pending", "failed" or "pushed"
          sender,    \* "none", "scheduled", "calling", or "ingested": calling,
                     \* and insights has taken the record
          ingested   \* insights holds the job's record

ledger == <<record, sender, ingested>>

LedgerTypeOK == /\ record \in {"idle", "pending", "failed", "pushed"}
                /\ sender \in {"none", "scheduled", "calling", "ingested"}
                /\ ingested \in BOOLEAN

LedgerInit == record = "idle" /\ sender = "none" /\ ingested = FALSE

\* A push is decided on: recorded, and given a sender.
Decide == /\ record # "pushed" /\ sender = "none"
          /\ record' = "pending" /\ sender' = "scheduled"
          /\ UNCHANGED ingested

\* The record of a decision whose save raised is saved later, without a sender.
DecideLate == /\ record \in {"idle", "failed"} /\ sender = "none"
              /\ record' = "pending"
              /\ UNCHANGED <<sender, ingested>>

Call == /\ sender = "scheduled" /\ record = "pending"
        /\ sender' = "calling"
        /\ UNCHANGED <<record, ingested>>

\* The sender gives up before it calls: a review was asked for, a save raised.
GiveUp == /\ sender = "scheduled"
          /\ sender' = "none"
          /\ UNCHANGED <<record, ingested>>

Retry == /\ record \in {"pending", "failed"} /\ sender = "none"
         /\ record' = "pending" /\ sender' = "calling"
         /\ UNCHANGED ingested

Ingest == /\ sender = "calling"
          /\ sender' = "ingested" /\ ingested' = TRUE
          /\ UNCHANGED record

\* The call ends; its result may go unrecorded.
Settle == /\ sender \in {"calling", "ingested"}
          /\ sender' = "none"
          /\ record' \in {"pending", "failed"}
                          \cup (IF sender = "ingested" THEN {"pushed"} ELSE {})
          /\ UNCHANGED ingested

\* A pending record without a sender is reported failed; a new request for the
\* push forgets a failure.
Report == /\ record = "pending" /\ sender = "none"
          /\ record' = "failed"
          /\ UNCHANGED <<sender, ingested>>

Forget == /\ record \in {"pending", "failed"} /\ sender = "none"
          /\ record' = "idle"
          /\ UNCHANGED <<sender, ingested>>

\* The process dies; what it sent may still arrive.
Die == /\ sender' = "none"
       /\ \/ UNCHANGED ingested
          \/ sender = "calling" /\ ingested' = TRUE
       /\ UNCHANGED record

LedgerNext == \/ Decide \/ DecideLate \/ Call \/ GiveUp \/ Retry \/ Ingest
              \/ Settle \/ Report \/ Forget \/ Die

LedgerSpec == LedgerInit /\ [][LedgerNext]_ledger

(* Success is only recorded of an ingested record, and a sender has its push   *)
(* on record.                                                                  *)
LedgerInv == /\ record = "pushed" => ingested
             /\ sender # "none" => record = "pending"
             /\ sender = "ingested" => ingested
=============================================================================
