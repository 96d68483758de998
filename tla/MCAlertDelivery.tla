--------------------------- MODULE MCAlertDelivery ---------------------------
(* Instances of AlertDelivery: scans are numbers, channels are ranked.       *)
EXTENDS AlertDelivery, TLC

CONSTANTS slack, email

MCRank == [d \in Deliveries |-> 2 * d[1] + (IF d[2] = slack THEN 0 ELSE 1)]

MCDelays == <<1, 2>>

AllConfigured == [w \in Workers |-> Channels]

\* The process that serves the retries was started without e-mail.
RetriesWithoutEmail ==
  [w \in Workers |-> IF w \in Scans THEN Channels ELSE {slack}]

Requests == Permutations(Retries)
=============================================================================
