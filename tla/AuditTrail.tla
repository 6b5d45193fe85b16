----------------------------- MODULE AuditTrail -----------------------------
(***************************************************************************)
(* What an auditor may expect of the log: events are settled in the order  *)
(* of publication, none is passed over, an event that is settled can be    *)
(* searched or is left for a later attempt, and what can be searched stays.*)
(***************************************************************************)
EXTENDS Naturals

VARIABLES
    published,      \* how many events there are
    settled,        \* the events 1 .. settled have been dealt with
    searchable      \* the events a search finds

trail == <<published, settled, searchable>>

Init == published = 0 /\ settled = 0 /\ searchable = {}

Publish == published' = published + 1 /\ UNCHANGED <<settled, searchable>>

SettleNext ==
    /\ settled < published
    /\ settled' = settled + 1
    /\ searchable' \in {searchable, searchable \cup {settled + 1}}
    /\ UNCHANGED published

\* An event dealt with before is indexed, once more or at last.
Reindex ==
    /\ \E o \in 1 .. settled : searchable' = searchable \cup {o}
    /\ UNCHANGED <<published, settled>>

Next == Publish \/ SettleNext \/ Reindex

Spec == Init /\ [][Next]_trail
=============================================================================
