------------------------ MODULE MCNotificationOutbox ------------------------
(***************************************************************************)
(* A scope says how many processes deliver and how many notifications are  *)
(* enqueued: several processes race for one row, or one process works on   *)
(* several.  Keys are numbers and are inserted in that order: which key is *)
(* inserted first does not matter to the rest.                             *)
(***************************************************************************)
EXTENDS NotificationOutbox

CONSTANTS p1, p2

Scopes == {[procs |-> {p1, p2}, rows |-> 1], [procs |-> {p1}, rows |-> 2]}

VARIABLE scope

mcVars == <<outboxVars, scope>>

MCInit == OutboxInit /\ scope \in Scopes

Within ==
    /\ \A i \in DOMAIN outbox : outbox[i] = i /\ i =< scope.rows
    /\ \A w \in Workers \ scope.procs : worker[w].pc = "idle"

MCNext == OutboxNext /\ UNCHANGED scope /\ Within'

MCSpec == MCInit /\ [][MCNext]_mcVars

=============================================================================
