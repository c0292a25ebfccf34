------------------------- MODULE NotificationOutbox -------------------------
(***************************************************************************)
(* The provider-backed notification outbox (notification-outbox.ts), its    *)
(* worker, and the mail provider as ResendNotificationProvider              *)
(* (notification-providers.ts) uses it: a message is posted under an        *)
(* idempotency key, accepted, and later found delivered by polling.         *)
(* COMPLETED of OutboxRows stands for DELIVERED.                            *)
(***************************************************************************)
EXTENDS OutboxRows

CONSTANTS Notification,  \* idempotency keys
          Notifier,      \* worker processes
          MaxRetries     \* bound on an operator's retries of one dead letter

ASSUME NotificationAssumption ==
    /\ MaxRetries \in Nat
    /\ None \notin Notification \cup Notifier

VARIABLES
    outbox,    \* notification |-> row
    message,   \* notification |-> whether its row has a providerMessageId
    notifier,  \* worker |-> where processNotificationBatch is
    mail,      \* notification |-> what the provider did with it
    retried    \* notification |-> times an operator took it out of the dead letters

notifyVars == <<outbox, message, notifier, mail, retried>>

IdleNotifier == [pc |-> "idle", batch |-> {}, item |-> None]

NotifyInit ==
    /\ outbox = [n \in Notification |-> NoRow]
    /\ message = [n \in Notification |-> FALSE]
    /\ notifier = [w \in Notifier |-> IdleNotifier]
    /\ mail = [n \in Notification |-> [state |-> "none", keyKnown |-> FALSE, copies |-> 0]]
    /\ retried = [n \in Notification |-> 0]

\* A second request under the same key finds the row and changes nothing.
EnqueueNotification(n) ==
    /\ outbox[n].status = "ABSENT"
    /\ outbox' = [outbox EXCEPT ![n] = PendingRow]
    /\ UNCHANGED <<message, notifier, mail, retried>>

ClaimNotifications(w) ==
    /\ notifier[w].pc = "idle"
    /\ \E S \in Batches(outbox) :
          /\ S # {} \/ \E n \in Notification : Exhausted(outbox[n])
          /\ outbox' = AfterClaim(outbox, w, S)
          /\ notifier' = [notifier EXCEPT ![w] =
                IF S = {} THEN IdleNotifier ELSE [IdleNotifier EXCEPT !.pc = "next", !.batch = S]]
    /\ UNCHANGED <<message, mail, retried>>

NextNotification(w) ==
    /\ notifier[w].pc = "next"
    /\ IF notifier[w].batch = {} THEN notifier' = [notifier EXCEPT ![w] = IdleNotifier]
       ELSE \E n \in notifier[w].batch :
              notifier' = [notifier EXCEPT ![w].pc = IF message[n] THEN "poll" ELSE "post",
                                           ![w].batch = @ \ {n}, ![w].item = n]
    /\ UNCHANGED <<outbox, message, mail, retried>>

Outcome(w, pc) == notifier' = [notifier EXCEPT ![w].pc = pc]

\* Mutation: the provider is not given the idempotency key.
SentAnyway(m) == [state |-> "accepted", keyKnown |-> TRUE, copies |-> m.copies + 1]

\* The provider knows the key and answers as before, or sends the mail.
Sent(m) ==
    IF m.keyKnown THEN m
    ELSE [state |-> "accepted", keyKnown |-> TRUE, copies |-> m.copies + 1]

\* The recipient may be gone, the provider refuse, or its answer be lost.
Deliver(w) ==
    LET n == notifier[w].item
    IN  /\ notifier[w].pc = "post"
        /\ \/ mail' = [mail EXCEPT ![n] = Sent(@)] /\ Outcome(w, "accepted")
           \/ mail' \in {mail, [mail EXCEPT ![n] = Sent(@)]} /\ Outcome(w, "fail")
        /\ UNCHANGED <<outbox, message, retried>>

\* last_event of the receipt.
Receipt(m) == IF m.state = "delivered" THEN "delivered" ELSE "accepted"

Poll(w) ==
    /\ notifier[w].pc = "poll"
    /\ Outcome(w, Receipt(mail[notifier[w].item])) \/ Outcome(w, "fail")
    /\ UNCHANGED <<outbox, message, mail, retried>>

NextUp(w) == [notifier EXCEPT ![w] = [IdleNotifier EXCEPT !.pc = "next", !.batch = notifier[w].batch]]

\* markNotificationDelivered and markNotificationAccepted; losing the lease
\* throws into the handler that marks the attempt as failed.  An accepted row
\* stays PROCESSING without a token and is claimed again when its time comes.
MarkDelivered(w) ==
    LET n == notifier[w].item
    IN  /\ notifier[w].pc = "delivered"
        /\ IF Owned(outbox[n], w)
           THEN /\ outbox' = [outbox EXCEPT ![n] = Ended(@, "COMPLETED")]
                /\ message' = [message EXCEPT ![n] = TRUE]
                /\ notifier' = NextUp(w)
           ELSE Outcome(w, "fail") /\ UNCHANGED <<outbox, message>>
        /\ UNCHANGED <<mail, retried>>

MarkAccepted(w) ==
    LET n == notifier[w].item
    IN  /\ notifier[w].pc = "accepted"
        /\ IF Owned(outbox[n], w)
           THEN /\ outbox' = [outbox EXCEPT ![n].lease = None, ![n].ripe = FALSE]
                /\ message' = [message EXCEPT ![n] = TRUE]
                /\ notifier' = NextUp(w)
           ELSE Outcome(w, "fail") /\ UNCHANGED <<outbox, message>>
        /\ UNCHANGED <<mail, retried>>

\* Without the lease this throws as well and ends the batch.
MarkFailed(w) ==
    LET n == notifier[w].item
    IN  /\ notifier[w].pc = "fail"
        /\ IF Owned(outbox[n], w)
           THEN /\ outbox' = [outbox EXCEPT ![n] = Failed(@, FALSE)]
                /\ notifier' = NextUp(w)
           ELSE notifier' = [notifier EXCEPT ![w] = IdleNotifier] /\ UNCHANGED outbox
        /\ UNCHANGED <<message, mail, retried>>

NotifierStep(w) ==
    \/ NextNotification(w) \/ Deliver(w) \/ Poll(w)
    \/ MarkDelivered(w) \/ MarkAccepted(w) \/ MarkFailed(w)

NotifierCrash(w) ==
    /\ notifier[w].pc # "idle"
    /\ notifier' = [notifier EXCEPT ![w] = IdleNotifier]
    /\ UNCHANGED <<outbox, message, mail, retried>>

Retryable(row) == row.status = "DEAD_LETTER"

RetryDeadLetter(n) ==
    /\ Retryable(outbox[n])
    /\ retried[n] < MaxRetries
    /\ outbox' = [outbox EXCEPT ![n] = PendingRow]
    /\ message' = [message EXCEPT ![n] = FALSE]
    /\ retried' = [retried EXCEPT ![n] = @ + 1]
    /\ UNCHANGED <<notifier, mail>>

OutboxRipens(n) ==
    /\ Waiting(outbox[n])
    /\ outbox' = [outbox EXCEPT ![n] = Ripened(@)]
    /\ UNCHANGED <<message, notifier, mail, retried>>

\* The provider: a mail reaches its recipient, or never does; a key is kept
\* for a day, longer than the attempts of one lifecycle and a batch last.
ProviderDelivers(n) ==
    /\ mail[n].state = "accepted"
    /\ mail' = [mail EXCEPT ![n].state = "delivered"]
    /\ UNCHANGED <<outbox, message, notifier, retried>>

ProviderForgets(n) ==
    /\ mail[n].keyKnown
    /\ outbox[n].status \in Settled
    /\ \A w \in Notifier : n \notin notifier[w].batch \cup {notifier[w].item}
    /\ mail' = [mail EXCEPT ![n].keyKnown = FALSE]
    /\ UNCHANGED <<outbox, message, notifier, retried>>

NotifyNext ==
    \/ \E n \in Notification :
          \/ EnqueueNotification(n) \/ RetryDeadLetter(n) \/ OutboxRipens(n)
          \/ ProviderDelivers(n) \/ ProviderForgets(n)
    \/ \E w \in Notifier : ClaimNotifications(w) \/ NotifierStep(w) \/ NotifierCrash(w)

NotifySpec == NotifyInit /\ [][NotifyNext]_notifyVars

NotifiersGoOn == \E w \in Notifier : ClaimNotifications(w) \/ NotifierStep(w)
OutboxesRipen == \E n \in Notification : OutboxRipens(n)

-----------------------------------------------------------------------------
\* State keeps its shape.
NotifyTypeOK ==
    /\ outbox \in [Notification -> Row(Notifier)]
    /\ message \in [Notification -> BOOLEAN]
    /\ notifier \in [Notifier ->
          [pc : {"idle", "next", "post", "poll", "accepted", "delivered", "fail"},
           batch : SUBSET Notification, item : Notification \cup {None}]]
    /\ mail \in [Notification -> [state : {"none", "accepted", "delivered"},
                                  keyKnown : BOOLEAN, copies : 0..(MaxRetries + 1)]]
    /\ retried \in [Notification -> 0..MaxRetries]

\* Crashes, lost answers and expired leases never make a recipient get a mail
\* twice: only an operator's retry of a dead letter can.
CopiesCostARetry == \A n \in Notification : mail[n].copies <= 1 + retried[n]

\* Every notification is delivered or lies with the dead letters; so it ends when
\* operators have stopped to retry them.
NotificationsAreSettled ==
    \A n \in Notification : outbox[n].status \in Settled \cup {"ABSENT"}
=============================================================================
