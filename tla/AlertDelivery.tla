---------------------------- MODULE AlertDelivery ----------------------------
(***************************************************************************)
(* DeliveryRouter.deliver: one attempt per active endpoint of a            *)
(* subscriber, in order, and what each attempt may come back with.  A      *)
(* transport, and what the push services and the SMS gateway answer, is a  *)
(* nondeterministic choice among the outcomes its channel can report.      *)
(***************************************************************************)
EXTENDS AlertTypes, Sequences

CONSTANTS
    Channels,   \* kinds with a registered channel; {} when there is no router
    Endpoints   \* user -> sequence of the kinds of the active endpoints

ChannelKind == {"in_app", "websocket", "web_push", "fcm", "sms"}

DeliveryOutcome ==
    {"delivered", "unconfigured", "no_endpoint", "rejected",
     "expired_token", "error", "skipped_policy"}

ASSUME DeliveryAssumption ==
    /\ Channels \subseteq ChannelKind
    /\ Endpoints \in [User -> Seq(ChannelKind)]

SmsAllowed(severity) == AtLeast(severity, "Severe")

\* What channel.send() can end in: the inbox write cannot fail, a socket may
\* be gone, a push service may reject or have expired the token.
SendOutcomes(kind) ==
    [in_app    |-> {"delivered"},
     websocket |-> {"delivered", "no_endpoint", "error"},
     web_push  |-> {"delivered", "unconfigured", "expired_token", "rejected", "error"},
     fcm       |-> {"delivered", "unconfigured", "expired_token", "rejected", "error"},
     sms       |-> {"delivered", "unconfigured", "error"}][kind]

AttemptOutcomes(kind, severity) ==
    IF kind \notin Channels THEN {"unconfigured"}
    ELSE IF kind = "sms" /\ ~SmsAllowed(severity) THEN {"skipped_policy"}
    ELSE SendOutcomes(kind)

MutReportsFirstFailureEnds(u, severity) ==
    { report \in UNION {[1 .. n -> DeliveryOutcome] : n \in 0 .. Len(Endpoints[u])} :
        /\ \A i \in DOMAIN report :
              /\ report[i] \in AttemptOutcomes(Endpoints[u][i], severity)
              /\ report[i] \in {"error", "rejected"} => \A j \in DOMAIN report : j <= i
        /\ \/ DOMAIN report = DOMAIN Endpoints[u]
           \/ \E i \in DOMAIN report : report[i] \in {"error", "rejected"} }

\* One attempt per endpoint: an unavailable channel and any exception are
\* recorded and the loop goes on.  Without a router nothing is attempted.
Reports(u, severity) ==
    IF Channels = {} THEN {<<>>}
    ELSE { report \in [DOMAIN Endpoints[u] -> DeliveryOutcome] :
             \A i \in DOMAIN report :
                report[i] \in AttemptOutcomes(Endpoints[u][i], severity) }

Delivered(report) == \E i \in DOMAIN report : report[i] = "delivered"
==============================================================================
