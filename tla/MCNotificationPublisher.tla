---------------------- MODULE MCNotificationPublisher ----------------------
\* Instances of NotificationPublisher: three alerts and one observation.
EXTENDS NotificationPublisher, TLC

CONSTANTS alerts, observations, a1, a2, a3, o1

MCMessages == {a1, a2, a3, o1}
MCTypeOf == (a1 :> alerts) @@ (a2 :> alerts) @@ (a3 :> alerts) @@ (o1 :> observations)
MCStamp == (a1 :> 1) @@ (a2 :> 2) @@ (a3 :> 3) @@ (o1 :> 2)
=============================================================================
