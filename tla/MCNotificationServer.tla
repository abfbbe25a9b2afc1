------------------------ MODULE MCNotificationServer ------------------------
(***************************************************************************)
(* Instances of AdapterConfig and NotificationServer for TLC: the          *)
(* ConfigMaps that the administrator may apply and how often each          *)
(* disturbance may happen.                                                 *)
(***************************************************************************)
EXTENDS NotificationServer, TLC

CONSTANT s1

ConfigMap(adapters, mode, brokers, ref) ==
    [adapters |-> adapters, mode |-> mode, brokers |-> brokers, ref |-> ref]

NoFlags == [mode |-> "http", brokers |-> 0]
BrokerFlag == [mode |-> "http", brokers |-> 1]

\* One Secret, and a broker for sinks.
SinkConfigMap == { ConfigMap(1, "http", 1, s1) }

\* The Secret is needed in one of the two modes.
SecretConfigMaps ==
    { ConfigMap(1, "unset", 0, NoSecret), ConfigMap(1, "kafka", 1, s1) }

Limits(c, s, f) == ("configmap" :> c) @@ ("secret" :> s) @@ ("fault" :> f)

TwoSecret               == Limits(0, 2, 0)
OneConfigMapSecret      == Limits(1, 1, 0)
OneConfigMapFault       == Limits(1, 0, 1)
=============================================================================
