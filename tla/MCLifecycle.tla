---------------------------- MODULE MCLifecycle ----------------------------
(***************************************************************************)
(* Environments for Lifecycle: the shortest one, and one for each variable    *)
(* whose value makes the process take another way.                            *)
(***************************************************************************)
EXTENDS Lifecycle

Plain == [wellformed |-> TRUE, sslmode |-> Unset]

Shortest ==
    [grpc_port |-> Unset, health_port |-> Unset, metrics_port |-> Unset,
     max_content_size_bytes |-> Unset, outbox_http_bearer_token |-> Unset,
     genesis_hash_input |-> Unset, db_connection_string |-> Plain, outbox_http_endpoint |-> Unset,
     outbox_http_timeout_seconds |-> Unset, pool_max_size |-> Unset,
     chain_max_retries |-> Unset, chain_halt_recovery_seconds |-> Unset,
     outbox_max_retries |-> Unset, verify_interval_seconds |-> Unset,
     verify_max_entries_per_chain |-> Unset, api_token |-> Unset,
     shutdown_token |-> Unset]

With(f, values) == {[Shortest EXCEPT ![f] = v] : v \in values}

Deviations ==
    UNION {{Shortest},
           With("grpc_port", {0, 8080, 65536}), With("health_port", {8083}),
           With("metrics_port", {Malformed}),
           With("db_connection_string",
                {Unset, [wellformed |-> FALSE, sslmode |-> Unset],
                 [wellformed |-> TRUE, sslmode |-> "disable"],
                 [wellformed |-> TRUE, sslmode |-> "require"]}),
           With("max_content_size_bytes", {Malformed}),
           With("outbox_http_endpoint", {"", "url", Malformed}),
           With("outbox_http_timeout_seconds", {0}), With("pool_max_size", {0}),
           With("chain_max_retries", {U32}), With("chain_halt_recovery_seconds", {0}),
           With("outbox_max_retries", {Malformed}), With("verify_interval_seconds", {0}),
           With("verify_max_entries_per_chain", {0}), With("api_token", {"t"}),
           With("shutdown_token", {"t"})}
====
