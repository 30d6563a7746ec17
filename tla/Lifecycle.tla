----------------------------- MODULE Lifecycle -----------------------------
(***************************************************************************)
(* The ledger process from its start to its exit (src/main.rs): configuration *)
(* (src/config/mod.rs), TLS (src/tls.rs), the check of the role's privileges   *)
(* (src/db_permissions/mod.rs), the background tasks, the three servers and    *)
(* their shutdown over a watch channel.                                        *)
(*                                                                          *)
(* main, the task that waits for a signal and the three server tasks           *)
(* interleave; a signal, a POST /shutdownz and calls come from outside at any  *)
(* time.  What a call does to the ledger is the subject of the other modules.  *)
(***************************************************************************)
EXTENDS Integers, FiniteSets

CONSTANTS
    Unset,          \* an environment variable that is not set, an Option that is None
    Malformed,      \* text that does not parse as a number or as a URL
    Invalid,        \* the ConfigError of one variable
    Environments,   \* the environments the process may start with
    Token,          \* bearer tokens a caller may present
    U32,            \* 2^32, or a smaller modulus
    MaxSends        \* bound: values sent over the shutdown channel

ASSUME LifecycleAssumption == U32 \in Nat \ {0} /\ MaxSends \in Nat

VARIABLES
    pc,          \* where main is: the step it takes next, or "exited"
    exit,        \* "running", "ok", "err", or "killed" by a signal
    config,      \* AppConfig, or Unset before it is loaded
    granted,     \* the role's privileges on ledger_entries
    certs,       \* usable system root certificates exist
    taken,       \* ports other processes listen on
    tasks,       \* background tasks that run: "outbox", "verifier"
    version,     \* version of the shutdown channel's value
    seen,        \* version each server's receiver has seen, -1 before subscribe
    signalTask,  \* "none", "spawned", "waiting", "signalled" or "done"
    server,      \* state of each server's task
    calls,       \* servers with a call in flight
    asked        \* history: why a stop was requested

vars == <<pc, exit, config, granted, certs, taken, tasks, version, seen,
          signalTask, server, calls, asked>>

Server == {"grpc", "health", "metrics"}
Privilege == {"INSERT", "SELECT", "UPDATE", "DELETE"}

Environment == <<granted, certs, taken>>
Channel == <<version, seen>>
Running == exit = "running"

-----------------------------------------------------------------------------
(* Configuration *)

parse_usize(raw, default) ==
    CASE raw = Unset  -> default
      [] raw \in Nat  -> raw
      [] OTHER        -> Invalid

U16 == 0..65535

parse_u16(raw, default) ==
    LET n == parse_usize(raw, default)
    IN  IF n = Invalid \/ n \in U16 THEN n ELSE Invalid

parse_nonzero_AllowsZero(raw, default) == parse_usize(raw, default)

\* parse_nonzero_u64 and parse_positive_i64.
parse_nonzero(raw, default) ==
    LET n == parse_usize(raw, default) IN IF n = 0 THEN Invalid ELSE n

\* parse_usize(..)? as u32.
parse_as_u32(raw, default) ==
    LET n == parse_usize(raw, default) IN IF n = Invalid THEN n ELSE n % U32

required(raw) == IF raw = Unset THEN Invalid ELSE raw

\* A blank value counts as not set.
optional(raw) == IF raw = "" THEN Unset ELSE raw

from_env(env) ==
    [grpc_port                    |-> parse_u16(env.grpc_port, 9092),
     health_port                  |-> parse_u16(env.health_port, 8080),
     metrics_port                 |-> parse_u16(env.metrics_port, 8083),
     max_content_size_bytes       |-> parse_usize(env.max_content_size_bytes, 1048576),
     db_connection_string         |-> required(env.db_connection_string),
     outbox_http_endpoint         |-> optional(env.outbox_http_endpoint),
     outbox_http_timeout_seconds  |-> parse_nonzero(env.outbox_http_timeout_seconds, 10),
     outbox_http_bearer_token     |-> optional(env.outbox_http_bearer_token),
     genesis_hash_input           |-> IF env.genesis_hash_input = Unset
                                      THEN "ARE_LEDGER_GENESIS" ELSE env.genesis_hash_input,
     pool_max_size                |-> parse_usize(env.pool_max_size, 16),
     chain_max_retries            |-> parse_as_u32(env.chain_max_retries, 10),
     chain_halt_recovery_seconds  |-> parse_nonzero(env.chain_halt_recovery_seconds, 60),
     outbox_max_retries           |-> parse_as_u32(env.outbox_max_retries, 10),
     verify_interval_seconds      |-> parse_usize(env.verify_interval_seconds, 300),
     verify_max_entries_per_chain |-> parse_nonzero(env.verify_max_entries_per_chain, 10000),
     api_token                    |-> env.api_token,
     shutdown_token               |-> env.shutdown_token]

\* A configuration is never mistaken for the absence of one.
ASSUME ConfigAssumption == \A env \in Environments : from_env(env) # Unset

-----------------------------------------------------------------------------
(* The steps of main up to the shutdown channel *)

Init ==
    /\ pc = "config" /\ exit = "running" /\ config = Unset
    /\ granted \in SUBSET Privilege
    /\ certs \in BOOLEAN
    /\ taken \in {{}, {9092}, {8080}, {8083}}
    /\ tasks = {} /\ version = 0 /\ seen = [s \in Server |-> -1]
    /\ signalTask = "none"
    /\ server = [s \in Server |-> "none"] /\ calls = {} /\ asked = {}

\* main returns: the runtime is dropped and every task with it.
Exit(code) == pc' = "exited" /\ exit' = code

\* A step of main that either goes on to the next one or returns an error.
Proceed(ok, next) ==
    IF ok THEN pc' = next /\ UNCHANGED exit ELSE Exit("err")

LoadConfig ==
    /\ Running /\ pc = "config"
    /\ \E env \in Environments :
         LET c == from_env(env)
             ok == \A f \in DOMAIN c : c[f] # Invalid
         IN  /\ Proceed(ok, "permissions")
             /\ config' = IF ok THEN c ELSE Unset
    /\ UNCHANGED <<Environment, Channel, tasks, signalTask, server, calls, asked>>

\* make_pg_tls: no sslmode and "disable" mean plain text; every other mode needs
\* a root certificate.
make_pg_tls(connection) ==
    IF connection.sslmode \in {Unset, "disable"} THEN "Plain"
    ELSE IF certs THEN "Rustls" ELSE Invalid

evaluate_permissions_NoDelete(p) ==
    {"INSERT", "SELECT"} \subseteq p /\ "UPDATE" \notin p

evaluate_permissions(p) ==
    /\ {"INSERT", "SELECT"} \subseteq p
    /\ {"UPDATE", "DELETE"} \cap p = {}

\* verify_ledger_entries_immutable; connecting and asking may fail.
CheckPermissions ==
    /\ Running /\ pc = "permissions"
    /\ \E reachable \in BOOLEAN :
         Proceed(/\ make_pg_tls(config.db_connection_string) # Invalid
                 /\ config.db_connection_string.wellformed
                 /\ reachable
                 /\ evaluate_permissions(granted), "pool")
    /\ UNCHANGED <<Environment, Channel, config, tasks, signalTask, server, calls, asked>>

BuildPool ==
    /\ Running /\ pc = "pool"
    /\ Proceed(/\ config.db_connection_string.wellformed
               /\ make_pg_tls(config.db_connection_string) # Invalid, "publisher")
    /\ UNCHANGED <<Environment, Channel, config, tasks, signalTask, server, calls, asked>>

\* HttpEventPublisher::new parses the endpoint.
NewPublisher ==
    /\ Running /\ pc = "publisher"
    /\ Proceed(config.outbox_http_endpoint # Malformed, "service")
    /\ UNCHANGED <<Environment, Channel, config, tasks, signalTask, server, calls, asked>>

\* ImmutableLedgerService::new starts the outbox processor of an enabled
\* publisher; an interval of 0 disables the verifier.
NewService ==
    /\ Running /\ pc = "service"
    /\ tasks' = {t \in {"outbox", "verifier"} :
                   \/ t = "outbox" /\ config.outbox_http_endpoint # Unset
                   \/ t = "verifier" /\ config.verify_interval_seconds > 0}
    /\ pc' = "signal"
    /\ UNCHANGED <<Environment, Channel, exit, config, signalTask, server, calls, asked>>

\* The channel is created with version 0 and its first receiver is dropped.
SpawnSignalTask ==
    /\ Running /\ pc = "signal"
    /\ signalTask' = "spawned"
    /\ pc' = "grpc"
    /\ UNCHANGED <<Environment, Channel, exit, config, tasks, server, calls, asked>>

-----------------------------------------------------------------------------
(* The watch channel, external: send changes nothing without a receiver,     *)
(* subscribe takes the current value as seen, and a receiver is dropped with  *)
(* the future that waits on it.                                               *)

Receivers == {s \in Server : seen[s] >= 0 /\ server[s] \in {"spawned", "serving"}}

send ==
    /\ version' = IF Receivers = {} THEN version ELSE version + 1
    /\ UNCHANGED seen

subscribe(s) == seen' = [seen EXCEPT ![s] = version] /\ UNCHANGED version

changed(s) == seen[s] >= 0 /\ version > seen[s]

-----------------------------------------------------------------------------
(* Stop requests *)

\* wait_for_shutdown_signal installs the handlers; when that fails its error is
\* dropped and the stop is sent at once.
InstallHandler ==
    /\ Running /\ signalTask = "spawned"
    /\ \/ signalTask' = "waiting" /\ UNCHANGED asked
       \/ signalTask' = "signalled" /\ asked' = asked \cup {"install_failed"}
    /\ UNCHANGED <<Environment, Channel, pc, exit, config, tasks, server, calls>>

\* SIGTERM or SIGINT.  Before the handlers are installed it ends the process;
\* after the first one the handlers stay and further signals do nothing.
Signal ==
    /\ Running
    /\ \/ /\ signalTask \in {"none", "spawned"}
          /\ Exit("killed")
          /\ UNCHANGED <<signalTask, asked>>
       \/ /\ signalTask = "waiting"
          /\ signalTask' = "signalled"
          /\ asked' = asked \cup {"signal"}
          /\ UNCHANGED <<pc, exit>>
    /\ UNCHANGED <<Environment, Channel, config, tasks, server, calls>>

SendStop ==
    /\ Running /\ signalTask = "signalled"
    /\ signalTask' = "done"
    /\ send
    /\ UNCHANGED <<Environment, pc, exit, config, tasks, server, calls, asked>>

\* The bearer token of a call is the configured one.
authorized(presented, token) == presented = token

\* POST /shutdownz: not found without a token, refused without the right one.
Shutdownz(presented) ==
    /\ Running /\ server["health"] = "serving"
    /\ version < MaxSends
    /\ config.shutdown_token # Unset
    /\ authorized(presented, config.shutdown_token)
    /\ send
    /\ asked' = asked \cup {"shutdownz"}
    /\ UNCHANGED <<Environment, pc, exit, config, tasks, signalTask, server, calls>>

-----------------------------------------------------------------------------
(* The servers *)

Port(s) == config[CASE s = "grpc" -> "grpc_port"
                    [] s = "health" -> "health_port"
                    [] s = "metrics" -> "metrics_port"]

\* Port 0 asks for any free port; a server that stopped accepting has closed
\* its listener.
CanBind(s) ==
    \/ Port(s) = 0
    \/ /\ Port(s) \notin taken
       /\ \A t \in Server \ {s} : server[t] = "serving" => Port(t) # Port(s)

\* main subscribes for the gRPC server and spawns its task, which binds the
\* port itself.
SpawnGrpc ==
    /\ Running /\ pc = "grpc"
    /\ subscribe("grpc")
    /\ server' = [server EXCEPT !["grpc"] = "spawned"]
    /\ pc' = "health"
    /\ UNCHANGED <<Environment, exit, config, tasks, signalTask, calls, asked>>

BindGrpc ==
    /\ Running /\ server["grpc"] = "spawned"
    /\ server' = [server EXCEPT !["grpc"] = IF CanBind("grpc") THEN "serving" ELSE "failed"]
    /\ UNCHANGED <<Environment, Channel, pc, exit, config, tasks, signalTask, calls, asked>>

\* main itself binds the listeners of the health and the metrics server, and
\* returns when it cannot.
BindAndSpawn(s, next) ==
    /\ Running /\ pc = s
    /\ Proceed(CanBind(s), next)
    /\ IF CanBind(s)
       THEN subscribe(s) /\ server' = [server EXCEPT ![s] = "serving"]
       ELSE UNCHANGED <<Channel, server>>
    /\ UNCHANGED <<Environment, config, tasks, signalTask, calls, asked>>

BindHealth == BindAndSpawn("health", "metrics")
BindMetrics == BindAndSpawn("metrics", "join")

\* A call is accepted; with an API token the gRPC interceptor lets only calls
\* through that present it.
AcceptCall(s, presented) ==
    /\ Running /\ server[s] = "serving"
    /\ s = "grpc" /\ config.api_token # Unset => authorized(presented, config.api_token)
    /\ calls' = calls \cup {s}
    /\ UNCHANGED <<Environment, Channel, pc, exit, config, tasks, signalTask, server, asked>>

\* A call returns, or its client gives up.  A gRPC call and GET /readyz wait for
\* a connection of the pool without a limit: with a pool of size 0 they end
\* only if the client gives up.
FinishCall(s) ==
    /\ Running /\ s \in calls
    /\ calls' = calls \ {s}
    /\ UNCHANGED <<Environment, Channel, pc, exit, config, tasks, signalTask, server, asked>>

CallReturns(s) == FinishCall(s) /\ (s = "metrics" \/ config.pool_max_size > 0)

Drain_SharedReceiver(s) ==
    /\ Running /\ server[s] = "serving" /\ changed(s)
    /\ seen' = [t \in Server |-> IF seen[t] >= 0 THEN version ELSE seen[t]]
    /\ server' = [server EXCEPT ![s] = "draining"]
    /\ UNCHANGED <<Environment, version, pc, exit, config, tasks, signalTask, calls, asked>>

\* The receiver's changed() resolves: the server stops accepting.
Drain(s) ==
    /\ Running /\ server[s] = "serving" /\ changed(s)
    /\ seen' = [seen EXCEPT ![s] = version]
    /\ server' = [server EXCEPT ![s] = "draining"]
    /\ UNCHANGED <<Environment, version, pc, exit, config, tasks, signalTask, calls, asked>>

EndServer_Now(s) ==
    /\ Running /\ server[s] = "draining"
    /\ server' = [server EXCEPT ![s] = "ended"]
    /\ UNCHANGED <<Environment, Channel, pc, exit, config, tasks, signalTask, calls, asked>>

\* A graceful shutdown waits for the calls in flight.
EndServer(s) ==
    /\ Running /\ server[s] = "draining" /\ s \notin calls
    /\ server' = [server EXCEPT ![s] = "ended"]
    /\ UNCHANGED <<Environment, Channel, pc, exit, config, tasks, signalTask, calls, asked>>

\* try_join! waits for the three tasks, whatever a server returned; then the
\* gRPC server's error is returned.
Join ==
    /\ Running /\ pc = "join"
    /\ \A s \in Server : server[s] \in {"ended", "failed"}
    /\ Exit(IF server["grpc"] = "failed" THEN "err" ELSE "ok")
    /\ UNCHANGED <<Environment, Channel, config, tasks, signalTask, server, calls, asked>>

-----------------------------------------------------------------------------
Main ==
    \/ LoadConfig \/ CheckPermissions \/ BuildPool \/ NewPublisher \/ NewService
    \/ SpawnSignalTask \/ SpawnGrpc \/ BindHealth \/ BindMetrics \/ Join

SignalTask == InstallHandler \/ SendStop

ServerTask(s) == Drain(s) \/ EndServer(s) \/ (s = "grpc" /\ BindGrpc)

Next ==
    \/ Main \/ SignalTask \/ Signal
    \/ \E s \in Server : ServerTask(s) \/ FinishCall(s)
    \/ \E presented \in Token : Shutdownz(presented)
    \/ \E s \in Server, presented \in Token : AcceptCall(s, presented)

Spec == Init /\ [][Next]_vars

\* The runtime polls every task that can go on; calls that can return do.
FairSpec ==
    /\ Spec
    /\ WF_vars(Main) /\ WF_vars(SignalTask)
    /\ \A s \in Server : WF_vars(ServerTask(s)) /\ WF_vars(CallReturns(s))

-----------------------------------------------------------------------------
(* Properties *)

\* Types; a configuration the process goes on with has ports of 16 bits and
\* positive timeouts, and the background tasks and the servers exist only after
\* it (src/config/mod.rs).
TypeOK ==
    /\ exit \in {"running", "ok", "err", "killed"}
    /\ pc = "exited" <=> exit # "running"
    /\ granted \subseteq Privilege /\ certs \in BOOLEAN
    /\ tasks \subseteq {"outbox", "verifier"}
    /\ version \in 0..MaxSends + 1
    /\ seen \in [Server -> -1..version]
    /\ signalTask \in {"none", "spawned", "waiting", "signalled", "done"}
    /\ server \in [Server -> {"none", "spawned", "serving", "draining", "ended", "failed"}]
    /\ calls \subseteq Server
    /\ asked \subseteq {"signal", "shutdownz", "install_failed"}
    /\ IF config = Unset THEN tasks = {} /\ \A s \in Server : server[s] = "none"
       ELSE /\ \A s \in Server : Port(s) \in U16
            /\ config.chain_max_retries \in 0..U32 - 1
            /\ config.outbox_max_retries \in 0..U32 - 1
            /\ config.outbox_http_timeout_seconds > 0
            /\ config.chain_halt_recovery_seconds > 0
            /\ config.verify_max_entries_per_chain > 0

\* No background task runs and no server accepts a call in a process whose role
\* may change or remove ledger rows, or may not read and append them.
ServesOnlyImmutable ==
    tasks # {} \/ \E s \in Server : server[s] # "none"
      => granted = {"INSERT", "SELECT"}

\* The exit code is honest: success means that the three servers served, that each
\* has ended and that no call they had accepted was dropped; once main waits for its
\* servers the process ends for no other reason than a stop request (main.rs, the
\* join).
ExitHonest ==
    /\ exit = "ok" => calls = {} /\ \A s \in Server : server[s] = "ended"
    /\ exit # "running" /\ (\A s \in Server : seen[s] >= 0) /\ signalTask # "spawned"
         => asked # {}

Stopping == \A s \in Server : server[s] \in {"draining", "ended", "failed"}

\* A stop request is honoured.  Every server that had subscribed when a stop was sent
\* stops accepting, also when the stop came before the others subscribed (they never
\* see it).  A signal that main's join is waiting for stops all of them.  Once all are
\* stopping the process exits, also with an empty pool, unless a call is then waiting
\* for a connection that cannot come (main.rs, the watch channel and the join).
StopHonoured ==
    /\ \A s \in Server : changed(s) ~> (server[s] \notin {"spawned", "serving"} \/ ~Running)
    /\ (pc = "join" /\ signalTask = "signalled") ~> (Stopping \/ ~Running)
    /\ (/\ pc = "join" /\ Stopping
        /\ config.pool_max_size > 0 \/ calls \subseteq {"metrics"}) ~> ~Running
====
