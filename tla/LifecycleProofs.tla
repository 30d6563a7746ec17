--------------------------- MODULE LifecycleProofs ---------------------------
(***************************************************************************)
(* Theorems about Lifecycle, for every environment, every set of privileges   *)
(* and every order of signals, stop requests, calls and server steps.         *)
(***************************************************************************)
EXTENDS Lifecycle, TLAPS

USE LifecycleAssumption

-----------------------------------------------------------------------------
(* Configuration *)

ConfigOK(c) ==
    /\ c["grpc_port"] \in U16 /\ c["health_port"] \in U16
    /\ c["metrics_port"] \in U16
    /\ c.chain_max_retries \in 0..U32 - 1
    /\ c.outbox_max_retries \in 0..U32 - 1
    /\ c.outbox_http_timeout_seconds > 0
    /\ c.chain_halt_recovery_seconds > 0
    /\ c.verify_max_entries_per_chain > 0

\* Whatever text a variable holds, its parser yields a number of its range or the
\* error of that variable.
LEMMA Parsers ==
    ASSUME NEW raw, NEW default \in Nat
    PROVE  /\ parse_usize(raw, default) \in Nat \cup {Invalid}
           /\ default \in U16 => parse_u16(raw, default) \in U16 \cup {Invalid}
           /\ default # 0 => parse_nonzero(raw, default) \in (Nat \ {0}) \cup {Invalid}
           /\ parse_as_u32(raw, default) \in (0..U32 - 1) \cup {Invalid}
<1>1. parse_usize(raw, default) \in Nat \cup {Invalid}
  BY DEF parse_usize
<1>2. default \in U16 => parse_u16(raw, default) \in U16 \cup {Invalid}
  BY <1>1 DEF parse_u16
<1>3. default # 0 => parse_nonzero(raw, default) \in (Nat \ {0}) \cup {Invalid}
  BY <1>1 DEF parse_nonzero
<1>4. parse_as_u32(raw, default) \in (0..U32 - 1) \cup {Invalid}
  BY <1>1 DEF parse_as_u32
<1>. QED BY <1>1, <1>2, <1>3, <1>4

\* A configuration without an error has ports of 16 bits, retry limits of 32 bits
\* and positive times, whatever the environment.
LEMMA FromEnv ==
    ASSUME NEW env, NEW c, c = from_env(env), \A f \in DOMAIN c : c[f] # Invalid
    PROVE  ConfigOK(c)
<1>. DEFINE numbers == {"grpc_port", "health_port", "metrics_port", "chain_max_retries",
                        "outbox_max_retries", "outbox_http_timeout_seconds",
                        "chain_halt_recovery_seconds", "verify_max_entries_per_chain"}
<1>1. numbers \subseteq DOMAIN c
  BY DEF from_env
<1>2. /\ c["grpc_port"] = parse_u16(env.grpc_port, 9092)
      /\ c["health_port"] = parse_u16(env.health_port, 8080)
      /\ c["metrics_port"] = parse_u16(env.metrics_port, 8083)
      /\ c["chain_max_retries"] = parse_as_u32(env.chain_max_retries, 10)
      /\ c["outbox_max_retries"] = parse_as_u32(env.outbox_max_retries, 10)
      /\ c["outbox_http_timeout_seconds"] = parse_nonzero(env.outbox_http_timeout_seconds, 10)
      /\ c["chain_halt_recovery_seconds"] = parse_nonzero(env.chain_halt_recovery_seconds, 60)
      /\ c["verify_max_entries_per_chain"]
           = parse_nonzero(env.verify_max_entries_per_chain, 10000)
  BY DEF from_env
<1>3. \A f \in numbers : c[f] # Invalid
  BY <1>1
<1>4. /\ c["grpc_port"] \in U16 /\ c["health_port"] \in U16
      /\ c["metrics_port"] \in U16
  <2>1. 9092 \in U16 /\ 8080 \in U16 /\ 8083 \in U16
    BY DEF U16
  <2>. QED BY <1>2, <1>3, <2>1, Parsers
<1>5. c["chain_max_retries"] \in 0..U32 - 1 /\ c["outbox_max_retries"] \in 0..U32 - 1
  BY <1>2, <1>3, Parsers
<1>6. /\ c["outbox_http_timeout_seconds"] \in Nat \ {0}
      /\ c["chain_halt_recovery_seconds"] \in Nat \ {0}
      /\ c["verify_max_entries_per_chain"] \in Nat \ {0}
  BY <1>2, <1>3, Parsers
<1>. QED BY <1>4, <1>5, <1>6 DEF ConfigOK

-----------------------------------------------------------------------------
(* The inductive invariant *)

\* The steps of main after the configuration, and after the privilege check.
Configured == {"permissions", "pool", "publisher", "service", "signal", "grpc", "health",
               "metrics", "join"}

Checked == Configured \ {"permissions"}

\* main goes on only with a configuration; the channel's value changes at most
\* MaxSends times, and once more through the signal task.
StartInv ==
    /\ pc \in {"config", "exited"} \cup Configured
    /\ pc \in Configured => config # Unset
    /\ pc = "config" => config = Unset
    /\ version <= MaxSends \/ signalTask = "done"

\* Past the check the role has the two privileges and no other.
PrivilegeInv ==
    /\ pc \in Checked => granted = {"INSERT", "SELECT"}
    /\ ServesOnlyImmutable

\* A server that stops accepting has seen a change of the channel, and a change
\* of the channel has a reason.
StopInv ==
    /\ version > 0 => asked # {}
    /\ signalTask \in {"signalled", "done"} => asked # {}
    /\ \A s \in Server : server[s] \in {"draining", "ended"} => version > 0

\* The order in which main subscribes, and what that says of a server.
ServerInv ==
    /\ pc \in {"config", "permissions", "pool", "publisher", "service", "signal"}
         => signalTask = "none" /\ \A s \in Server : server[s] = "none"
    /\ signalTask = "none" => \A s \in Server : seen[s] = -1
    /\ pc \in {"grpc", "health", "metrics", "join"} => signalTask # "none"
    /\ pc \in {"grpc", "health"} => seen["health"] = -1
    /\ pc \in {"grpc", "health", "metrics"} => seen["metrics"] = -1
    /\ pc = "grpc" => server["grpc"] = "none"
    /\ \A s \in Server \ {"grpc"} : server[s] # "failed"
    /\ \A s \in calls : server[s] \in {"serving", "draining"}

\* What the exit code and the privileges of a running process rest on.
LifecycleInv == StartInv /\ PrivilegeInv /\ StopInv /\ ServerInv /\ ExitHonest

\* What TypeOK says of a configuration, as ConfigOK.
LEMMA ConfigTyped ==
    config # Unset =>
      (ConfigOK(config) <=>
         /\ \A s \in Server : Port(s) \in U16
         /\ config.chain_max_retries \in 0..U32 - 1
         /\ config.outbox_max_retries \in 0..U32 - 1
         /\ config.outbox_http_timeout_seconds > 0
         /\ config.chain_halt_recovery_seconds > 0
         /\ config.verify_max_entries_per_chain > 0)
<1>1. /\ Port("grpc") = config["grpc_port"] /\ Port("health") = config["health_port"]
      /\ Port("metrics") = config["metrics_port"]
  BY DEF Port
<1>. QED BY <1>1 DEF Server, ConfigOK

\* The part of TypeOK that is about the configuration.
ConfigType ==
    IF config = Unset THEN tasks = {} /\ \A s \in Server : server[s] = "none"
    ELSE ConfigOK(config)

\* The rest of TypeOK.
PlainType ==
    /\ exit \in {"running", "ok", "err", "killed"}
    /\ pc = "exited" <=> exit # "running"
    /\ granted \subseteq Privilege /\ certs \in BOOLEAN
    /\ tasks \subseteq {"outbox", "verifier"}
    /\ version \in 0..MaxSends + 1
    /\ seen \in [Server -> -1..version]
    /\ signalTask \in {"none", "spawned", "waiting", "signalled", "done"}
    /\ server \in [Server -> {"none", "spawned", "serving", "draining", "ended", "failed"}]
    /\ calls \subseteq Server
    /\ asked \subseteq {"signal", "shutdownz", "install_failed"}

\* TypeOK in two parts.
LEMMA TypeParts == TypeOK <=> PlainType /\ ConfigType
  BY ConfigTyped DEF TypeOK, PlainType, ConfigType

Inv == PlainType /\ ConfigType /\ LifecycleInv

\* Initially nothing runs.
LEMMA InitInv == Init => Inv
<1>. SUFFICES ASSUME Init PROVE Inv
  OBVIOUS
<1>1. PlainType /\ ConfigType
  BY DEF Init, PlainType, ConfigType, Server, Privilege
<1>2. LifecycleInv
  BY DEF Init, LifecycleInv, StartInv, PrivilegeInv, StopInv, ServerInv, ExitHonest,
         ServesOnlyImmutable, Configured, Checked, Server
<1>. QED BY <1>1, <1>2 DEF Inv

\* A send changes the version by at most one, and no receiver is ahead of it.
LEMMA SendType ==
    ASSUME PlainType, send, version <= MaxSends
    PROVE  /\ version' \in 0..MaxSends + 1
           /\ version' = version \/ version' = version + 1
           /\ seen' \in [Server -> -1..version'] /\ UNCHANGED seen
<1>1. version \in Int /\ version >= 0
  BY DEF PlainType
<1>2. (version' = version \/ version' = version + 1) /\ UNCHANGED seen
  BY DEF send
<1>3. -1..version \subseteq -1..version'
  BY <1>1, <1>2
<1>. QED BY <1>1, <1>2, <1>3 DEF PlainType

\* A subscription, or the wake-up of a receiver, takes the current version as seen.
LEMMA SeenType ==
    ASSUME PlainType, NEW s \in Server, seen' = [seen EXCEPT ![s] = version],
           UNCHANGED version
    PROVE  /\ seen' \in [Server -> -1..version']
           /\ seen'[s] = version /\ version >= 0
           /\ \A t \in Server \ {s} : seen'[t] = seen[t]
  BY DEF PlainType

\* A server changes its state.
LEMMA ServerMoves ==
    ASSUME PlainType, NEW s \in Server,
           NEW label \in {"spawned", "serving", "draining", "ended", "failed"},
           server' = [server EXCEPT ![s] = label]
    PROVE  /\ server' \in [Server -> {"none", "spawned", "serving", "draining", "ended", "failed"}]
           /\ server'[s] = label
           /\ \A t \in Server \ {s} : server'[t] = server[t]
  BY DEF PlainType

\* Leaving before every server has subscribed, or by a signal no handler expects.
LEMMA LeaveEarly ==
    ASSUME Inv, NEW code \in {"err", "killed"}, Exit(code),
           UNCHANGED <<Environment, Channel, config, tasks, signalTask, server, calls, asked>>,
           signalTask = "spawned" \/ \E s \in Server : seen[s] = -1
    PROVE  Inv'
<1>. USE DEF Inv, LifecycleInv, Environment, Channel, Exit
<1>1. PlainType' /\ ConfigType' /\ StartInv' /\ PrivilegeInv'
  BY DEF PlainType, ConfigType, StartInv, PrivilegeInv, ServesOnlyImmutable, Configured, Checked
<1>2. StopInv' /\ ServerInv'
  BY DEF StopInv, ServerInv
<1>3. ExitHonest'
  <2>1. \A s \in Server : seen'[s] = seen[s]
    OBVIOUS
  <2>. QED BY <2>1 DEF ExitHonest
<1>. QED BY <1>1, <1>2, <1>3

\* Every step of main preserves the invariant.
LEMMA MainStep == ASSUME Inv, Main PROVE Inv'
<1>. USE DEF Inv, PlainType, ConfigType, LifecycleInv, StartInv, PrivilegeInv, StopInv,
             ServerInv, ExitHonest, ServesOnlyImmutable, Configured, Checked, Server,
             Running, Environment, Channel, Exit, Proceed
<1>1. CASE LoadConfig
  <2>1. PICK env \in Environments :
          LET c == from_env(env)
              ok == \A f \in DOMAIN c : c[f] # Invalid
          IN  /\ Proceed(ok, "permissions")
              /\ config' = IF ok THEN c ELSE Unset
    BY <1>1 DEF LoadConfig
  <2>2. /\ config' # Unset => ConfigOK(config')
        /\ \/ pc' = "permissions" /\ UNCHANGED exit /\ config' # Unset
           \/ pc' = "exited" /\ exit' = "err" /\ config' = Unset
    <3>1. CASE \A f \in DOMAIN from_env(env) : from_env(env)[f] # Invalid
      BY <2>1, <3>1, FromEnv, ConfigAssumption
    <3>2. CASE ~ \A f \in DOMAIN from_env(env) : from_env(env)[f] # Invalid
      BY <2>1, <3>2
    <3>. QED BY <3>1, <3>2
  <2>3. config = Unset /\ tasks = {} /\ \A s \in Server : server[s] = "none"
    BY <1>1 DEF LoadConfig, ConfigType
  <2>. QED BY <1>1, <2>2, <2>3 DEF LoadConfig
<1>2. CASE CheckPermissions
  <2>1. \/ /\ pc' = "pool" /\ UNCHANGED exit /\ evaluate_permissions(granted)
        \/ pc' = "exited" /\ exit' = "err"
    BY <1>2 DEF CheckPermissions
  <2>2. evaluate_permissions(granted) => granted = {"INSERT", "SELECT"}
    BY DEF evaluate_permissions, Privilege, PlainType
  <2>. QED BY <1>2, <2>1, <2>2 DEF CheckPermissions
<1>3. CASE BuildPool \/ NewPublisher
  <2>1. CASE Exit("err")
    BY <1>3, <2>1, LeaveEarly DEF BuildPool, NewPublisher
  <2>2. CASE pc' \in {"publisher", "service"} /\ UNCHANGED exit
    BY <1>3, <2>2 DEF BuildPool, NewPublisher
  <2>. QED BY <1>3, <2>1, <2>2 DEF BuildPool, NewPublisher
<1>4. CASE NewService
  BY <1>4 DEF NewService
<1>5. CASE SpawnSignalTask
  BY <1>5 DEF SpawnSignalTask
<1>6. CASE SpawnGrpc
  BY <1>6, SeenType, ServerMoves DEF SpawnGrpc, subscribe
<1>7. CASE BindHealth
  BY <1>7, SeenType, ServerMoves DEF BindHealth, BindAndSpawn, subscribe
<1>8. CASE BindMetrics
  BY <1>8, SeenType, ServerMoves DEF BindMetrics, BindAndSpawn, subscribe
<1>9. CASE Join
  BY <1>9 DEF Join
<1>. QED
  BY <1>1, <1>2, <1>3, <1>4, <1>5, <1>6, <1>7, <1>8, <1>9 DEF Main

\* So does everything else: the signal task, the servers, callers and signals.
LEMMA OtherStep ==
    ASSUME Inv, [SignalTask \/ Signal
                 \/ (\E s \in Server : ServerTask(s) \/ FinishCall(s))
                 \/ (\E presented \in Token : Shutdownz(presented))
                 \/ (\E s \in Server, presented \in Token : AcceptCall(s, presented))]_vars
    PROVE  Inv'
<1>. USE DEF Inv, PlainType, ConfigType, LifecycleInv, StartInv, PrivilegeInv, StopInv,
             ServerInv, ExitHonest, ServesOnlyImmutable, Configured, Checked, Server,
             Running, Environment, Channel, Exit
<1>1. CASE InstallHandler
  BY <1>1 DEF InstallHandler
<1>2. CASE SendStop
  BY <1>2, SendType DEF SendStop
<1>3. CASE Signal
  <2>1. CASE signalTask = "waiting"
    BY <1>3, <2>1 DEF Signal
  <2>2. CASE signalTask \in {"none", "spawned"} /\ Exit("killed")
    BY <1>3, <2>2, LeaveEarly DEF Signal
  <2>. QED BY <1>3, <2>1, <2>2 DEF Signal
<1>4. ASSUME NEW s \in Server, Drain(s) PROVE Inv'
  BY <1>4, SeenType, ServerMoves DEF Drain, changed
<1>5. ASSUME NEW s \in Server, EndServer(s) PROVE Inv'
  BY <1>5 DEF EndServer
<1>6. CASE BindGrpc
  BY <1>6 DEF BindGrpc
<1>7. ASSUME NEW s \in Server, FinishCall(s) PROVE Inv'
  BY <1>7 DEF FinishCall
<1>8. ASSUME NEW presented \in Token, Shutdownz(presented) PROVE Inv'
  BY <1>8, SendType DEF Shutdownz
<1>9. ASSUME NEW s \in Server, NEW presented \in Token, AcceptCall(s, presented) PROVE Inv'
  BY <1>9 DEF AcceptCall
<1>10. CASE UNCHANGED vars
  BY <1>10 DEF vars
<1>. QED
  BY <1>1, <1>2, <1>3, <1>4, <1>5, <1>6, <1>7, <1>8, <1>9, <1>10
     DEF SignalTask, ServerTask

\* The invariant holds in every reachable state.
THEOREM LifecycleInvariant == Spec => [](TypeOK /\ LifecycleInv)
<1>1. Inv /\ [Next]_vars => Inv'
  BY MainStep, OtherStep DEF Next
<1>2. Inv => TypeOK /\ LifecycleInv
  BY TypeParts DEF Inv
<1>. QED BY <1>1, <1>2, InitInv, PTL DEF Spec

\* Types hold in every reachable state: no environment makes the process go on with
\* a port beyond 16 bits, a timeout of zero or an unlimited number of retries.
THEOREM LifecycleTypeCorrect == Spec => []TypeOK
  BY LifecycleInvariant, PTL

\* No process serves, publishes or verifies with a role that may change or remove
\* ledger rows, or may not read and append them.
THEOREM OnlyImmutableServed == Spec => []ServesOnlyImmutable
<1>1. LifecycleInv => ServesOnlyImmutable
  BY DEF LifecycleInv, PrivilegeInv
<1>. QED BY <1>1, LifecycleInvariant, PTL

\* The exit code is honest, in whatever order stops, signals, port conflicts and
\* calls come.
THEOREM ExitsHonestly == Spec => []ExitHonest
<1>1. LifecycleInv => ExitHonest
  BY DEF LifecycleInv
<1>. QED BY <1>1, LifecycleInvariant, PTL
====
