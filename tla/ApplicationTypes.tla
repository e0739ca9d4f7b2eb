--------------------------- MODULE ApplicationTypes ---------------------------
(***************************************************************************)
(* The application-type tables (src/model/application_types.go): the      *)
(* classification switches and Weight, InstrumentationType, AuditReport.  *)
(* An ApplicationType is a string from the container_application_type     *)
(* label, so the input domain is the declared constants plus strings no    *)
(* switch names.                                                           *)
(***************************************************************************)
EXTENDS Naturals, FiniteSets

\* The ApplicationType constants.
ApplicationTypes ==
    {"", "postgres", "pgbouncer", "mysql", "cassandra", "elasticsearch", "opensearch",
     "memcached", "redis", "keydb", "valkey", "dragonfly", "mongodb", "mongos",
     "rabbitmq", "kafka", "zookeeper", "aws-rds", "aws-elasticache", "nats", "dotnet",
     "golang", "php", "java", "nodejs", "python", "ruby", "envoy", "prometheus",
     "victoria-metrics", "victoria-logs", "clickhouse", "foundationdb",
     "coroot-community-edition", "coroot-enterprise-edition"}

\* Label values no constant names.
OtherTypes == {"kube-proxy", "custom"}

Databases ==
    {"cassandra", "memcached", "zookeeper", "elasticsearch", "opensearch", "postgres",
     "mysql", "redis", "keydb", "valkey", "dragonfly", "mongodb", "prometheus",
     "victoria-metrics", "victoria-logs", "clickhouse", "foundationdb"}

\* Mutant: kafka also listed among the databases.
IsDatabaseWithKafka(at) == at \in Databases \cup {"kafka"}

IsDatabase(at) == at \in Databases

IsQueue(at) == at \in {"kafka", "rabbitmq", "nats"}

IsLanguage(at) == at \in {"golang", "dotnet", "php", "java", "nodejs", "python", "ruby"}

\* Weight: the first matching case of the switch.
Weight(at) ==
    CASE IsDatabase(at) -> 1
      [] ~IsDatabase(at) /\ IsQueue(at) -> 2
      [] ~IsDatabase(at) /\ ~IsQueue(at) /\ IsLanguage(at) -> 4
      [] ~IsDatabase(at) /\ ~IsQueue(at) /\ ~IsLanguage(at) /\ at = "envoy" -> 5
      [] OTHER -> 3

InstrumentationType(at) ==
    CASE at = "mongos" -> "mongodb"
      [] at \in {"valkey", "keydb", "dragonfly"} -> "redis"
      [] OTHER -> at

\* Mutant: the redis report only for "redis" itself.
AuditReportRedisOnly(at) ==
    CASE at = "postgres" -> "postgres"
      [] at = "mysql" -> "mysql"
      [] at = "redis" -> "redis"
      [] at \in {"mongodb", "mongos"} -> "mongodb"
      [] at = "memcached" -> "memcached"
      [] at = "java" -> "jvm"
      [] at = "dotnet" -> "dotnet"
      [] at = "python" -> "python"
      [] at = "nodejs" -> "nodejs"
      [] OTHER -> ""

\* AuditReport; the AuditReportName values are named by their report.
AuditReport(at) ==
    CASE at = "postgres" -> "postgres"
      [] at = "mysql" -> "mysql"
      [] at \in {"redis", "keydb", "valkey", "dragonfly"} -> "redis"
      [] at \in {"mongodb", "mongos"} -> "mongodb"
      [] at = "memcached" -> "memcached"
      [] at = "java" -> "jvm"
      [] at = "dotnet" -> "dotnet"
      [] at = "python" -> "python"
      [] at = "nodejs" -> "nodejs"
      [] OTHER -> ""

(***************************************************************************)
(* A container reports its type in the container_application_type label;  *)
(* observed is the type last reported.                                      *)
(***************************************************************************)

AllTypes == ApplicationTypes \cup OtherTypes

VARIABLE observed

ObserveInit == observed \in AllTypes

\* A container reports another type.
Observe == observed' \in AllTypes

ObserveSpec == ObserveInit /\ [][Observe]_observed

(***************************************************************************)
(* Properties.                                                             *)
(***************************************************************************)

\* Weight is the weight of a type's class, whatever the order of the
\* switch: the database, queue and language lists and envoy never
\* overlap, so no type is silently weighted by the first case it meets.
WeightOfClass ==
    LET at == observed
        classes == {c \in {"database", "queue", "language", "envoy"} :
                      \/ c = "database" /\ IsDatabase(at)
                      \/ c = "queue" /\ IsQueue(at)
                      \/ c = "language" /\ IsLanguage(at)
                      \/ c = "envoy" /\ at = "envoy"}
        weightOf == [database |-> 1, queue |-> 2, language |-> 4, envoy |-> 5]
    IN /\ Cardinality(classes) <= 1
       /\ Weight(at) = IF classes = {} THEN 3 ELSE weightOf[CHOOSE c \in classes : TRUE]

\* A type that is instrumented as another (mongos as mongodb, valkey, keydb
\* and dragonfly as redis) gets that type's audit report.
AuditFollowsInstrumentation ==
    AuditReport(observed) = AuditReport(InstrumentationType(observed))

=============================================================================
