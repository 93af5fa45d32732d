-------------------------- MODULE ConnectionSetup --------------------------
(***************************************************************************)
(* From the input of a connection to an open link: the checks that save a  *)
(* connection (ConnectorDescriptor and each adapter's                      *)
(* validate_connection_input), the test of a saved connection, and the     *)
(* client that the adapter builds from the saved profile and secret when a *)
(* call needs it.  The checks are made in three places and written anew    *)
(* for every adapter.                                                      *)
(***************************************************************************)
EXTENDS SqlAdapters, DocumentAdapters, HttpAdapters

CONSTANTS
    Adapters,       \* the adapters of this instance
    Inputs          \* profiles and secrets that are offered

AuthKinds == {"Anonymous", "UsernamePassword", "ConnectionString", "ClientCertificate",
              "ApiKey", "BearerToken"}

\* Ports, in the order of the code: the product's own, one that somebody chose, Oracle's for TLS,
\* Splunk's for events, that of the URL's scheme, and those that DNS answers.
UsualPort == 1
ChosenPort == 2
OracleTlsPort == 3
HecPort == 4
SchemePort == 5
DnsPort == 6

(***************************************************************************)
(* A connection string, by its parts.  hosts, ports: those it names, the   *)
(* profile's host being "here".  way: hosts over TCP, a DNS record         *)
(* (mongodb+srv), or another: hostaddr or a socket (PostgreSQL), a socket  *)
(* or statements to run (MySQL), an instance (SQL Server), a socket        *)
(* (MongoDB), a SID for a service (Oracle), a path, parameters or          *)
(* credentials (CQL, Couchbase).  tls: what it says of TLS, by its scheme  *)
(* or by parameters; "trusting" waives the check of the certificate.       *)
(***************************************************************************)
Strings ==
    [hosts : SUBSET {"here", "there"}, way : {"tcp", "dns", "other"},
     ports : SUBSET {UsualPort, ChosenPort}, database : {"none", "mine", "other"},
     tls : {"unsaid", "on", "off", "trusting"}]

(***************************************************************************)
(* An input.  secret: complete, of another kind, without a field that its  *)
(* kind requires, without certificates, with a certificate that does not   *)
(* parse, or with such a key.  scheme: whether the endpoint's scheme says  *)
(* TLS, or is the DNS form of MongoDB.  port: the endpoint's, 0 if it has  *)
(* none.  parses: the driver can make sense of the endpoint (its options). *)
(* ca, client: a certificate reference is set.  serverName:                *)
(* tls.server_name, beside the host.  filled: the database and the options *)
(* that a product requires are given.  hec: the token for Splunk's event   *)
(* collector: none, the one of the management interface, its own, or one   *)
(* that no header can carry.  aside: the second host that the options      *)
(* name (Splunk's hec_endpoint, Pinecone's index_host), by its scheme.     *)
(***************************************************************************)
InputRecords ==
    [auth : AuthKinds,
     secret : {"complete", "other kind", "incomplete", "no pem", "bad pem", "bad key"},
     scheme : {"plain", "secure", "srv"}, port : {0, UsualPort, ChosenPort}, parses : BOOLEAN,
     tls : BOOLEAN, verify : BOOLEAN, ca : BOOLEAN, client : BOOLEAN,
     serverName : {"none", "same", "other"}, filled : BOOLEAN, string : Strings,
     hec : {"none", "shared", "own", "unusable"},
     aside : {"none", "plain", "secure", "invalid"}]

ASSUME SetupAssumption ==
    /\ Adapters \subseteq SqlAdapterNames \cup DocumentAdapterNames \cup SearchAdapterNames
                          \cup TimeSeriesAdapterNames
    /\ Inputs \subseteq InputRecords

VARIABLES
    adapter,
    input,          \* the saved profile and secret
    verdict,        \* of the last test
    link,           \* of the adapter's client: where it goes, once a call has made it
    data            \* of its second client: Splunk's for events, Pinecone's for data

setupVars == <<adapter, input, verdict, link, data>>

NoInput == [auth |-> "none"]

NoLink == [status |-> "none"]

Refused == [status |-> "refused"]

InUse == [status |-> "in use"]

IsHttp(a) == a \in SearchAdapterNames \cup TimeSeriesAdapterNames

ByString(i) == i.auth = "ConnectionString"

-----------------------------------------------------------------------------
(***************************************************************************)
(* ConnectorDescriptor: the checks that need nothing but the manifest.     *)
(***************************************************************************)
endpoint_hints(a) ==
    CASE a = "mongodb" -> {"plain", "srv"}
      [] a \in {"oracle", "couchbase"} \/ IsHttp(a) -> {"plain", "secure"}
      [] OTHER -> {"plain"}

\* auth_kinds of the manifests; InfluxDB is in api_mode v2.
auth_kinds(a) ==
    CASE a \in {"postgresql", "cockroachdb", "mysql"} ->
           {"UsernamePassword", "ConnectionString", "ClientCertificate"}
      [] a \in {"oracle", "sqlserver", "couchbase"} -> {"UsernamePassword", "ConnectionString"}
      [] a \in {"cql", "mongodb"} ->
           {"Anonymous", "UsernamePassword", "ConnectionString", "ClientCertificate"}
      [] a = "hbase" -> {"Anonymous"}
      [] a \in {"elasticsearch", "milvus"} -> AuthKinds \ {"ConnectionString"}
      [] a = "pinecone" -> {"ApiKey"}
      [] a = "qdrant" -> {"Anonymous", "ApiKey", "ClientCertificate"}
      [] a = "splunk" -> {"UsernamePassword", "BearerToken", "ApiKey"}
      [] a \in {"weaviate", "influxdb"} ->
           {"Anonymous", "ApiKey", "BearerToken", "ClientCertificate"}
      [] a = "prometheus" ->
           {"Anonymous", "UsernamePassword", "BearerToken", "ClientCertificate"}

\* tls_hints: the products that take a CA of the profile.
custom_ca_supported(a) == a \notin {"oracle", "sqlserver", "couchbase", "hbase"}

validate_tls_input(a, i) ==
    /\ i.tls => a # "hbase" /\ i.verify
    /\ i.ca => custom_ca_supported(a)
    /\ i.client => "ClientCertificate" \in auth_kinds(a)

\* connection_input_hints and option_hints: the database or the options that are required.
option_hints(a, i) == a = "influxdb" => i.filled

\* has_secret_field for one of the field sets of authentication_hints.
has_secret_fields(i) ==
    CASE i.auth = "Anonymous" -> TRUE
      [] i.auth = "ClientCertificate" -> i.secret \notin {"incomplete", "no pem"}
      [] OTHER -> i.secret # "incomplete"

DescriptorValidates(a, i) ==
    /\ i.scheme \in endpoint_hints(a)
    /\ option_hints(a, i)
    /\ validate_tls_input(a, i)
    /\ IsHttp(a) => (i.scheme = "secure") = i.tls
    /\ i.auth \in auth_kinds(a)
    /\ i.secret # "other kind"
    /\ i.auth = "ClientCertificate" => i.tls /\ i.client
    /\ has_secret_fields(i)

-----------------------------------------------------------------------------
(***************************************************************************)
(* What several adapters check.                                            *)
(***************************************************************************)
\* validate_tls of the relational pack; the others repeat it.
validate_tls(i) == i.tls => i.verify

\* validate_auth and the same test elsewhere: the secret is of the profile's kind.
validate_auth(i) == i.secret # "other kind"

RequiresClientIdentity(i) == i.auth = "ClientCertificate" => i.tls /\ i.client

NameIsHost(i) == i.serverName # "other"

\* The certificates that a reference names are in the secret.
tls_secret_value(i) == i.ca \/ i.client => i.secret # "no pem"

required_secret(i) == i.auth = "Anonymous" \/ i.secret # "incomplete"

\* The certificates and the key that are used parse.
PemParses(i) ==
    /\ i.ca \/ i.client => i.secret # "bad pem"
    /\ i.client => i.secret # "bad key"

ProfileDatabase(i) == IF i.filled THEN "mine" ELSE "none"

\* profile.endpoint.port().unwrap_or(...), as every adapter writes it.
endpoint_port(a, i) ==
    CASE i.scheme = "srv" -> DnsPort
      [] i.scheme # "srv" /\ i.port # 0 -> i.port
      [] OTHER -> IF IsHttp(a) THEN SchemePort
                  ELSE IF a = "oracle" /\ i.tls THEN OracleTlsPort ELSE UsualPort

\* The drivers: a host or a port that the string leaves out is the driver's own.
DriverHosts(s) == IF s.hosts = {} THEN {"local"} ELSE s.hosts

DriverPorts(s) == IF s.ports = {} THEN {UsualPort} ELSE s.ports

-----------------------------------------------------------------------------
(***************************************************************************)
(* The relational adapters.                                                *)
(***************************************************************************)
PgProfile(i) == validate_tls(i) /\ RequiresClientIdentity(i) /\ NameIsHost(i)

\* Mutant: hostaddr is not looked at.
PgTargetWithoutHostaddr(i) ==
    /\ i.string.hosts = {"here"} /\ i.string.way # "dns"
    /\ DriverPorts(i.string) = {endpoint_port("postgresql", i)}
    /\ i.string.database = ProfileDatabase(i)

\* One host over TCP, at most one port.
PgTarget(i) ==
    /\ i.string.hosts = {"here"} /\ i.string.way = "tcp"
    /\ DriverPorts(i.string) = {endpoint_port("postgresql", i)}
    /\ i.string.database = ProfileDatabase(i)

PgConfig(i) ==
    /\ required_secret(i)
    /\ ByString(i) => PgTarget(i)
    /\ i.tls => tls_secret_value(i) /\ PemParses(i)

MySqlProfile(i) == validate_tls(i) /\ RequiresClientIdentity(i)

MySqlTarget(i) ==
    /\ DriverHosts(i.string) = {"here"}
    /\ DriverPorts(i.string) = {endpoint_port("mysql", i)}
    /\ i.string.database = ProfileDatabase(i)
    /\ i.string.way = "tcp"

\* Of the certificates only the key is parsed here.
normalize_mysql_client_private_key(i) == i.client => i.secret # "bad key"

MySqlOptions(i) ==
    /\ required_secret(i)
    /\ ByString(i) => MySqlTarget(i)
    /\ i.tls => tls_secret_value(i) /\ normalize_mysql_client_private_key(i)

\* The database is the service name or the SID.
OracleProfile(i) ==
    /\ validate_tls(i) /\ ~i.ca /\ ~i.client
    /\ i.scheme = "secure" => i.tls
    /\ i.auth = "UsernamePassword" => i.filled

\* A service name that is the database; the sid option is not set here.
OracleTarget(i) ==
    /\ DriverHosts(i.string) = {"here"}
    /\ DriverPorts(i.string) = {endpoint_port("oracle", i)}
    /\ i.filled /\ i.string.way = "tcp" /\ i.string.database = "mine"

OracleConfig(i) == required_secret(i) /\ (ByString(i) => OracleTarget(i))

validate_tds_tls(i) == ~i.ca /\ ~i.client

TdsProfile(i) == validate_tls(i) /\ validate_tds_tls(i) /\ NameIsHost(i)

\* TrustServerCertificate and the like are refused.
validate_ado_auth(i) == i.string.tls # "trusting"

TdsTarget(i) ==
    /\ DriverHosts(i.string) = {"here"}
    /\ DriverPorts(i.string) = {endpoint_port("sqlserver", i)}
    /\ i.string.way = "tcp"
    /\ i.string.database = ProfileDatabase(i)

TdsConfig(i) == required_secret(i) /\ (ByString(i) => validate_ado_auth(i) /\ TdsTarget(i))

-----------------------------------------------------------------------------
(***************************************************************************)
(* The document adapters.                                                  *)
(***************************************************************************)
CqlProfile(i) == validate_tls(i) /\ RequiresClientIdentity(i)

\* The string gives the credentials; what it says of the target must agree.  Parameters, by
\* which it could say something of TLS, are refused.
CqlConnectionString(i) ==
    /\ i.string.hosts = {"here"}
    /\ DriverPorts(i.string) = {endpoint_port("cql", i)}
    /\ i.string.database = ProfileDatabase(i)
    /\ i.string.way = "tcp" /\ i.string.tls = "unsaid"

CqlTls(i) == tls_secret_value(i) /\ PemParses(i)

CqlInput(i) ==
    /\ ByString(i) => CqlConnectionString(i)
    /\ i.tls => CqlTls(i)

CqlSession(i) ==
    /\ validate_auth(i) /\ required_secret(i)
    /\ ByString(i) => CqlConnectionString(i)
    /\ i.tls => i.verify /\ NameIsHost(i) /\ CqlTls(i)

MongoProfile(i) ==
    validate_tls(i) /\ (i.serverName # "none" => ~ByString(i) /\ NameIsHost(i))

\* One seed, or one DNS name when the endpoint has one.
MongoTarget(i) ==
    /\ \/ /\ i.string.way = "tcp" /\ i.string.hosts = {"here"} /\ i.scheme = "plain"
          /\ DriverPorts(i.string) = {endpoint_port("mongodb", i)}
       \/ /\ i.string.way = "dns" /\ i.string.hosts = {"here"} /\ i.string.ports = {}
          /\ i.scheme = "srv" /\ i.port = 0
    /\ i.string.database = ProfileDatabase(i)

\* Mutant: the certificates are left to the client.
MongoInputWithoutPem(i) == ByString(i) => MongoTarget(i)

MongoInput(i) ==
    /\ ByString(i) => MongoTarget(i)
    /\ i.tls => tls_secret_value(i)

\* The files with the certificates are written; the driver parses them.
prepare_mongo_tls(i) == tls_secret_value(i)

\* ClientOptions::parse of the endpoint, which is the URI unless there is a string: its options,
\* and no port beside a DNS record.
MongoUriParses(i) == ByString(i) \/ (i.parses /\ (i.scheme = "srv" => i.port = 0))

MongoClient(i) ==
    /\ validate_auth(i) /\ required_secret(i) /\ RequiresClientIdentity(i)
    /\ ByString(i) => MongoTarget(i)
    /\ MongoUriParses(i)
    /\ i.tls => prepare_mongo_tls(i) /\ PemParses(i)

CouchbaseProfile(i) ==
    validate_tls(i) /\ ~i.ca /\ ~i.client /\ i.serverName = "none"

\* The scheme of the string is the endpoint's; the database is not part of it, a path is refused.
CouchbaseTarget(i) ==
    /\ i.string.way = "tcp" /\ i.string.database = "none"
    /\ (i.string.tls = "on") = (i.scheme = "secure")
    /\ i.string.hosts = {"here"}
    /\ i.string.ports = (IF i.port = 0 THEN {} ELSE {i.port})
    /\ i.string.tls # "trusting"

CouchbaseConnectionString(i) ==
    /\ IF ByString(i) THEN (i.string.tls = "on") = i.tls /\ CouchbaseTarget(i)
       ELSE (i.scheme = "secure") = i.tls

CouchbaseClient(i) ==
    /\ validate_auth(i) /\ required_secret(i)
    /\ CouchbaseConnectionString(i)
    /\ i.parses

HBaseProfile(i) == i.auth = "Anonymous" /\ ~i.tls

-----------------------------------------------------------------------------
(***************************************************************************)
(* The HTTP adapters: the client is built when the connection is saved,    *)
(* and again when a call needs it.                                         *)
(***************************************************************************)
http_validate_tls(i) == (i.scheme = "secure") = i.tls /\ i.verify /\ NameIsHost(i)

\* The kinds are those of the manifest; the collector of events has a token of its own.
authentication_headers(i, style) ==
    CASE style = "SplunkHec" -> i.hec \in {"shared", "own"}
      [] OTHER -> i.auth \in {"Anonymous", "ClientCertificate"} \/ required_secret(i)

HttpClient(i, style) ==
    /\ validate_auth(i)
    /\ http_validate_tls(i) /\ RequiresClientIdentity(i)
    /\ authentication_headers(i, style)
    /\ tls_secret_value(i) /\ PemParses(i)

management_client(i) == HttpClient(i, "SplunkManagement")

hec_client(i) == HttpClient(i, "SplunkHec")

\* Where events go can be said when the connection is saved.
splunk_hec_url(i) == i.aside # "invalid" /\ (i.tls => i.aside # "plain")

\* Mutant: the collector is never asked.
SplunkTestManagementOnly(i) == management_client(i)

\* The collector is asked when it has a token of its own.
SplunkTest(i) ==
    /\ management_client(i)
    /\ i.hec \in {"own", "unusable"} => hec_client(i) /\ splunk_hec_url(i)

\* http is for loopback addresses, which the endpoints here are not.
validate_pinecone_url(scheme) == scheme # "plain"

\* The host of an index, from the options or from the answer of the control plane.
validate_data_url(i, host) ==
    host # "invalid" /\ (i.tls => host # "plain") /\ validate_pinecone_url(host)

\* tls.server_name is not looked at.
TimeSeriesClient(i) ==
    /\ validate_auth(i) /\ validate_tls(i) /\ RequiresClientIdentity(i)
    /\ (i.scheme = "secure") = i.tls
    /\ tls_secret_value(i) /\ PemParses(i)

TimeSeriesAuthenticate(i) == authentication_headers(i, "Standard")

-----------------------------------------------------------------------------
\* validate_connection_input of the adapter, after the descriptor's.
Validates(a, i) ==
    CASE a \in {"postgresql", "cockroachdb"} -> PgProfile(i) /\ validate_auth(i) /\ PgConfig(i)
      [] a = "mysql" -> MySqlProfile(i) /\ validate_auth(i) /\ MySqlOptions(i)
      [] a = "oracle" -> OracleProfile(i) /\ validate_auth(i) /\ OracleConfig(i)
      [] a = "sqlserver" -> TdsProfile(i) /\ validate_auth(i) /\ TdsConfig(i)
      [] a = "cql" -> CqlProfile(i) /\ CqlInput(i)
      [] a = "mongodb" -> MongoProfile(i) /\ MongoInput(i)
      [] a = "couchbase" -> CouchbaseProfile(i) /\ CouchbaseConnectionString(i)
      [] a = "hbase" -> HBaseProfile(i) /\ validate_auth(i)
      [] a = "splunk" -> management_client(i) /\ splunk_hec_url(i)
      [] a = "pinecone" -> validate_pinecone_url(i.scheme) /\ HttpClient(i, "RequiredApiKeyHeader")
      [] a \in TimeSeriesAdapterNames -> TimeSeriesClient(i) /\ TimeSeriesAuthenticate(i)
      [] OTHER -> HttpClient(i, "Standard")

\* The checks on the way to a client, when a call needs one; the last one is the driver's.
Connects(a, i) ==
    CASE a = "cql" -> CqlProfile(i) /\ CqlSession(i)
      [] a = "mongodb" -> MongoProfile(i) /\ MongoClient(i)
      [] a = "couchbase" -> CouchbaseProfile(i) /\ CouchbaseClient(i)
      [] a = "mysql" -> Validates(a, i) /\ (i.tls => PemParses(i))
      [] a = "splunk" -> management_client(i)
      [] OTHER -> Validates(a, i)

Tests(a, i) == IF a = "splunk" THEN SplunkTest(i) ELSE Connects(a, i)

(***************************************************************************)
(* Where a driver goes.  It takes a connection string as it is, but for    *)
(* TLS, which every adapter sets from the profile; the one of CQL gives    *)
(* credentials only.  Couchbase and the HTTP clients use TLS when the      *)
(* scheme says so.  A server name other than the host is passed on by two  *)
(* adapters.  A trusting string is what the driver of SQL Server keeps.  A *)
(* driver that knows clusters goes on from here.                           *)
(***************************************************************************)
Reached(a, i) ==
    LET s == i.string
        given == ByString(i) /\ a # "cql"
        tls == IF a = "couchbase" /\ given THEN s.tls = "on"
               ELSE IF a = "couchbase" \/ IsHttp(a) THEN i.scheme = "secure" ELSE i.tls
    IN  [status |-> "open",
         hosts |-> IF ~given THEN {"here"}
                   ELSE IF s.way = "other" /\ a # "oracle" THEN {"elsewhere"} ELSE DriverHosts(s),
         ports |-> IF ~given THEN {endpoint_port(a, i)}
                   ELSE IF s.way = "dns" THEN {DnsPort} ELSE DriverPorts(s),
         database |-> IF ~given \/ a = "couchbase" THEN ProfileDatabase(i)
                      ELSE IF s.way = "other" /\ a = "oracle" THEN "other" ELSE s.database,
         tls |-> tls,
         verified |-> ~(a = "sqlserver" /\ given /\ s.tls = "trusting"),
         name |-> IF tls /\ i.serverName = "other" /\ a \in {"mysql", "oracle"}
                  THEN "other" ELSE "host"]

\* Events go to hec_endpoint, or to the endpoint with another port.
splunk_hec_api_url(i) ==
    [status |-> "open",
     hosts |-> IF i.aside = "none" THEN {"here"} ELSE {"aside"},
     ports |-> {CASE i.aside # "none" -> SchemePort
                  [] i.aside = "none" /\ i.port = UsualPort -> HecPort
                  [] OTHER -> endpoint_port("splunk", i)},
     tls |-> IF i.aside = "none" THEN i.scheme = "secure" ELSE i.aside = "secure"]

\* data_url of Pinecone: the option, or what the control plane answers.
data_url(host) ==
    [status |-> "open", hosts |-> {"aside"}, ports |-> {SchemePort}, tls |-> host = "secure"]

-----------------------------------------------------------------------------
SetupInit ==
    /\ adapter \in Adapters
    /\ input = NoInput /\ verdict = "none" /\ link = NoLink /\ data = NoLink

\* A connection is saved; a refused one leaves nothing.
Save(i) ==
    /\ DescriptorValidates(adapter, i) /\ Validates(adapter, i)
    /\ input' = i
    /\ UNCHANGED <<adapter, verdict, link, data>>

\* What a test makes of the server's answer is left open.
Test ==
    /\ link = NoLink /\ data = NoLink /\ input # NoInput /\ verdict = "none"
    /\ IF Tests(adapter, input) THEN verdict' \in {"ok", "failed"} ELSE verdict' = "refused"
    /\ UNCHANGED <<adapter, input, link, data>>

\* The first call of the connection.
Open ==
    /\ link = NoLink /\ input # NoInput
    /\ link' = IF Connects(adapter, input) THEN Reached(adapter, input) ELSE Refused
    /\ UNCHANGED <<adapter, input, verdict, data>>

\* The first insert of events.
OpenHec ==
    /\ adapter = "splunk" /\ data = NoLink /\ input # NoInput
    /\ data' = IF splunk_hec_url(input) /\ hec_client(input) THEN splunk_hec_api_url(input)
               ELSE Refused
    /\ UNCHANGED <<adapter, input, verdict, link>>

\* The first call for an index: with its host among the options, or answered.
OpenIndex ==
    /\ adapter = "pinecone" /\ data = NoLink /\ input # NoInput
    /\ \E host \in IF input.aside = "none" THEN {"plain", "secure", "invalid"} ELSE {input.aside} :
         data' = IF Connects(adapter, input) /\ validate_data_url(input, host) THEN data_url(host)
                 ELSE Refused
    /\ UNCHANGED <<adapter, input, verdict, link>>

SetupNext ==
    \/ link = NoLink /\ data = NoLink /\ input = NoInput /\ \E i \in Inputs : Save(i)
    \/ Test
    \/ Open
    \/ OpenHec
    \/ OpenIndex

\* What follows on an open link depends on the adapter only.
SetupDone ==
    /\ link.status = "open" /\ link' = InUse
    /\ input' = NoInput /\ verdict' = "none" /\ data' = NoLink
    /\ adapter' = adapter

-----------------------------------------------------------------------------
SetupTypeOK ==
    /\ adapter \in Adapters
    /\ input = NoInput \/ input \in Inputs
    /\ verdict \in {"none", "ok", "failed", "refused"}
    /\ link.status \in {"none", "refused", "open", "in use"}
    /\ data.status \in {"none", "refused", "open"}

SavedName(i) == IF i.tls /\ i.serverName = "other" THEN "other" ELSE "host"

\* What the profile says of a link, with the name that the certificate must have.
AsSaved(a, i, name) ==
    [status |-> "open", hosts |-> {"here"}, ports |-> {endpoint_port(a, i)},
     database |-> ProfileDatabase(i), tls |-> i.tls, verified |-> TRUE,
     name |-> name]

(***************************************************************************)
(* A link goes to the host, the port and the database of the saved         *)
(* profile, with its TLS and for its server name, whatever hosts, ports    *)
(* and parameters a connection string has (validate_connection_string_     *)
(* target of each adapter).  The time-series clients check the             *)
(* certificate for the host and do not look at tls.server_name.  The       *)
(* second clients use TLS when the profile does, and leave its host only   *)
(* for one that the options (hec_endpoint, index_host) or, for Pinecone,   *)
(* the control plane names.                                                *)
(***************************************************************************)
ConnectsAsSaved ==
    /\ link.status = "open" =>
         \/ link = AsSaved(adapter, input, SavedName(input))
         \/ /\ adapter \in TimeSeriesAdapterNames /\ input.serverName = "other"
            /\ link = AsSaved(adapter, input, "host")
    /\ data.status = "open" =>
         /\ input.tls => data.tls
         /\ data.hosts = {"here"} \/ adapter = "pinecone" \/ input.aside # "none"

\* What only connecting finds: a server name that the driver of CQL cannot take, certificates
\* that MongoDB and MySQL leave to the driver, an endpoint that the driver does not parse.
FoundByDriver(a, i) ==
    \/ a = "cql" /\ i.tls /\ i.serverName = "other"
    \/ a \in {"mysql", "mongodb"} /\ i.tls /\ i.secret = "bad pem"
    \/ a = "mongodb" /\ i.tls /\ i.secret = "bad key"
    \/ a = "mongodb" /\ i.scheme = "srv" /\ i.port # 0
    \/ a \in {"mongodb", "couchbase"} /\ ~i.parses

(***************************************************************************)
(* What was accepted when it was saved is not refused when a call or a     *)
(* test builds the client, but for what only connecting finds: the checks  *)
(* of validate_connection_input are no weaker than those of connecting.  A *)
(* connection to Splunk may have no token for events and be refused by an  *)
(* insert alone; the host of a Pinecone index is looked at when it is      *)
(* used.                                                                   *)
(***************************************************************************)
SavedIsUsable ==
    /\ link.status = "refused" => FoundByDriver(adapter, input)
    /\ data.status = "refused" =>
         \/ adapter = "splunk" /\ input.hec \in {"none", "unusable"}
         \/ adapter = "pinecone" /\ input.aside # "secure"
    /\ verdict = "refused" => \/ FoundByDriver(adapter, input)
                              \/ adapter = "splunk" /\ input.hec = "unusable"

(***************************************************************************)
(* After a test that succeeded no call is refused for what was saved, but  *)
(* an insert into Splunk without any token for events (of which the test   *)
(* warns) and a call for a Pinecone index whose host does not pass.        *)
(***************************************************************************)
TestedIsUsable ==
    verdict = "ok" =>
        /\ link.status # "refused"
        /\ data.status = "refused" => \/ adapter = "splunk" /\ input.hec = "none"
                                      \/ adapter = "pinecone" /\ input.aside # "secure"
=============================================================================
