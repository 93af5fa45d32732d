------------------------ MODULE AdapterSessionProofs ------------------------
(***************************************************************************)
(* Theorems about AdapterSession: what is saved can be used and leads      *)
(* where it says, for every adapter and every input; and a schema          *)
(* inspection that was cancelled does not succeed, for every number of     *)
(* inspections, cancellations and other calls.  Then reading page by page: *)
(* traversals are complete, answers keep the limits and cursors lead on,   *)
(* for every table, every limit and any number of sessions.                *)
(***************************************************************************)
EXTENDS AdapterSession, TLAPS, WellFoundedInduction, FiniteSetTheorems, SequenceTheorems

(***************************************************************************)
(* Setting up a connection.  The checks are pure; what they have to do     *)
(* with each other is said once, for every adapter.                        *)
(***************************************************************************)
Accepted(a, i) == DescriptorValidates(a, i) /\ Validates(a, i)

AllNames ==
    SqlAdapterNames \cup DocumentAdapterNames \cup SearchAdapterNames \cup TimeSeriesAdapterNames

\* What an adapter accepts it also connects with, but for what only connecting finds.
LEMMA AcceptedConnects ==
  ASSUME NEW a \in AllNames, NEW i \in InputRecords, Accepted(a, i), ~FoundByDriver(a, i)
  PROVE  Connects(a, i)
<1>1. validate_auth(i) /\ required_secret(i) /\ RequiresClientIdentity(i)
  BY DEF Accepted, DescriptorValidates, validate_auth, required_secret, has_secret_fields,
         RequiresClientIdentity, InputRecords
<1>2. CASE a = "mongodb"
  <2>1. MongoProfile(i) /\ MongoInput(i)
    BY <1>2 DEF Accepted, Validates, TimeSeriesAdapterNames
  <2>2. MongoUriParses(i) /\ (i.tls => PemParses(i))
    BY <1>2 DEF FoundByDriver, MongoUriParses, PemParses, InputRecords
  <2> QED
    BY <1>1, <1>2, <2>1, <2>2 DEF Connects, MongoInput, MongoClient, prepare_mongo_tls
<1>3. CASE a = "couchbase"
  <2>1. CouchbaseProfile(i) /\ CouchbaseConnectionString(i)
    BY <1>3 DEF Accepted, Validates, TimeSeriesAdapterNames
  <2>2. i.parses
    BY <1>3 DEF FoundByDriver
  <2> QED
    BY <1>1, <1>3, <2>1, <2>2 DEF Connects, CouchbaseClient
<1>4. CASE a = "cql"
  <2>1. CqlProfile(i) /\ CqlInput(i)
    BY <1>4 DEF Accepted, Validates, TimeSeriesAdapterNames
  <2>2. i.tls => NameIsHost(i)
    BY <1>4 DEF FoundByDriver, NameIsHost
  <2> QED
    BY <1>1, <1>4, <2>1, <2>2 DEF Connects, CqlSession, CqlInput, CqlProfile, validate_tls
<1>5. CASE a = "mysql"
  <2>1. Validates(a, i) /\ (i.tls => normalize_mysql_client_private_key(i))
    BY <1>5 DEF Accepted, Validates, MySqlOptions, TimeSeriesAdapterNames
  <2>2. i.tls => PemParses(i)
    BY <1>5, <2>1 DEF FoundByDriver, PemParses, normalize_mysql_client_private_key
  <2> QED
    BY <1>5, <2>1, <2>2 DEF Connects
<1>6. CASE a = "splunk"
  BY <1>6 DEF Accepted, Validates, Connects, TimeSeriesAdapterNames
<1>7. CASE a \notin {"cql", "mongodb", "couchbase", "mysql", "splunk"}
  BY <1>7 DEF Accepted, Connects
<1> QED
  BY <1>2, <1>3, <1>4, <1>5, <1>6, <1>7

\* The second client of Splunk is refused for want of a token only.
LEMMA AcceptedSplunk ==
  ASSUME NEW i \in InputRecords, Accepted("splunk", i)
  PROVE  /\ splunk_hec_url(i) /\ (i.scheme = "secure") = i.tls
         /\ i.hec \in {"shared", "own"} => hec_client(i)
<1>1. management_client(i) /\ splunk_hec_url(i)
  BY DEF Accepted, Validates, TimeSeriesAdapterNames
<1> QED
  BY <1>1 DEF management_client, hec_client, HttpClient, http_validate_tls,
              authentication_headers, InputRecords

LEMMA AcceptedTests ==
  ASSUME NEW a \in AllNames, NEW i \in InputRecords, Accepted(a, i), ~FoundByDriver(a, i),
         a = "splunk" => i.hec # "unusable"
  PROVE  Tests(a, i)
<1>1. Connects(a, i)
  BY AcceptedConnects
<1>2. CASE a = "splunk"
  BY <1>1, <1>2, AcceptedSplunk DEF Tests, SplunkTest, Connects
<1> QED
  BY <1>1, <1>2 DEF Tests

\* A test builds what a call builds.
LEMMA TestsConnect ==
  ASSUME NEW a, NEW i, Tests(a, i)
  PROVE  /\ Connects(a, i)
         /\ a = "splunk" /\ i.hec = "unusable" => hec_client(i)
BY DEF Tests, SplunkTest, Connects

\* A string that passes the comparison with the profile leads the driver where the profile
\* says.
LEMMA StringLeads ==
  ASSUME NEW a \in AllNames, NEW i \in InputRecords, Accepted(a, i), ByString(i), a # "cql"
  PROVE  LET r == Reached(a, i) IN
         /\ r.hosts = {"here"} /\ r.ports = {endpoint_port(a, i)}
         /\ r.database = ProfileDatabase(i)
         /\ a # "couchbase" => r.tls = i.tls
         /\ a = "couchbase" => r.tls = (i.string.tls = "on")
         /\ r.verified
<1>0. /\ a \in {"postgresql", "cockroachdb", "mysql", "oracle", "sqlserver", "mongodb",
                "couchbase"}
      /\ i.scheme = "srv" => a = "mongodb"
      /\ ~IsHttp(a) /\ i.tls \in BOOLEAN
  <2>1. i.auth = "ConnectionString" /\ i.auth \in auth_kinds(a) /\ i.scheme \in endpoint_hints(a)
    BY DEF Accepted, DescriptorValidates, ByString
  <2>2. a \in {"postgresql", "cockroachdb", "mysql", "oracle", "sqlserver", "cql", "mongodb",
               "couchbase"}
    BY <2>1 DEF auth_kinds, AllNames, SqlAdapterNames, DocumentAdapterNames, SearchAdapterNames,
                TimeSeriesAdapterNames, AuthKinds
  <2>3. ~IsHttp(a)
    BY <2>2 DEF IsHttp, SearchAdapterNames, TimeSeriesAdapterNames
  <2>4. i.scheme = "srv" => a = "mongodb"
    BY <2>1, <2>2, <2>3 DEF endpoint_hints
  <2> QED
    BY <2>2, <2>3, <2>4 DEF InputRecords
<1>1. CASE a \in {"postgresql", "cockroachdb"}
  <2>1. PgTarget(i)
    BY <1>1 DEF Accepted, Validates, PgConfig, TimeSeriesAdapterNames
  <2>2. endpoint_port("postgresql", i) = endpoint_port(a, i)
    BY <1>0, <1>1 DEF endpoint_port, IsHttp, SearchAdapterNames, TimeSeriesAdapterNames
  <2> QED
    BY <1>0, <1>1, <2>1, <2>2 DEF PgTarget, Reached, DriverHosts
<1>2. CASE a = "mysql"
  <2>1. MySqlTarget(i)
    BY <1>2 DEF Accepted, Validates, MySqlOptions, TimeSeriesAdapterNames
  <2> QED
    BY <1>0, <1>2, <2>1 DEF MySqlTarget, Reached
<1>3. CASE a = "oracle"
  <2>1. OracleTarget(i)
    BY <1>3 DEF Accepted, Validates, OracleConfig, TimeSeriesAdapterNames
  <2> QED
    BY <1>0, <1>3, <2>1 DEF OracleTarget, Reached, ProfileDatabase
<1>4. CASE a = "sqlserver"
  <2>1. TdsTarget(i) /\ validate_ado_auth(i)
    BY <1>4 DEF Accepted, Validates, TdsConfig, TimeSeriesAdapterNames
  <2> QED
    BY <1>0, <1>4, <2>1 DEF TdsTarget, validate_ado_auth, Reached
<1>5. CASE a = "mongodb"
  <2>1. MongoTarget(i)
    BY <1>5 DEF Accepted, Validates, MongoInput, TimeSeriesAdapterNames
  <2>2. i.scheme = "srv" => endpoint_port(a, i) = DnsPort
    BY DEF endpoint_port
  <2>3. CASE i.string.way = "tcp"
    BY <1>0, <1>5, <2>1, <2>3 DEF MongoTarget, Reached, DriverHosts
  <2>4. CASE i.string.way = "dns"
    BY <1>0, <1>5, <2>1, <2>2, <2>4 DEF MongoTarget, Reached, DriverHosts
  <2> QED
    BY <2>1, <2>3, <2>4 DEF MongoTarget
<1>6. CASE a = "couchbase"
  <2>1. CouchbaseTarget(i)
    BY <1>6 DEF Accepted, Validates, CouchbaseConnectionString, TimeSeriesAdapterNames
  <2>2. DriverPorts(i.string) = {endpoint_port(a, i)}
    BY <1>0, <1>6, <2>1 DEF CouchbaseTarget, DriverPorts, endpoint_port, IsHttp, InputRecords,
                            SearchAdapterNames, TimeSeriesAdapterNames
  <2> QED
    BY <1>0, <1>6, <2>1, <2>2 DEF CouchbaseTarget, Reached, DriverHosts
<1> QED
  BY <1>0, <1>1, <1>2, <1>3, <1>4, <1>5, <1>6

\* Without a string, and for CQL, the driver gets the profile's endpoint.
LEMMA ProfileLeads ==
  ASSUME NEW a, NEW i \in InputRecords, ~(ByString(i) /\ a # "cql")
  PROVE  LET r == Reached(a, i) IN
         /\ r.hosts = {"here"} /\ r.ports = {endpoint_port(a, i)}
         /\ r.database = ProfileDatabase(i) /\ r.verified
         /\ r.tls = IF a = "couchbase" \/ IsHttp(a) THEN i.scheme = "secure" ELSE i.tls
BY DEF Reached

\* The scheme says TLS when the profile does.
LEMMA TlsAsSaved ==
  ASSUME NEW a \in AllNames, NEW i \in InputRecords, Accepted(a, i)
  PROVE  Reached(a, i).tls = i.tls
<1>1. CASE a = "couchbase"
  <2>1. CouchbaseConnectionString(i)
    BY <1>1 DEF Accepted, Validates, TimeSeriesAdapterNames
  <2> QED
    BY <1>1, <2>1 DEF CouchbaseConnectionString, Reached
<1>2. CASE IsHttp(a)
  <2>1. (i.scheme = "secure") = i.tls
    BY <1>2 DEF Accepted, DescriptorValidates
  <2> QED
    BY <1>2, <2>1 DEF Reached, IsHttp, SearchAdapterNames, TimeSeriesAdapterNames
<1>3. CASE a # "couchbase" /\ ~IsHttp(a)
  BY <1>3 DEF Reached
<1> QED
  BY <1>1, <1>2, <1>3

\* A server name other than the host is passed on or refused, but for the time-series clients.
LEMMA NameAsSaved ==
  ASSUME NEW a \in AllNames, NEW i \in InputRecords, Accepted(a, i), Connects(a, i), i.tls,
         i.serverName = "other"
  PROVE  a \in {"mysql", "oracle"} \cup TimeSeriesAdapterNames
<1> USE DEF NameIsHost
<1>1. CASE a \in {"postgresql", "cockroachdb", "sqlserver", "mongodb", "couchbase", "hbase"}
  BY <1>1 DEF Accepted, Validates, PgProfile, TdsProfile, MongoProfile, CouchbaseProfile,
              HBaseProfile, TimeSeriesAdapterNames
<1>2. CASE a = "cql"
  BY <1>2 DEF Connects, CqlSession
<1>3. CASE a \in SearchAdapterNames
  <2>1. \E style : HttpClient(i, style)
    BY <1>3 DEF Accepted, Validates, management_client, SearchAdapterNames, TimeSeriesAdapterNames
  <2> QED
    BY <2>1 DEF HttpClient, http_validate_tls
<1> QED
  BY <1>1, <1>2, <1>3 DEF AllNames, SqlAdapterNames, DocumentAdapterNames

\* A link that an accepted input opens goes where the profile says.
LEMMA AcceptedReaches ==
  ASSUME NEW a \in AllNames, NEW i \in InputRecords, Accepted(a, i), Connects(a, i)
  PROVE  \/ Reached(a, i) = AsSaved(a, i, SavedName(i))
         \/ /\ a \in TimeSeriesAdapterNames /\ i.serverName = "other"
            /\ Reached(a, i) = AsSaved(a, i, "host")
<1> DEFINE r == Reached(a, i)
<1>1. /\ r.hosts = {"here"} /\ r.ports = {endpoint_port(a, i)}
      /\ r.database = ProfileDatabase(i) /\ r.verified
  <2>1. CASE ByString(i) /\ a # "cql"
    BY <2>1, StringLeads
  <2>2. CASE ~(ByString(i) /\ a # "cql")
    BY <2>2, ProfileLeads
  <2> QED
    BY <2>1, <2>2
<1>2. r.tls = i.tls
  BY TlsAsSaved
<1>3. r = [status |-> "open", hosts |-> {"here"}, ports |-> {endpoint_port(a, i)},
           database |-> ProfileDatabase(i), tls |-> i.tls, verified |-> TRUE, name |-> r.name]
  <2>1. r = [status |-> r.status, hosts |-> r.hosts, ports |-> r.ports, database |-> r.database,
             tls |-> r.tls, verified |-> r.verified, name |-> r.name] /\ r.status = "open"
    BY DEF Reached
  <2> QED
    BY <1>1, <1>2, <2>1
<1>4. r.name = IF r.tls /\ i.serverName = "other" /\ a \in {"mysql", "oracle"}
               THEN "other" ELSE "host"
  BY DEF Reached
<1>5. r = AsSaved(a, i, r.name)
  BY <1>3 DEF AsSaved
<1> HIDE DEF r
<1>6. CASE i.tls /\ i.serverName = "other" /\ a \notin {"mysql", "oracle"}
  <2>1. a \in TimeSeriesAdapterNames
    BY <1>6, NameAsSaved
  <2>2. r.name = "host"
    BY <1>4, <1>6
  <2> QED
    BY <1>5, <1>6, <2>1, <2>2 DEF r
<1>7. CASE ~(i.tls /\ i.serverName = "other" /\ a \notin {"mysql", "oracle"})
  <2>1. r.name = SavedName(i)
    BY <1>2, <1>4, <1>7 DEF SavedName
  <2> QED
    BY <1>5, <2>1 DEF r
<1> QED
  BY <1>6, <1>7

\* What is saved was accepted, and a test that succeeded has built the client.
SetupInv ==
    /\ adapter \in AllNames
    /\ input # NoInput => input \in InputRecords /\ Accepted(adapter, input)
    /\ input = NoInput => verdict = "none" /\ link \in {NoLink, InUse} /\ data = NoLink
    /\ verdict = "ok" => Tests(adapter, input)
    /\ ConnectsAsSaved /\ SavedIsUsable /\ TestedIsUsable

LEMMA SetupStep == SetupInv /\ [Next]_vars => SetupInv'
<1> SUFFICES ASSUME SetupInv, [Next]_vars PROVE SetupInv'
  OBVIOUS
<1> USE DEF SetupInv
<1>0. NoLink.status = "none" /\ InUse.status = "in use" /\ Refused.status = "refused"
  BY DEF NoLink, InUse, Refused
<1>1. CASE UNCHANGED setupVars
  BY <1>1 DEF setupVars, ConnectsAsSaved, SavedIsUsable, TestedIsUsable
<1>2. ASSUME NEW i \in Inputs, Save(i), link = NoLink, data = NoLink, input = NoInput
      PROVE  SetupInv'
  <2>1. i \in InputRecords /\ Accepted(adapter, i)
    BY <1>2, SetupAssumption DEF Save, Accepted
  <2>2. input' = i /\ verdict' = "none" /\ link' = NoLink /\ data' = NoLink /\ adapter' = adapter
    BY <1>2 DEF Save
  <2> QED
    BY <1>0, <2>1, <2>2 DEF ConnectsAsSaved, SavedIsUsable, TestedIsUsable
<1>3. CASE Test
  <2>1. UNCHANGED <<adapter, input, link, data>> /\ input # NoInput /\ link = NoLink /\ data = NoLink
    BY <1>3 DEF Test
  <2>2. /\ verdict' = "ok" => Tests(adapter, input)
        /\ verdict' = "refused" => ~Tests(adapter, input)
    BY <1>3 DEF Test
  <2>3. verdict' = "refused" => \/ FoundByDriver(adapter, input)
                                \/ adapter = "splunk" /\ input.hec = "unusable"
    BY <2>1, <2>2, AcceptedTests
  <2> QED
    BY <1>0, <2>1, <2>2, <2>3 DEF ConnectsAsSaved, SavedIsUsable, TestedIsUsable
<1>4. CASE Open
  <2>1. UNCHANGED <<adapter, input, verdict, data>> /\ input # NoInput
    BY <1>4 DEF Open
  <2>2. link' = IF Connects(adapter, input) THEN Reached(adapter, input) ELSE Refused
    BY <1>4 DEF Open
  <2>3. CASE Connects(adapter, input)
    <3>1. link'.status = "open"
      BY <2>2, <2>3 DEF Reached
    <3>2. \/ link' = AsSaved(adapter, input, SavedName(input))
          \/ /\ adapter \in TimeSeriesAdapterNames /\ input.serverName = "other"
             /\ link' = AsSaved(adapter, input, "host")
      BY <2>1, <2>2, <2>3, AcceptedReaches
    <3>3. ConnectsAsSaved'
      BY <2>1, <3>2 DEF ConnectsAsSaved
    <3> QED
      BY <2>1, <3>1, <3>3 DEF SavedIsUsable, TestedIsUsable
  <2>4. CASE ~Connects(adapter, input)
    <3>1. link'.status = "refused"
      BY <1>0, <2>2, <2>4
    <3>2. FoundByDriver(adapter, input)
      BY <2>1, <2>4, AcceptedConnects
    <3>3. verdict # "ok"
      BY <2>4, TestsConnect
    <3> QED
      BY <2>1, <3>1, <3>2, <3>3 DEF ConnectsAsSaved, SavedIsUsable, TestedIsUsable
  <2> QED
    BY <2>3, <2>4
<1>5. CASE OpenHec
  <2>1. UNCHANGED <<adapter, input, verdict, link>> /\ input # NoInput /\ adapter = "splunk"
    BY <1>5 DEF OpenHec
  <2>2. data' = IF splunk_hec_url(input) /\ hec_client(input) THEN splunk_hec_api_url(input)
                ELSE Refused
    BY <1>5 DEF OpenHec
  <2>3. /\ splunk_hec_url(input) /\ (input.scheme = "secure") = input.tls
        /\ input.hec \in {"shared", "own"} => hec_client(input)
    BY <2>1, AcceptedSplunk
  <2>4. CASE hec_client(input)
    <3>1. data' = splunk_hec_api_url(input)
      BY <2>2, <2>3, <2>4
    <3>2. data'.status = "open"
      BY <3>1 DEF splunk_hec_api_url
    <3>3. /\ input.tls => data'.tls
          /\ data'.hosts = {"here"} \/ input.aside # "none"
      BY <2>1, <2>3, <3>1 DEF splunk_hec_api_url, splunk_hec_url, InputRecords
    <3>4. ConnectsAsSaved'
      BY <2>1, <3>3 DEF ConnectsAsSaved
    <3> QED
      BY <2>1, <3>2, <3>4 DEF SavedIsUsable, TestedIsUsable
  <2>5. CASE ~hec_client(input)
    <3>1. data'.status = "refused"
      BY <1>0, <2>2, <2>5
    <3>2. input.hec \in {"none", "unusable"}
      BY <2>1, <2>3, <2>5 DEF InputRecords
    <3>3. verdict = "ok" => input.hec # "unusable"
      BY <2>1, <2>5, TestsConnect
    <3> QED
      BY <2>1, <3>1, <3>2, <3>3 DEF ConnectsAsSaved, SavedIsUsable, TestedIsUsable
  <2> QED
    BY <2>4, <2>5
<1>6. CASE OpenIndex
  <2>1. UNCHANGED <<adapter, input, verdict, link>> /\ input # NoInput /\ adapter = "pinecone"
    BY <1>6 DEF OpenIndex
  <2>2. PICK host \in IF input.aside = "none" THEN {"plain", "secure", "invalid"}
                      ELSE {input.aside} :
              data' = IF Connects(adapter, input) /\ validate_data_url(input, host)
                      THEN data_url(host) ELSE Refused
    BY <1>6 DEF OpenIndex
  <2>3. Connects(adapter, input)
    BY <2>1, AcceptedConnects DEF FoundByDriver
  <2>4. CASE validate_data_url(input, host)
    <3>1. data'.status = "open" /\ data'.tls = (host = "secure")
      BY <2>2, <2>3, <2>4 DEF data_url
    <3>2. input.aside = "none" => host \in {"plain", "secure", "invalid"}
      BY <2>2
    <3>3. input.tls => data'.tls
      BY <2>1, <2>2, <2>4, <3>1, <3>2 DEF validate_data_url, InputRecords
    <3> QED
      BY <2>1, <3>1, <3>3 DEF ConnectsAsSaved, SavedIsUsable, TestedIsUsable
  <2>5. CASE ~validate_data_url(input, host)
    <3>1. data'.status = "refused"
      BY <1>0, <2>2, <2>5
    <3>2. input.aside # "secure"
      BY <2>2, <2>5 DEF validate_data_url, validate_pinecone_url
    <3> QED
      BY <2>1, <3>1, <3>2 DEF ConnectsAsSaved, SavedIsUsable, TestedIsUsable
  <2> QED
    BY <2>4, <2>5
<1>7. CASE Use
  BY <1>0, <1>7 DEF Use, SetupDone, ConnectsAsSaved, SavedIsUsable, TestedIsUsable
<1> QED
  BY <1>1, <1>2, <1>3, <1>4, <1>5, <1>6, <1>7 DEF Next, SetupNext, vars

LEMMA SetupAlways == Spec => []SetupInv
<1>1. Init => SetupInv
  BY SetupAssumption
     DEF Init, SetupInit, SetupInv, AllNames, NoLink, ConnectsAsSaved, SavedIsUsable,
         TestedIsUsable
<1> QED
  BY <1>1, SetupStep, PTL DEF Spec

\* A connection string cannot lead elsewhere: the link of every adapter goes to the host, the
\* port and the database of the saved profile and uses its TLS (the string targets that the
\* adapters compare, the clients they build), for every input; a second client uses TLS when
\* the profile does.
THEOREM LinksAsSaved == Spec => []ConnectsAsSaved
<1>1. SetupInv => ConnectsAsSaved
  BY DEF SetupInv
<1> QED
  BY <1>1, SetupAlways, PTL

\* What validate_connection_input accepted is not refused when a test or a call builds the
\* client, but for the listed checks that only connecting makes.
THEOREM SavedUsable == Spec => []SavedIsUsable
<1>1. SetupInv => SavedIsUsable
  BY DEF SetupInv
<1> QED
  BY <1>1, SetupAlways, PTL

\* After a test that succeeded no call is refused for what was saved, but an insert into
\* Splunk without a token for events and a call for a Pinecone index whose host does not pass.
THEOREM TestedUsable == Spec => []TestedIsUsable
<1>1. SetupInv => TestedIsUsable
  BY DEF SetupInv
<1> QED
  BY <1>1, SetupAlways, PTL

-----------------------------------------------------------------------------
(***************************************************************************)
(* Cancelling an inspection.  A cancellation that holds an inspection has  *)
(* set its flag, which stays; and an inspection in the map has no answer   *)
(* yet, which is why a cancellation never finds one too late.              *)
(***************************************************************************)
CancelType ==
    [pc : {"new", "asks", "done"}, holds : Inspections \cup {NoCall},
     answer : {"none", "cancelled", "failed", "not active"}]

FlagInv ==
    /\ schema_inspections \in Inspections \cup {NoCall}
    /\ flag \in [Inspections -> BOOLEAN]
    /\ DOMAIN outcome = Inspections \cup DataCalls
    /\ DOMAIN station = Inspections \cup DataCalls
    /\ cancels \in [Cancels -> CancelType]
    /\ \A p \in Inspections : station[p] = "new" => outcome[p] = "none"
    /\ schema_inspections # NoCall => outcome[schema_inspections] # "ok"
    /\ \A c \in Cancels : LET p == cancels[c].holds IN p # NoCall => flag[p] /\ outcome[p] # "ok"

\* An inspection that takes its answer with it out of the map.
LEMMA ReturnsFlagged ==
  ASSUME FlagInv, NEW p \in Inspections, NEW o, InspectReturns(p, o), flag[p] => o # "ok",
         UNCHANGED <<flag, cancels>>
  PROVE  FlagInv'
<1>1. /\ outcome' = [outcome EXCEPT ![p] = o] /\ station' = [station EXCEPT ![p] = "ended"]
      /\ schema_inspections' = NoCall
  BY DEF InspectReturns, Return
<1>2. \A c \in Cancels : cancels[c].holds \in Inspections \cup {NoCall}
  BY DEF FlagInv, CancelType
<1> QED
  BY <1>1, <1>2 DEF FlagInv

\* A step that gives no answer and moves an inspection on.
LEMMA MovesFlagged ==
  ASSUME FlagInv, NEW p \in Inspections \cup DataCalls, NEW at, at # "new",
         station' = [station EXCEPT ![p] = at] \/ station' = station,
         UNCHANGED <<flag, cancels, outcome>>,
         schema_inspections' = schema_inspections
            \/ (schema_inspections' = p /\ p \in Inspections /\ outcome[p] = "none")
  PROVE  FlagInv'
<1>1. \A q \in Inspections : station'[q] = "new" => station[q] = "new"
  BY DEF FlagInv
<1>2. DOMAIN station' = DOMAIN station
  OBVIOUS
<1> QED
  BY <1>1, <1>2 DEF FlagInv

LEMMA InspectFlagged ==
  ASSUME FlagInv, NEW p \in Inspections, InspectStep(p)
  PROVE  FlagInv'
<1>1. CASE BeginInspection(p)
  <2>1. CASE schema_inspections # NoCall
    <3>1. /\ outcome' = [outcome EXCEPT ![p] = "refused"]
          /\ station' = [station EXCEPT ![p] = "ended"]
          /\ UNCHANGED <<schema_inspections, flag, cancels>>
      BY <1>1, <2>1 DEF BeginInspection, Return
    <3>2. \A c \in Cancels : cancels[c].holds \in Inspections \cup {NoCall}
      BY DEF FlagInv, CancelType
    <3> QED
      BY <2>1, <3>1, <3>2 DEF FlagInv
  <2>2. CASE schema_inspections = NoCall
    <3>1. outcome[p] = "none"
      BY <1>1 DEF BeginInspection, FlagInv
    <3> QED
      BY <1>1, <2>2, <3>1, MovesFlagged DEF BeginInspection
  <2> QED
    BY <2>1, <2>2
<1>2. CASE StartSearch(p)
  <2>1. CASE \E o \in {"cancelled", "failed"} : InspectReturns(p, o)
    BY <1>2, <2>1, ReturnsFlagged DEF StartSearch
  <2> QED
    BY <1>2, <2>1, MovesFlagged DEF StartSearch
<1>3. ASSUME NEW end \in Ends, EndSearch(p, end) PROVE FlagInv'
  <2>1. CASE flag[p]
    BY <1>3, <2>1, ReturnsFlagged DEF EndSearch
  <2>2. CASE ~flag[p] /\ end # "ok"
    BY <1>3, <2>2, ReturnsFlagged DEF EndSearch
  <2>3. CASE ~flag[p] /\ end = "ok"
    BY <1>3, <2>3, MovesFlagged DEF EndSearch
  <2> QED
    BY <2>1, <2>2, <2>3
<1>4. CASE StartDescribe(p)
  <2>1. CASE InspectReturns(p, "cancelled")
    BY <1>4, <2>1, ReturnsFlagged DEF StartDescribe
  <2> QED
    BY <1>4, <2>1, MovesFlagged DEF StartDescribe
<1>5. ASSUME NEW end \in Ends, EndDescribe(p, end) PROVE FlagInv'
  <2>1. CASE flag[p] \/ end = "cancelled"
    BY <1>5, <2>1, ReturnsFlagged DEF EndDescribe
  <2>2. CASE ~(flag[p] \/ end = "cancelled")
    BY <1>5, <2>2, MovesFlagged DEF EndDescribe
  <2> QED
    BY <2>1, <2>2
<1>6. CASE EndInspection(p)
  <2>1. PICK o : InspectReturns(p, o) /\ (flag[p] => o = "cancelled")
    BY <1>6 DEF EndInspection, complete
  <2> QED
    BY <1>6, <2>1, ReturnsFlagged DEF EndInspection
<1> QED
  BY <1>1, <1>2, <1>3, <1>4, <1>5, <1>6 DEF InspectStep

LEMMA FlagStep == FlagInv /\ [Next]_vars => FlagInv'
<1> SUFFICES ASSUME FlagInv, [Next]_vars PROVE FlagInv'
  OBVIOUS
<1>0. \A c \in Cancels : cancels[c] \in CancelType /\ cancels[c].holds \in Inspections \cup {NoCall}
  BY DEF FlagInv, CancelType
<1>1. CASE UNCHANGED inspectVars
  BY <1>1 DEF inspectVars, FlagInv
<1>2. ASSUME NEW p \in Inspections, InspectStep(p) PROVE FlagInv'
  BY <1>2, InspectFlagged
<1>3. ASSUME NEW d \in DataCalls, DataStep(d) PROVE FlagInv'
  <2>1. /\ UNCHANGED <<schema_inspections, flag, cancels>>
        /\ outcome' = outcome \/ \E o : outcome' = [outcome EXCEPT ![d] = o]
        /\ \E at : station' = [station EXCEPT ![d] = at]
    BY <1>3 DEF DataStep, StartData, EndData, Return
  <2>2. \A p \in Inspections : p # d
    BY InspectionAssumption
  <2> QED
    BY <1>0, <2>1, <2>2 DEF FlagInv
<1>4. ASSUME NEW c \in Cancels, StartCancel(c) PROVE FlagInv'
  <2>1. /\ UNCHANGED <<schema_inspections, outcome, station>>
        /\ flag' = [p \in Inspections |-> flag[p] \/ p = schema_inspections]
        /\ cancels' = [cancels EXCEPT ![c].pc = "asks", ![c].holds = schema_inspections]
    BY <1>4 DEF StartCancel
  <2>2. cancels' \in [Cancels -> CancelType]
    BY <2>1, ZenonT(40) DEF FlagInv, CancelType
  <2>3. flag' \in [Inspections -> BOOLEAN]
    BY <2>1 DEF FlagInv
  <2>4. /\ cancels'[c].holds = schema_inspections
        /\ \A d \in Cancels \ {c} : cancels'[d] = cancels[d]
    BY <1>0, <2>1 DEF FlagInv, CancelType
  <2>5. ASSUME NEW d \in Cancels, cancels'[d].holds # NoCall
        PROVE  flag'[cancels'[d].holds] /\ outcome'[cancels'[d].holds] # "ok"
    <3>1. CASE d = c
      BY <2>1, <2>4, <2>5, <3>1 DEF FlagInv
    <3>2. CASE d # c
      BY <1>0, <2>1, <2>4, <2>5, <3>2 DEF FlagInv
    <3> QED
      BY <3>1, <3>2
  <2> QED
    BY <2>1, <2>2, <2>3, <2>5 DEF FlagInv
<1>5. ASSUME NEW c \in Cancels, CancelTurn(c) PROVE FlagInv'
  <2>1. PICK a \in {"cancelled", "failed", "not active"} :
           cancels' = [cancels EXCEPT ![c].pc = "done", ![c].answer = a]
    BY <1>5 DEF CancelTurn
  <2>2. UNCHANGED <<schema_inspections, flag, outcome, station>>
    BY <1>5 DEF CancelTurn
  <2>3. cancels' \in [Cancels -> CancelType]
    BY <2>1, ZenonT(40) DEF FlagInv, CancelType
  <2>4. \A d \in Cancels : cancels'[d].holds = cancels[d].holds
    BY <1>0, <2>1 DEF FlagInv, CancelType
  <2> QED
    BY <2>2, <2>3, <2>4 DEF FlagInv
<1> QED
  BY <1>1, <1>2, <1>3, <1>4, <1>5 DEF Next, InspectNext, Use, vars

\* An inspection that a cancellation has found does not answer with a schema, wherever
\* between its requests it was (SchemaInspectionGuard::complete reads the flag under the
\* lock of the map that cancel_schema_inspection sets it under).
THEOREM CancelledFails == Spec => []CancelledInspectionFails
<1>1. Init => FlagInv
  BY DEF Init, InspectInit, FlagInv, CancelType
<1>2. FlagInv => CancelledInspectionFails
  BY DEF FlagInv, CancelledInspectionFails
<1> QED
  BY <1>1, <1>2, FlagStep, PTL DEF Spec

-----------------------------------------------------------------------------
(***************************************************************************)
(* Sequences of rows.  Only and Size are recursive functions: what they    *)
(* satisfy is proved by the least number at which it would fail.           *)
(***************************************************************************)
Rows == DOMAIN Bytes

LEMMA LeastNumber ==
  ASSUME NEW T, T \subseteq Nat, T # {}
  PROVE  \E n \in T : \A m \in T : n <= m
<1>1. \E n \in T : \A m \in T : ~(<<m, n>> \in OpToRel(<, Nat))
  BY NatLessThanWellFounded, WFMin, Zenon
<1>2. ASSUME NEW n \in Nat, NEW m \in Nat, m < n
      PROVE  <<m, n>> \in OpToRel(<, Nat)
  <2>1. <<m, n>> \in Nat \X Nat /\ <<m, n>>[1] < <<m, n>>[2]
    BY <1>2
  <2> QED
    BY <2>1, Zenon DEF OpToRel
<1>3. \E n \in T : \A m \in T : ~(m < n)
  BY <1>1, <1>2, Zenon
<1> QED
  BY <1>3

LEMMA RowsAre == Rows = 1..Len(Bytes) /\ Len(Bytes) \in Nat /\ \A r \in Rows : Bytes[r] \in Nat \ {0}
BY PagesAssumption DEF Rows

\* The equation of the recursion of Only, from the values of its steps.
OnlyEq(s, S, f) ==
    f = [i \in 0..Len(s) |-> IF i = 0 THEN <<>>
                             ELSE IF s[i] \in S THEN Append(f[i - 1], s[i]) ELSE f[i - 1]]

OnlyTo(s, S, n, f) ==
    /\ DOMAIN f = 0..n /\ f[0] = <<>>
    /\ \A i \in 1..n : f[i] = IF s[i] \in S THEN Append(f[i - 1], s[i]) ELSE f[i - 1]

LEMMA OnlyExists ==
  ASSUME NEW T, NEW s \in Seq(T), NEW S
  PROVE  \E f : OnlyEq(s, S, f)
<1> DEFINE Bad == {n \in 0..Len(s) : ~\E f : f = [i \in DOMAIN f |-> f[i]] /\ OnlyTo(s, S, n, f)}
<1>1. Bad = {}
  <2> SUFFICES ASSUME Bad # {} PROVE FALSE
    OBVIOUS
  <2>1. PICK n \in Bad : \A m \in Bad : n <= m
    <3>1. Bad \subseteq Nat
      OBVIOUS
    <3> HIDE DEF Bad
    <3> QED
      BY <3>1, LeastNumber
  <2>2. CASE n = 0
    <3> DEFINE f == [i \in 0..0 |-> <<>>]
    <3>1. OnlyTo(s, S, n, f) /\ f = [i \in DOMAIN f |-> f[i]]
      BY <2>2 DEF OnlyTo
    <3> QED
      BY <3>1
  <2>3. CASE n # 0
    <3>1. n - 1 \in 0..Len(s) /\ n - 1 \notin Bad
      BY <2>1, <2>3
    <3>2. PICK f : f = [i \in DOMAIN f |-> f[i]] /\ OnlyTo(s, S, n - 1, f)
      BY <3>1
    <3> DEFINE g == [i \in 0..n |->
                       IF i = n THEN IF s[n] \in S THEN Append(f[n - 1], s[n]) ELSE f[n - 1]
                       ELSE f[i]]
    <3>3. OnlyTo(s, S, n, g) /\ g = [i \in DOMAIN g |-> g[i]]
      <4>1. DOMAIN g = 0..n /\ g[0] = <<>>
        BY <2>3, <3>2 DEF OnlyTo
      <4>2. ASSUME NEW i \in 1..n
            PROVE  g[i] = IF s[i] \in S THEN Append(g[i - 1], s[i]) ELSE g[i - 1]
        BY <2>3, <3>2 DEF OnlyTo
      <4> QED
        BY <4>1, <4>2 DEF OnlyTo
    <3> QED
      BY <3>3, <2>1
  <2> QED
    BY <2>2, <2>3
<1>2. PICK f : f = [i \in DOMAIN f |-> f[i]] /\ OnlyTo(s, S, Len(s), f)
  BY <1>1
<1> HIDE DEF Bad
<1>3. OnlyEq(s, S, f)
  <2> DEFINE g == [i \in 0..Len(s) |-> IF i = 0 THEN <<>>
                             ELSE IF s[i] \in S THEN Append(f[i - 1], s[i]) ELSE f[i - 1]]
  <2>1. DOMAIN f = DOMAIN g
    BY <1>2 DEF OnlyTo
  <2>2. ASSUME NEW i \in 0..Len(s) PROVE f[i] = g[i]
    <3>0. OnlyTo(s, S, Len(s), f)
      BY <1>2
    <3>1. CASE i = 0
      BY <3>0, <3>1 DEF OnlyTo
    <3>2. CASE i # 0
      <4>1. i \in 1..Len(s)
        BY <3>2
      <4>2. f[i] = IF s[i] \in S THEN Append(f[i - 1], s[i]) ELSE f[i - 1]
        BY <3>0, <4>1 DEF OnlyTo
      <4> QED
        BY <3>2, <4>2
    <3> QED
      BY <3>1, <3>2
  <2>3. f = g
    <3>1. [i \in DOMAIN f |-> f[i]] = [i \in DOMAIN g |-> g[i]]
      BY <1>2, <2>1, <2>2 DEF OnlyTo
    <3>2. g = [i \in DOMAIN g |-> g[i]]
      OBVIOUS
    <3> QED
      BY <1>2, <3>1, <3>2, Zenon
  <2> QED
    BY <2>3, Zenon DEF OnlyEq
<1> QED
  BY <1>3

LEMMA OnlySteps ==
  ASSUME NEW T, NEW s \in Seq(T), NEW S
  PROVE  \E f : OnlyTo(s, S, Len(s), f) /\ Only(s, S) = f[Len(s)]
<1> DEFINE f == CHOOSE f : OnlyEq(s, S, f)
<1>1. OnlyEq(s, S, f)
  BY OnlyExists, Zenon
<1>2. Only(s, S) = f[Len(s)]
  BY Zenon DEF Only, OnlyEq
<1>3. OnlyTo(s, S, Len(s), f)
  <2> HIDE DEF f
  <2> DEFINE g == [i \in 0..Len(s) |-> IF i = 0 THEN <<>>
                             ELSE IF s[i] \in S THEN Append(f[i - 1], s[i]) ELSE f[i - 1]]
  <2>1. f = g
    BY <1>1, Zenon DEF OnlyEq
  <2>2. DOMAIN g = 0..Len(s) /\ g[0] = <<>>
    OBVIOUS
  <2>3. ASSUME NEW i \in 1..Len(s)
        PROVE  g[i] = IF s[i] \in S THEN Append(f[i - 1], s[i]) ELSE f[i - 1]
    OBVIOUS
  <2> HIDE DEF g
  <2> QED
    BY <2>1, <2>2, <2>3, Zenon DEF OnlyTo
<1> QED
  BY <1>2, <1>3
\* o is what S keeps of the first n elements of s: their places are p.
KeepsAt(s, S, n, o, p) ==
    /\ p \in [1..Len(o) -> 1..n]
    /\ \A k \in 1..Len(o) : o[k] = s[p[k]] /\ s[p[k]] \in S
    /\ \A k, l \in 1..Len(o) : k < l => p[k] < p[l]
    /\ \A j \in 1..n : s[j] \in S => \E k \in 1..Len(o) : p[k] = j

LEMMA KeepsMore ==
  ASSUME NEW T, NEW s \in Seq(T), NEW S, NEW n \in 1..Len(s), NEW o \in Seq(T), NEW p,
         Len(o) <= n - 1, KeepsAt(s, S, n - 1, o, p), s[n] \in S
  PROVE  \E q : KeepsAt(s, S, n, Append(o, s[n]), q)
<1> DEFINE m == Len(o) + 1
           oo == Append(o, s[n])
           q == [k \in 1..m |-> IF k = m THEN n ELSE p[k]]
<1>0. Len(o) \in Nat /\ s[n] \in T
  OBVIOUS
<1>1. Len(oo) = m /\ oo[m] = s[n] /\ \A k \in 1..Len(o) : oo[k] = o[k]
  BY <1>0
<1> HIDE DEF oo
<1>2. \A k \in 1..Len(o) : p[k] \in 1..(n - 1)
  BY DEF KeepsAt
<1>3. q \in [1..Len(oo) -> 1..n]
  BY <1>0, <1>1, <1>2
<1>4. ASSUME NEW k \in 1..m PROVE oo[k] = s[q[k]] /\ s[q[k]] \in S
  BY <1>0, <1>1 DEF KeepsAt
<1>5. ASSUME NEW k \in 1..m, NEW l \in 1..m, k < l PROVE q[k] < q[l]
  <2>1. k \in 1..Len(o) /\ q[k] = p[k]
    BY <1>0, <1>5
  <2>2. CASE l = m
    BY <2>1, <2>2, <1>2
  <2>3. CASE l # m
    BY <2>1, <2>3, <1>0, <1>5 DEF KeepsAt
  <2> QED
    BY <2>2, <2>3
<1>6. ASSUME NEW j \in 1..n, s[j] \in S PROVE \E k \in 1..m : q[k] = j
  <2>1. CASE j = n
    BY <2>1, <1>0
  <2>2. CASE j # n
    <3>1. PICK k \in 1..Len(o) : p[k] = j
      BY <1>6, <2>2 DEF KeepsAt
    <3> QED
      BY <3>1, <1>0
  <2> QED
    BY <2>1, <2>2
<1>7. KeepsAt(s, S, n, oo, q)
  <2> HIDE DEF q
  <2> QED
    BY <1>1, <1>3, <1>4, <1>5, <1>6 DEF KeepsAt
<1> QED
  BY <1>7 DEF oo

LEMMA OnlyKeeps ==
  ASSUME NEW T, NEW s \in Seq(T), NEW S
  PROVE  /\ Only(s, S) \in Seq(T) /\ Len(Only(s, S)) <= Len(s)
         /\ \E p : KeepsAt(s, S, Len(s), Only(s, S), p)
<1>1. PICK f : OnlyTo(s, S, Len(s), f) /\ Only(s, S) = f[Len(s)]
  BY OnlySteps
<1> DEFINE Good(n) == /\ f[n] \in Seq(T) /\ Len(f[n]) <= n
                      /\ \E p : KeepsAt(s, S, n, f[n], p)
           Bad == {n \in 0..Len(s) : ~Good(n)}
<1>2. Good(0)
  <2>1. f[0] = <<>>
    BY <1>1 DEF OnlyTo
  <2>2. KeepsAt(s, S, 0, <<>>, <<>>)
    BY DEF KeepsAt
  <2> QED
    BY <2>1, <2>2
<1>3. ASSUME NEW n \in 1..Len(s), Good(n - 1) PROVE Good(n)
  <2>1. f[n] = IF s[n] \in S THEN Append(f[n - 1], s[n]) ELSE f[n - 1]
    BY <1>1 DEF OnlyTo
  <2>2. PICK p : KeepsAt(s, S, n - 1, f[n - 1], p)
    BY <1>3
  <2>3. CASE s[n] \in S
    <3>1. \E q : KeepsAt(s, S, n, Append(f[n - 1], s[n]), q)
      BY <1>3, <2>2, <2>3, KeepsMore
    <3> QED
      BY <1>3, <2>1, <2>3, <3>1
  <2>4. CASE s[n] \notin S
    <3>1. KeepsAt(s, S, n, f[n - 1], p)
      BY <2>2, <2>4 DEF KeepsAt
    <3> QED
      BY <1>3, <2>1, <2>4, <3>1
  <2> QED
    BY <2>3, <2>4
<1>4. Bad = {}
  <2> SUFFICES ASSUME Bad # {} PROVE FALSE
    OBVIOUS
  <2> HIDE DEF Good
  <2>1. Bad \subseteq Nat
    OBVIOUS
  <2>2. PICK n \in Bad : \A m \in Bad : n <= m
    <3> HIDE DEF Bad
    <3> QED
      BY <2>1, LeastNumber
  <2>3. n # 0 /\ n \in 1..Len(s)
    BY <1>2
  <2>4. n - 1 \notin Bad /\ n - 1 \in 0..Len(s)
    BY <2>2, <2>3
  <2> QED
    BY <2>3, <2>4, <1>3
<1>5. Good(Len(s))
  <2> HIDE DEF Good
  <2> QED
    BY <1>4
<1> QED
  BY <1>1, <1>5

\* Every element is after the ones before it.
Increasing(s) == \A i, j \in DOMAIN s : i < j => s[i] < s[j]

LEMMA OnlyRows ==
  ASSUME NEW s \in Seq(Rows), NEW S
  PROVE  /\ Only(s, S) \in Seq(Rows) /\ Len(Only(s, S)) <= Len(s)
         /\ Elements(Only(s, S)) = S \cap Elements(s)
         /\ Increasing(s) => Increasing(Only(s, S))
<1> DEFINE o == Only(s, S)
<1>1. o \in Seq(Rows) /\ Len(o) <= Len(s)
  BY OnlyKeeps
<1>2. PICK p : KeepsAt(s, S, Len(s), o, p)
  BY OnlyKeeps
<1> HIDE DEF o
<1>3. DOMAIN s = 1..Len(s) /\ DOMAIN o = 1..Len(o)
  BY <1>1
<1>4. Elements(o) \subseteq S \cap Elements(s)
  BY <1>2, <1>3 DEF KeepsAt, Elements
<1>5. ASSUME NEW x \in S \cap Elements(s) PROVE x \in Elements(o)
  <2>1. PICK j \in 1..Len(s) : s[j] = x
    BY <1>3 DEF Elements
  <2>2. PICK k \in 1..Len(o) : p[k] = j
    BY <1>2, <2>1 DEF KeepsAt
  <2>3. o[k] = x
    BY <1>2, <2>1, <2>2 DEF KeepsAt
  <2> QED
    BY <1>3, <2>3 DEF Elements
<1>6. ASSUME Increasing(s), NEW k \in DOMAIN o, NEW l \in DOMAIN o, k < l PROVE o[k] < o[l]
  BY <1>2, <1>3, <1>6 DEF KeepsAt, Increasing
<1>7. Increasing(s) => Increasing(o)
  BY <1>6 DEF Increasing
<1> QED
  BY <1>1, <1>4, <1>5, <1>7 DEF o
LEMMA InOrderFacts ==
  ASSUME NEW S
  PROVE  /\ InOrder(S) \in Seq(Rows) /\ Len(InOrder(S)) <= Len(Bytes)
         /\ Elements(InOrder(S)) = S \cap Rows /\ Increasing(InOrder(S))
<1> DEFINE all == [i \in 1..Len(Bytes) |-> i]
<1>1. all \in Seq(Rows) /\ Len(all) = Len(Bytes)
  BY RowsAre
<1>2. Elements(all) = Rows
  BY RowsAre DEF Elements
<1>3. Increasing(all)
  BY RowsAre DEF Increasing
<1>4. InOrder(S) = Only(all, S)
  BY DEF InOrder
<1> HIDE DEF all
<1> QED
  BY <1>1, <1>2, <1>3, <1>4, OnlyRows

LEMMA OnlyAll ==
  ASSUME NEW T, NEW s \in Seq(T), NEW S, \A i \in 1..Len(s) : s[i] \in S
  PROVE  Only(s, S) = s
<1>1. PICK f : OnlyTo(s, S, Len(s), f) /\ Only(s, S) = f[Len(s)]
  BY OnlySteps
<1> DEFINE Bad == {n \in 0..Len(s) : f[n] # SubSeq(s, 1, n)}
<1>2. Bad = {}
  <2> SUFFICES ASSUME Bad # {} PROVE FALSE
    OBVIOUS
  <2>1. Bad \subseteq Nat
    OBVIOUS
  <2>2. PICK n \in Bad : \A m \in Bad : n <= m
    <3> HIDE DEF Bad
    <3> QED
      BY <2>1, LeastNumber
  <2>3. CASE n = 0
    <3>1. SubSeq(s, 1, 0) = <<>>
      BY SubSeqEmpty
    <3>2. f[0] = <<>>
      BY <1>1 DEF OnlyTo
    <3> QED
      BY <2>3, <3>1, <3>2
  <2>4. CASE n # 0
    <3>1. n \in 1..Len(s) /\ n - 1 \in 0..Len(s) /\ n - 1 \notin Bad
      BY <2>2, <2>4
    <3>2. f[n] = Append(SubSeq(s, 1, n - 1), s[n])
      BY <1>1, <3>1 DEF OnlyTo
    <3>3. Append(SubSeq(s, 1, n - 1), s[n]) = SubSeq(s, 1, n)
      BY <3>1
    <3> QED
      BY <3>2, <3>3
  <2> QED
    BY <2>3, <2>4
<1>3. SubSeq(s, 1, Len(s)) = s
  OBVIOUS
<1> QED
  BY <1>1, <1>2, <1>3

LEMMA OnlySame ==
  ASSUME NEW T, NEW s \in Seq(T), NEW S, NEW R, \A i \in 1..Len(s) : s[i] \in S <=> s[i] \in R
  PROVE  Only(s, S) = Only(s, R)
<1>1. PICK f : OnlyTo(s, S, Len(s), f) /\ Only(s, S) = f[Len(s)]
  BY OnlySteps
<1>2. PICK g : OnlyTo(s, R, Len(s), g) /\ Only(s, R) = g[Len(s)]
  BY OnlySteps
<1> DEFINE Bad == {n \in 0..Len(s) : f[n] # g[n]}
<1>3. Bad = {}
  <2> SUFFICES ASSUME Bad # {} PROVE FALSE
    OBVIOUS
  <2>1. Bad \subseteq Nat
    OBVIOUS
  <2>2. PICK n \in Bad : \A m \in Bad : n <= m
    <3> HIDE DEF Bad
    <3> QED
      BY <2>1, LeastNumber
  <2>3. CASE n = 0
    BY <1>1, <1>2, <2>3 DEF OnlyTo
  <2>4. CASE n # 0
    <3>1. n \in 1..Len(s) /\ n - 1 \in 0..Len(s) /\ n - 1 \notin Bad
      BY <2>2, <2>4
    <3> QED
      BY <1>1, <1>2, <3>1 DEF OnlyTo
  <2> QED
    BY <2>3, <2>4
<1> QED
  BY <1>1, <1>2, <1>3

-----------------------------------------------------------------------------
(***************************************************************************)
(* Bytes.                                                                  *)
(***************************************************************************)
SizeEq(s, f) == f = [i \in 0..Len(s) |-> IF i = 0 THEN 0 ELSE f[i - 1] + Bytes[s[i]]]

SizeTo(s, n, f) ==
    /\ f \in [0..n -> Nat] /\ f[0] = 0
    /\ \A i \in 1..n : f[i] = f[i - 1] + Bytes[s[i]]

LEMMA SizeExists ==
  ASSUME NEW s \in Seq(Rows)
  PROVE  \E f : SizeTo(s, Len(s), f)
<1> DEFINE Bad == {n \in 0..Len(s) : ~\E f : SizeTo(s, n, f)}
<1>1. Bad = {}
  <2> SUFFICES ASSUME Bad # {} PROVE FALSE
    OBVIOUS
  <2>1. PICK n \in Bad : \A m \in Bad : n <= m
    <3>1. Bad \subseteq Nat
      OBVIOUS
    <3> HIDE DEF Bad
    <3> QED
      BY <3>1, LeastNumber
  <2>2. CASE n = 0
    <3> DEFINE f == [i \in 0..0 |-> 0]
    <3>1. SizeTo(s, n, f)
      BY <2>2 DEF SizeTo
    <3> QED
      BY <3>1
  <2>3. CASE n # 0
    <3>1. n - 1 \in 0..Len(s) /\ n - 1 \notin Bad /\ n \in 1..Len(s)
      BY <2>1, <2>3
    <3>2. PICK f : SizeTo(s, n - 1, f)
      BY <3>1
    <3> DEFINE g == [i \in 0..n |-> IF i = n THEN f[n - 1] + Bytes[s[n]] ELSE f[i]]
    <3>3. Bytes[s[n]] \in Nat /\ f[n - 1] \in Nat
      BY <3>1, <3>2, RowsAre DEF SizeTo
    <3>4. g \in [0..n -> Nat] /\ g[0] = 0
      BY <2>3, <3>2, <3>3 DEF SizeTo
    <3>5. ASSUME NEW i \in 1..n PROVE g[i] = g[i - 1] + Bytes[s[i]]
      BY <2>3, <3>2 DEF SizeTo
    <3>6. SizeTo(s, n, g)
      BY <3>4, <3>5 DEF SizeTo
    <3> QED
      BY <3>6, <2>1
  <2> QED
    BY <2>2, <2>3
<1>2. Len(s) \in 0..Len(s) /\ Len(s) \notin Bad
  <2> HIDE DEF Bad
  <2> QED
    BY <1>1
<1> QED
  BY <1>2

LEMMA SizeIs ==
  ASSUME NEW s \in Seq(Rows), NEW f, SizeTo(s, Len(s), f)
  PROVE  Size(s) = f[Len(s)]
<1> DEFINE h == CHOOSE h : SizeEq(s, h)
<1>1. SizeEq(s, f)
  BY DEF SizeTo, SizeEq
<1>2. SizeEq(s, h)
  BY <1>1, Zenon
<1>3. Size(s) = h[Len(s)]
  BY Zenon DEF Size, SizeEq
<1> HIDE DEF h
<1> DEFINE g == [i \in 0..Len(s) |-> IF i = 0 THEN 0 ELSE h[i - 1] + Bytes[s[i]]]
<1>4. h = g
  BY <1>2, Zenon DEF SizeEq
<1>5. h[0] = 0
  <2>1. g[0] = 0
    OBVIOUS
  <2> HIDE DEF g
  <2> QED
    BY <2>1, <1>4
<1>6. ASSUME NEW i \in 1..Len(s) PROVE h[i] = h[i - 1] + Bytes[s[i]]
  <2>1. g[i] = h[i - 1] + Bytes[s[i]]
    OBVIOUS
  <2> HIDE DEF g
  <2> QED
    BY <2>1, <1>4
<1> DEFINE Bad == {n \in 0..Len(s) : h[n] # f[n]}
<1>7. Bad = {}
  <2> SUFFICES ASSUME Bad # {} PROVE FALSE
    OBVIOUS
  <2>1. Bad \subseteq Nat
    OBVIOUS
  <2>2. PICK n \in Bad : \A m \in Bad : n <= m
    <3> HIDE DEF Bad
    <3> QED
      BY <2>1, LeastNumber
  <2>3. CASE n = 0
    BY <1>5, <2>3 DEF SizeTo
  <2>4. CASE n # 0
    <3>1. n \in 1..Len(s) /\ n - 1 \in 0..Len(s) /\ n - 1 \notin Bad
      BY <2>2, <2>4
    <3>2. h[n] = h[n - 1] + Bytes[s[n]] /\ f[n] = f[n - 1] + Bytes[s[n]]
      BY <1>6, <3>1 DEF SizeTo
    <3> QED
      BY <3>1, <3>2
  <2> QED
    BY <2>3, <2>4
<1> QED
  BY <1>3, <1>7

\* The sizes of the prefixes: numbers, and growing.
LEMMA SizePrefixes ==
  ASSUME NEW s \in Seq(Rows)
  PROVE  \E f \in [0..Len(s) -> Nat] :
           /\ f[0] = 0
           /\ \A n \in 0..Len(s) : Size(SubSeq(s, 1, n)) = f[n]
           /\ \A m, n \in 0..Len(s) : m <= n => f[m] <= f[n]
<1>1. PICK f : SizeTo(s, Len(s), f)
  BY SizeExists
<1>2. ASSUME NEW n \in 0..Len(s) PROVE Size(SubSeq(s, 1, n)) = f[n]
  <2> DEFINE t == SubSeq(s, 1, n)
             g == [i \in 0..n |-> f[i]]
  <2>1. t \in Seq(Rows) /\ Len(t) = n /\ \A i \in 1..n : t[i] = s[i]
    OBVIOUS
  <2>2. SizeTo(t, n, g)
    BY <1>1, <2>1 DEF SizeTo
  <2>3. Size(t) = g[n]
    <3> HIDE DEF t, g
    <3> QED
      BY <2>1, <2>2, SizeIs
  <2> QED
    BY <2>3
<1>3. ASSUME NEW m \in 0..Len(s) PROVE \A n \in 0..Len(s) : m <= n => f[m] <= f[n]
  <2> DEFINE Bad == {n \in 0..Len(s) : m <= n /\ ~(f[m] <= f[n])}
  <2>1. Bad = {}
    <3> SUFFICES ASSUME Bad # {} PROVE FALSE
      OBVIOUS
    <3>1. Bad \subseteq Nat
      OBVIOUS
    <3>2. PICK n \in Bad : \A k \in Bad : n <= k
      <4> HIDE DEF Bad
      <4> QED
        BY <3>1, LeastNumber
    <3>3. f[m] \in Nat /\ n # m
      BY <1>1 DEF SizeTo
    <3>4. n \in 1..Len(s) /\ n - 1 \in 0..Len(s) /\ n - 1 \notin Bad /\ m <= n - 1
      BY <3>2, <3>3
    <3>5. f[n] = f[n - 1] + Bytes[s[n]] /\ f[n - 1] \in Nat /\ Bytes[s[n]] \in Nat
      <4>1. s[n] \in Rows
        BY <3>4
      <4>2. Bytes[s[n]] \in Nat
        BY <4>1, RowsAre
      <4> QED
        BY <1>1, <3>4, <4>2 DEF SizeTo
    <3> QED
      BY <3>3, <3>4, <3>5
  <2> QED
    BY <2>1
<1>4. f \in [0..Len(s) -> Nat] /\ f[0] = 0
  BY <1>1 DEF SizeTo
<1> QED
  BY <1>2, <1>3, <1>4
LEMMA SizeNat ==
  ASSUME NEW s \in Seq(Rows)
  PROVE  Size(s) \in Nat
<1>1. PICK f \in [0..Len(s) -> Nat] : \A n \in 0..Len(s) : Size(SubSeq(s, 1, n)) = f[n]
  BY SizePrefixes
<1>2. SubSeq(s, 1, Len(s)) = s /\ Len(s) \in 0..Len(s)
  OBVIOUS
<1> QED
  BY <1>1, <1>2

LEMMA SizeEmpty == Size(<<>>) = 0
<1>1. <<>> \in Seq(Rows) /\ Len(<<>>) = 0
  OBVIOUS
<1>2. PICK f \in [0..Len(<<>>) -> Nat] :
        f[0] = 0 /\ \A n \in 0..Len(<<>>) : Size(SubSeq(<<>>, 1, n)) = f[n]
  BY <1>1, SizePrefixes
<1>3. SubSeq(<<>>, 1, 0) = <<>>
  BY <1>1, SubSeqEmpty
<1> QED
  BY <1>1, <1>2, <1>3

LEMMA FirstIs ==
  ASSUME NEW T, NEW s \in Seq(T), NEW n \in Nat
  PROVE  \E m \in 0..Len(s) : /\ First(s, n) = SubSeq(s, 1, m) /\ m <= n /\ (n <= Len(s) => m = n)
                              /\ (n >= Len(s) => m = Len(s))
BY DEF First

\* Within is a prefix; if it is not empty it fits, and what fits is left alone.
LEMMA WithinIs ==
  ASSUME NEW s \in Seq(Rows), NEW beside \in Nat
  PROVE  \E n \in 0..Len(s) :
           /\ Within(s, beside) = SubSeq(s, 1, n)
           /\ n = 0 \/ Size(SubSeq(s, 1, n)) + beside <= MaxBytes
           /\ n = Len(s) \/ Size(SubSeq(s, 1, n + 1)) + beside > MaxBytes
           /\ Size(s) + beside <= MaxBytes => n = Len(s)
<1>1. PICK f \in [0..Len(s) -> Nat] :
        /\ f[0] = 0
        /\ \A n \in 0..Len(s) : Size(SubSeq(s, 1, n)) = f[n]
        /\ \A m, n \in 0..Len(s) : m <= n => f[m] <= f[n]
  BY SizePrefixes
<1>0. Len(s) \in Nat /\ MaxBytes \in Nat
  BY PagesAssumption
<1>2. ASSUME NEW n \in 0..Len(s) PROVE First(s, n) = SubSeq(s, 1, n)
  BY DEF First
<1>3. ASSUME NEW n \in 0..Len(s) PROVE Size(First(s, n)) = f[n]
  BY <1>1, <1>2
<1> DEFINE P(n) == /\ n = 0 \/ Size(First(s, n)) + beside <= MaxBytes
                   /\ n = Len(s) \/ Size(First(s, n + 1)) + beside > MaxBytes
           Stop == {n \in 0..Len(s) : n = Len(s) \/ f[n + 1] + beside > MaxBytes}
<1>4. \E n \in 0..Len(s) : P(n)
  <2>1. Stop \subseteq Nat /\ Len(s) \in Stop
    BY <1>0
  <2>2. PICK n \in Stop : \A m \in Stop : n <= m
    <3> HIDE DEF Stop
    <3> QED
      BY <2>1, LeastNumber
  <2>3. n = Len(s) \/ Size(First(s, n + 1)) + beside > MaxBytes
    <3>1. n \in 0..Len(s) /\ (n = Len(s) \/ f[n + 1] + beside > MaxBytes)
      OBVIOUS
    <3>2. n = Len(s) \/ n + 1 \in 0..Len(s)
      <4>1. n \in 0..Len(s)
        BY <3>1
      <4> HIDE DEF Stop
      <4> QED
        BY <1>0, <4>1
    <3>3. n + 1 \in 0..Len(s) => Size(First(s, n + 1)) = f[n + 1]
      BY <1>3
    <3> QED
      BY <3>1, <3>2, <3>3
  <2>4. n = 0 \/ Size(First(s, n)) + beside <= MaxBytes
    <3>1. CASE n # 0
      <4>0. n \in 0..Len(s)
        OBVIOUS
      <4>1. n \in 0..Len(s) /\ n - 1 \in 0..Len(s) /\ n - 1 \notin Stop
        <5> HIDE DEF Stop
        <5> QED
          BY <1>0, <2>1, <2>2, <3>1, <4>0
      <4>2. ~(f[n - 1 + 1] + beside > MaxBytes) /\ n - 1 + 1 = n
        BY <4>1
      <4>3. f[n] \in Nat
        BY <4>1, <1>1
      <4>4. Size(First(s, n)) = f[n]
        BY <1>3, <4>1
      <4> QED
        BY <1>0, <4>2, <4>3, <4>4
    <3> QED
      BY <3>1
  <2> QED
    BY <2>3, <2>4
<1> DEFINE k == CHOOSE n \in 0..Len(s) : P(n)
<1>5. k \in 0..Len(s) /\ P(k)
  <2> HIDE DEF P
  <2> QED
    BY <1>4
<1>6. Within(s, beside) = First(s, k)
  BY Zenon DEF Within
<1> HIDE DEF k
<1>7. Within(s, beside) = SubSeq(s, 1, k)
  BY <1>2, <1>5, <1>6
<1>8. k = 0 \/ Size(SubSeq(s, 1, k)) + beside <= MaxBytes
  BY <1>2, <1>5
<1>9. ASSUME Size(s) + beside <= MaxBytes PROVE k = Len(s)
  <2> SUFFICES ASSUME k # Len(s) PROVE FALSE
    OBVIOUS
  <2>1. k + 1 \in 0..Len(s)
    BY <1>0, <1>5
  <2>2. Size(First(s, k + 1)) + beside > MaxBytes
    BY <1>5
  <2>3. Len(s) \in 0..Len(s) /\ k + 1 <= Len(s)
    BY <1>0, <2>1
  <2>4. f[k + 1] <= f[Len(s)] /\ f[Len(s)] = Size(SubSeq(s, 1, Len(s)))
    BY <1>1, <2>1, <2>3
  <2>5. f[k + 1] \in Nat /\ f[Len(s)] \in Nat
    BY <1>1, <2>1, <2>3
  <2>6. Size(First(s, k + 1)) = f[k + 1]
    BY <1>3, <2>1
  <2>7. SubSeq(s, 1, Len(s)) = s
    OBVIOUS
  <2> HIDE DEF P
  <2> QED
    BY <1>0, <1>9, <2>2, <2>4, <2>5, <2>6, <2>7
<1>10. k = Len(s) \/ Size(SubSeq(s, 1, k + 1)) + beside > MaxBytes
  <2>1. k = Len(s) \/ k + 1 \in 0..Len(s)
    BY <1>0, <1>5
  <2> QED
    BY <1>2, <1>5, <2>1
<1> QED
  BY <1>5, <1>7, <1>8, <1>9, <1>10
-----------------------------------------------------------------------------
(***************************************************************************)
(* What a page carries: in order, nothing but rows after lo and up to hi,  *)
(* and all of these that are in W.                                         *)
(***************************************************************************)
Carries(W, lo, hi, r) ==
    /\ r \in Seq(Rows) /\ Increasing(r) /\ lo <= hi
    /\ \A i \in 1..Len(r) : lo < r[i] /\ r[i] <= hi
    /\ \A x \in W : lo < x /\ x <= hi => \E i \in 1..Len(r) : r[i] = x

\* The first n elements of s are those up to b.
Cut(s, n, b) == \A i \in 1..Len(s) : IF i <= n THEN s[i] <= b ELSE s[i] > b

LEMMA RowsInt == \A r \in Rows : r \in Int
BY RowsAre

LEMMA Pieces ==
  ASSUME NEW s \in Seq(Rows), Increasing(s), NEW r \in Seq(Rows), NEW off \in Nat, NEW W,
         NEW lo \in Int, NEW hi \in Int, lo <= hi, off + Len(r) <= Len(s),
         \A i \in 1..Len(r) : r[i] = s[off + i],
         Cut(s, off, lo), Cut(s, off + Len(r), hi),
         \A x \in W : x > lo => \E i \in 1..Len(s) : s[i] = x
  PROVE  Carries(W, lo, hi, r)
<1>0. Len(r) \in Nat /\ Len(s) \in Nat /\ DOMAIN r = 1..Len(r) /\ DOMAIN s = 1..Len(s)
  OBVIOUS
<1>1. ASSUME NEW i \in 1..Len(r) PROVE lo < r[i] /\ r[i] <= hi
  <2>1. off + i \in 1..Len(s) /\ ~(off + i <= off) /\ off + i <= off + Len(r)
    BY <1>0
  <2>2. s[off + i] > lo /\ s[off + i] <= hi
    BY <2>1 DEF Cut
  <2>3. s[off + i] \in Int
    BY <2>1, RowsInt
  <2> QED
    BY <2>2, <2>3
<1>2. ASSUME NEW i \in DOMAIN r, NEW j \in DOMAIN r, i < j PROVE r[i] < r[j]
  <2>1. off + i \in DOMAIN s /\ off + j \in DOMAIN s /\ off + i < off + j
    BY <1>0, <1>2
  <2> QED
    BY <1>0, <2>1 DEF Increasing
<1>3. ASSUME NEW x \in W, lo < x, x <= hi PROVE \E i \in 1..Len(r) : r[i] = x
  <2>1. PICK k \in 1..Len(s) : s[k] = x
    BY <1>3
  <2>2. x \in Int
    BY <2>1, RowsInt
  <2>3. ~(k <= off)
    BY <1>3, <2>1, <2>2 DEF Cut
  <2>4. k <= off + Len(r)
    BY <1>3, <2>1, <2>2 DEF Cut
  <2>5. k - off \in 1..Len(r) /\ off + (k - off) = k
    BY <1>0, <2>3, <2>4
  <2>6. r[k - off] = x
    BY <2>1, <2>5
  <2> QED
    BY <2>5, <2>6
<1> QED
  BY <1>1, <1>2, <1>3 DEF Carries, Increasing

LEMMA CarriesOn ==
  ASSUME NEW W, W \subseteq Rows, NEW lo \in Int, NEW mid \in Int, NEW hi \in Int,
         NEW a, NEW b, Carries(W, lo, mid, a), Carries(W, mid, hi, b)
  PROVE  Carries(W, lo, hi, a \o b)
<1> DEFINE c == a \o b
<1>0. /\ a \in Seq(Rows) /\ b \in Seq(Rows) /\ Len(a) \in Nat /\ Len(b) \in Nat
      /\ lo <= mid /\ mid <= hi
  BY DEF Carries
<1>1. /\ c \in Seq(Rows) /\ Len(c) = Len(a) + Len(b) /\ DOMAIN c = 1..Len(c)
      /\ \A i \in 1..Len(a) : c[i] = a[i]
      /\ \A i \in 1..Len(b) : c[Len(a) + i] = b[i]
  BY <1>0
<1> HIDE DEF c
<1>2. ASSUME NEW i \in 1..Len(c)
      PROVE  \/ i \in 1..Len(a) /\ c[i] = a[i] /\ lo < c[i] /\ c[i] <= mid
             \/ i - Len(a) \in 1..Len(b) /\ c[i] = b[i - Len(a)] /\ mid < c[i] /\ c[i] <= hi
  <2>1. CASE i <= Len(a)
    BY <1>0, <1>1, <2>1 DEF Carries
  <2>2. CASE ~(i <= Len(a))
    <3>1. i - Len(a) \in 1..Len(b) /\ Len(a) + (i - Len(a)) = i
      BY <1>0, <1>1, <2>2
    <3>2. c[i] = b[i - Len(a)]
      BY <1>1, <3>1
    <3> QED
      BY <3>1, <3>2 DEF Carries
  <2> QED
    BY <2>1, <2>2
<1>3. ASSUME NEW i \in 1..Len(c) PROVE lo < c[i] /\ c[i] <= hi /\ c[i] \in Int
  <2>1. c[i] \in Int
    BY <1>1, RowsInt
  <2> QED
    BY <1>0, <1>2, <2>1
<1>4. ASSUME NEW i \in 1..Len(c), NEW j \in 1..Len(c), i < j PROVE c[i] < c[j]
  <2>0. c[i] \in Int /\ c[j] \in Int
    BY <1>3
  <2>1. CASE j \in 1..Len(a) /\ c[j] = a[j]
    <3>1. i \in 1..Len(a) /\ c[i] = a[i]
      BY <1>0, <1>1, <1>4, <2>1
    <3> QED
      BY <1>0, <1>4, <2>1, <3>1 DEF Carries, Increasing
  <2>2. CASE j - Len(a) \in 1..Len(b) /\ c[j] = b[j - Len(a)] /\ mid < c[j]
    <3>1. CASE c[i] <= mid
      BY <2>0, <2>2, <3>1
    <3>2. CASE i - Len(a) \in 1..Len(b) /\ c[i] = b[i - Len(a)]
      <4>1. i - Len(a) < j - Len(a)
        BY <1>0, <1>4
      <4>2. DOMAIN b = 1..Len(b)
        BY <1>0
      <4> QED
        BY <2>2, <3>2, <4>1, <4>2 DEF Carries, Increasing
    <3> QED
      BY <1>2, <3>1, <3>2
  <2> QED
    BY <1>2, <2>1, <2>2
<1>5. ASSUME NEW x \in W, lo < x, x <= hi PROVE \E i \in 1..Len(c) : c[i] = x
  <2>0. x \in Int
    BY RowsInt
  <2>1. CASE x <= mid
    <3>1. PICK i \in 1..Len(a) : a[i] = x
      BY <1>5, <2>1 DEF Carries
    <3>2. i \in 1..Len(c) /\ c[i] = x
      BY <1>0, <1>1, <3>1
    <3> QED
      BY <3>2
  <2>2. CASE mid < x
    <3>1. PICK i \in 1..Len(b) : b[i] = x
      BY <1>5, <2>2 DEF Carries
    <3>2. Len(a) + i \in 1..Len(c) /\ c[Len(a) + i] = x
      BY <1>0, <1>1, <3>1
    <3> QED
      BY <3>2
  <2> QED
    BY <2>0, <2>1, <2>2
<1>6. Carries(W, lo, hi, c)
  BY <1>0, <1>1, <1>3, <1>4, <1>5 DEF Carries, Increasing
<1> QED
  BY <1>6 DEF c

\* What a policy hides is left out.
LEMMA CarriesOnly ==
  ASSUME NEW W, NEW V, NEW lo, NEW hi, NEW r, Carries(W, lo, hi, r)
  PROVE  Carries(W \cap V, lo, hi, Only(r, V))
<1> DEFINE o == Only(r, V)
<1>0. r \in Seq(Rows) /\ DOMAIN r = 1..Len(r)
  BY DEF Carries
<1>1. o \in Seq(Rows) /\ Increasing(o) /\ Elements(o) = V \cap Elements(r)
  BY <1>0, OnlyRows DEF Carries
<1> HIDE DEF o
<1>2. DOMAIN o = 1..Len(o)
  BY <1>1
<1>3. ASSUME NEW i \in 1..Len(o) PROVE lo < o[i] /\ o[i] <= hi
  <2>1. o[i] \in Elements(r)
    BY <1>1, <1>2 DEF Elements
  <2> QED
    BY <1>0, <2>1 DEF Carries, Elements
<1>4. ASSUME NEW x \in W \cap V, lo < x, x <= hi PROVE \E i \in 1..Len(o) : o[i] = x
  <2>1. x \in Elements(r)
    BY <1>0, <1>4 DEF Carries, Elements
  <2>2. x \in Elements(o)
    BY <1>1, <2>1
  <2> QED
    BY <1>2, <2>2 DEF Elements
<1> QED
  BY <1>1, <1>3, <1>4 DEF Carries, o
\* The last of the first n elements, or lo.
Top(s, lo, n) == IF n = 0 THEN lo ELSE s[n]

LEMMA TopCuts ==
  ASSUME NEW s \in Seq(Rows), Increasing(s), NEW lo \in Int, \A i \in 1..Len(s) : s[i] > lo,
         NEW n \in 0..Len(s)
  PROVE  /\ Cut(s, n, Top(s, lo, n)) /\ Top(s, lo, n) \in Int /\ lo <= Top(s, lo, n)
         /\ \A m \in 0..n : Top(s, lo, m) <= Top(s, lo, n)
<1>0. DOMAIN s = 1..Len(s) /\ \A i \in 1..Len(s) : s[i] \in Int
  BY RowsInt
<1>1. CASE n = 0
  BY <1>0, <1>1 DEF Top, Cut
<1>2. CASE n # 0
  <2>0. Top(s, lo, n) = s[n] /\ n \in 1..Len(s)
    BY <1>2 DEF Top
  <2>1. ASSUME NEW i \in 1..Len(s) PROVE IF i <= n THEN s[i] <= s[n] ELSE s[i] > s[n]
    <3>1. i < n => s[i] < s[n]
      BY <1>0, <2>0 DEF Increasing
    <3>2. n < i => s[n] < s[i]
      BY <1>0, <2>0 DEF Increasing
    <3>3. s[i] \in Int /\ s[n] \in Int
      BY <1>0, <2>0
    <3> QED
      BY <2>0, <3>1, <3>2, <3>3
  <2>2. ASSUME NEW m \in 0..n PROVE Top(s, lo, m) <= s[n]
    <3>1. CASE m = 0
      BY <1>0, <2>0, <3>1 DEF Top
    <3>2. CASE m # 0
      BY <2>0, <2>1, <3>2 DEF Top
    <3> QED
      BY <3>1, <3>2
  <2> QED
    BY <1>0, <2>0, <2>1, <2>2 DEF Cut
<1> QED
  BY <1>1, <1>2

LEMMA EndCuts ==
  ASSUME NEW s \in Seq(Rows)
  PROVE  Cut(s, Len(s), Len(Bytes))
<1>1. ASSUME NEW i \in 1..Len(s) PROVE s[i] <= Len(Bytes)
  BY RowsAre
<1> QED
  BY <1>1 DEF Cut

LEMMA FromIs ==
  ASSUME NEW S, NEW r \in Int
  PROVE  /\ From(S, r) \in Seq(Rows) /\ Increasing(From(S, r))
         /\ Len(From(S, r)) <= Len(Bytes)
         /\ \A i \in 1..Len(From(S, r)) : From(S, r)[i] > r /\ From(S, r)[i] \in S
         /\ \A x \in S \cap Rows : x > r => \E i \in 1..Len(From(S, r)) : From(S, r)[i] = x
<1> DEFINE f == From(S, r)
<1>1. f = InOrder({x \in S : x > r})
  BY DEF From
<1>2. /\ f \in Seq(Rows) /\ Len(f) <= Len(Bytes) /\ Increasing(f)
      /\ Elements(f) = {x \in S : x > r} \cap Rows
  BY <1>1, InOrderFacts
<1> HIDE DEF f
<1>3. DOMAIN f = 1..Len(f)
  BY <1>2
<1>4. \A i \in 1..Len(f) : f[i] > r /\ f[i] \in S
  BY <1>2, <1>3 DEF Elements
<1>5. ASSUME NEW x \in S \cap Rows, x > r PROVE \E i \in 1..Len(f) : f[i] = x
  <2>1. x \in Elements(f)
    BY <1>2, <1>5
  <2> QED
    BY <1>3, <2>1 DEF Elements
<1> QED
  BY <1>2, <1>4, <1>5 DEF f

LEMMA InOrderIs ==
  ASSUME NEW S
  PROVE  /\ \A i \in 1..Len(InOrder(S)) : InOrder(S)[i] > 0 /\ InOrder(S)[i] \in S
         /\ \A x \in S \cap Rows : \E i \in 1..Len(InOrder(S)) : InOrder(S)[i] = x
<1> DEFINE f == InOrder(S)
<1>2. f \in Seq(Rows) /\ Elements(f) = S \cap Rows
  BY InOrderFacts
<1> HIDE DEF f
<1>3. DOMAIN f = 1..Len(f)
  BY <1>2
<1>4. \A i \in 1..Len(f) : f[i] \in Rows /\ f[i] \in S
  BY <1>2, <1>3 DEF Elements
<1>5. ASSUME NEW x \in S \cap Rows PROVE \E i \in 1..Len(f) : f[i] = x
  BY <1>2, <1>3 DEF Elements
<1> QED
  BY <1>4, <1>5, RowsAre DEF f

LEMMA DropIs ==
  ASSUME NEW T, NEW s \in Seq(T), NEW off \in 0..Len(s)
  PROVE  /\ Drop(s, off) \in Seq(T) /\ Len(Drop(s, off)) = Len(s) - off
         /\ \A i \in 1..Len(Drop(s, off)) : Drop(s, off)[i] = s[off + i]
<1>1. CASE off < Len(s)
  BY <1>1 DEF Drop
<1>2. CASE off = Len(s)
  <2>1. SubSeq(s, off + 1, Len(s)) = <<>>
    BY <1>2, SubSeqEmpty
  <2>2. Drop(s, off) = <<>>
    BY <2>1 DEF Drop
  <2> QED
    BY <1>2, <2>2
<1> QED
  BY <1>1, <1>2

LEMMA WindowIs ==
  ASSUME NEW T, NEW s \in Seq(T), NEW off \in Nat, NEW n \in Nat
  PROVE  /\ Window(s, off, n) \in Seq(T)
         /\ Len(Window(s, off, n)) = IF Len(s) <= off THEN 0
                                     ELSE IF off + n <= Len(s) THEN n ELSE Len(s) - off
         /\ \A i \in 1..Len(Window(s, off, n)) : Window(s, off, n)[i] = s[off + i]
<1> DEFINE d == Drop(s, off)
<1>1. d = SubSeq(s, off + 1, Len(s))
  BY DEF Drop
<1>2. CASE Len(s) <= off
  <2>1. d = <<>>
    BY <1>1, <1>2, SubSeqEmpty
  <2>2. First(<<>>, n) = <<>>
    BY DEF First
  <2>3. Window(s, off, n) = <<>>
    BY <2>1, <2>2 DEF Window
  <2> QED
    BY <1>2, <2>3
<1>3. CASE off < Len(s)
  <2>1. d \in Seq(T) /\ Len(d) = Len(s) - off /\ \A i \in 1..Len(d) : d[i] = s[off + i]
    BY <1>1, <1>3
  <2>2. PICK m \in 0..Len(d) : /\ First(d, n) = SubSeq(d, 1, m) /\ m <= n
                               /\ (n <= Len(d) => m = n) /\ (n >= Len(d) => m = Len(d))
    <3> HIDE DEF d
    <3> QED
      BY <2>1, FirstIs
  <2>3. Window(s, off, n) = SubSeq(d, 1, m)
    BY <2>2 DEF Window
  <2> DEFINE w == SubSeq(d, 1, m)
  <2> HIDE DEF d
  <2>4. w \in Seq(T) /\ Len(w) = m /\ \A i \in 1..m : w[i] = d[i]
    BY <2>1
  <2> HIDE DEF w
  <2>5. Len(w) = IF off + n <= Len(s) THEN n ELSE Len(s) - off
    BY <1>3, <2>1, <2>2, <2>4
  <2>6. ASSUME NEW i \in 1..Len(w) PROVE w[i] = s[off + i]
    <3>1. i \in 1..m /\ i \in 1..Len(d)
      BY <2>1, <2>4
    <3>2. w[i] = d[i] /\ d[i] = s[off + i]
      BY <2>1, <2>4, <3>1
    <3> QED
      BY <3>2
  <2>7. Window(s, off, n) = w
    BY <2>3 DEF w
  <2> QED
    BY <1>3, <2>4, <2>5, <2>6, <2>7
<1>4. Len(s) <= off \/ off < Len(s)
  OBVIOUS
<1> QED
  BY <1>2, <1>3, <1>4, Zenon

\* Of the rows fetched a prefix is kept.
LEMMA KeptIs ==
  ASSUME NEW f \in Seq(Rows), NEW limit \in Nat \ {0}, NEW beside \in Nat
  PROVE  LET k == Kept(f, limit, beside) IN
         /\ k.rows \in Seq(Rows) /\ Len(k.rows) <= limit /\ Len(k.rows) <= Len(f)
         /\ \A i \in 1..Len(k.rows) : k.rows[i] = f[i]
         /\ k.truncated <=> Len(k.rows) < Len(f)
         /\ k.truncated \in BOOLEAN
         /\ k.oversize <=> k.rows = <<>> /\ f # <<>>
         /\ k.rows = <<>> \/ Size(k.rows) + beside <= MaxBytes
         /\ k.rows = <<>> /\ f # <<>> => Size(SubSeq(f, 1, 1)) + beside > MaxBytes
         /\ Len(f) <= limit /\ Size(f) + beside <= MaxBytes => k.rows = f
<1> DEFINE s == First(f, limit)
           w == Within(s, beside)
           k == Kept(f, limit, beside)
<1>1. PICK m \in 0..Len(f) : /\ s = SubSeq(f, 1, m) /\ m <= limit /\ (limit <= Len(f) => m = limit)
                             /\ (limit >= Len(f) => m = Len(f))
  BY FirstIs
<1>2. k.rows = w /\ k.truncated = (Len(f) > limit \/ Len(w) < Len(s))
      /\ k.oversize = (s # <<>> /\ w = <<>>)
  BY DEF Kept
<1> HIDE DEF s, k
<1>3. s \in Seq(Rows) /\ Len(s) = m /\ \A i \in 1..m : s[i] = f[i]
  BY <1>1
<1>4. PICK n \in 0..Len(s) : /\ w = SubSeq(s, 1, n)
                             /\ n = 0 \/ Size(SubSeq(s, 1, n)) + beside <= MaxBytes
                             /\ n = Len(s) \/ Size(SubSeq(s, 1, n + 1)) + beside > MaxBytes
                             /\ Size(s) + beside <= MaxBytes => n = Len(s)
  BY <1>3, WithinIs
<1> HIDE DEF w
<1>5. w \in Seq(Rows) /\ Len(w) = n /\ \A i \in 1..n : w[i] = f[i]
  BY <1>3, <1>4
<1>6. n <= limit /\ n <= Len(f) /\ Len(f) \in Nat
  BY <1>1, <1>3, <1>4
<1>7. k.truncated <=> n < Len(f)
  <2>1. Len(w) = n /\ Len(s) = m /\ n <= m
    BY <1>3, <1>4, <1>5
  <2>2. (Len(f) > limit \/ n < m) <=> n < Len(f)
    BY <1>1, <1>6, <2>1
  <2> QED
    BY <1>2, <2>1, <2>2
<1>8. (w = <<>>) <=> (n = 0)
  BY <1>4, <1>5
<1>9. (s = <<>>) <=> (m = 0)
  BY <1>3
<1>10. (f = <<>>) <=> (m = 0)
  BY <1>1
<1>11. ASSUME n = 0, m # 0 PROVE Size(SubSeq(f, 1, 1)) + beside > MaxBytes
  <2>1. SubSeq(s, 1, 1) = SubSeq(f, 1, 1)
    BY <1>1, <1>3, <1>11
  <2>2. n + 1 = 1 /\ n # Len(s)
    BY <1>3, <1>11
  <2>3. Size(SubSeq(s, 1, 1)) + beside > MaxBytes
    BY <1>4, <2>2
  <2> QED
    BY <2>1, <2>3
<1>12. ASSUME Len(f) <= limit, Size(f) + beside <= MaxBytes PROVE w = f
  <2>1. m = Len(f)
    BY <1>1, <1>12
  <2>2. s = f
    BY <1>1, <2>1
  <2>3. n = Len(s)
    BY <1>4, <1>12, <2>2
  <2> QED
    BY <1>4, <2>2, <2>3
<1>13. k.truncated \in BOOLEAN
  BY <1>2
<1> QED
  BY <1>2, <1>4, <1>5, <1>6, <1>7, <1>8, <1>9, <1>10, <1>11, <1>12, <1>13 DEF k
-----------------------------------------------------------------------------
(***************************************************************************)
(* Pages with an offset.                                                   *)
(***************************************************************************)
CursorType == [at : -1..Len(Bytes), skip : Nat, size : Nat]

PageType == [rows : Seq(Rows), next : CursorType, truncated : BOOLEAN, error : BOOLEAN]

LEMMA EndIs ==
  /\ End \in CursorType /\ End.at = -1
  /\ \A n \in 0..Len(Bytes) : /\ encode_cursor(n) \in CursorType /\ encode_cursor(n) # End
                              /\ encode_cursor(n).at = n /\ encode_cursor(n).skip = 0
BY RowsAre DEF End, encode_cursor, Cursor, CursorType

\* A page of src from an offset on, and where it says to go on.
OffsetOK(src, at, limit, p) ==
    /\ p \in PageType /\ ~p.error /\ Len(p.rows) <= limit
    /\ at + Len(p.rows) <= Len(src) \/ p.rows = <<>>
    /\ \A i \in 1..Len(p.rows) : p.rows[i] = src[at + i]
    /\ p.next = End \/ (p.next = encode_cursor(at + Len(p.rows)) /\ at + Len(p.rows) <= Len(src))
    /\ p.next = End /\ ~p.truncated => at + Len(p.rows) >= Len(src)

LEMMA OffsetKept ==
  ASSUME NEW src \in Seq(Rows), Len(src) <= Len(Bytes), NEW at \in Nat, NEW limit \in Nat \ {0},
         NEW beside \in Nat
  PROVE  LET f == Window(src, at, limit + 1)
             k == Kept(f, limit, beside)
             p == Page(k.rows, IF k.truncated THEN encode_cursor(at + Len(k.rows)) ELSE End,
                       k.truncated)
         IN  OffsetOK(src, at, limit, p)
<1> DEFINE f == Window(src, at, limit + 1)
           k == Kept(f, limit, beside)
           r == k.rows
           p == Page(r, IF k.truncated THEN encode_cursor(at + Len(r)) ELSE End, k.truncated)
<1>1. /\ f \in Seq(Rows)
      /\ Len(f) = IF Len(src) <= at THEN 0
                  ELSE IF at + (limit + 1) <= Len(src) THEN limit + 1 ELSE Len(src) - at
      /\ \A i \in 1..Len(f) : f[i] = src[at + i]
  <2> DEFINE n == limit + 1
  <2>1. n \in Nat
    OBVIOUS
  <2> HIDE DEF n
  <2>2. /\ Window(src, at, n) \in Seq(Rows)
        /\ Len(Window(src, at, n)) = IF Len(src) <= at THEN 0
                                     ELSE IF at + n <= Len(src) THEN n ELSE Len(src) - at
        /\ \A i \in 1..Len(Window(src, at, n)) : Window(src, at, n)[i] = src[at + i]
    BY ONLY src \in Seq(Rows), at \in Nat, <2>1, WindowIs, ZenonT(30)
  <2> QED
    BY <2>2 DEF n
<1> HIDE DEF f
<1>2. /\ r \in Seq(Rows) /\ Len(r) <= limit /\ Len(r) <= Len(f)
      /\ \A i \in 1..Len(r) : r[i] = f[i]
      /\ k.truncated <=> Len(r) < Len(f)
      /\ k.truncated \in BOOLEAN
  BY <1>1, KeptIs
<1>3. p.rows = r /\ p.truncated = k.truncated /\ p.error = FALSE
      /\ p.next = IF k.truncated THEN encode_cursor(at + Len(r)) ELSE End
  BY DEF Page
<1> HIDE DEF k, r
<1>4. Len(r) \in Nat /\ Len(f) \in Nat /\ Len(src) \in Nat /\ Len(Bytes) \in Nat
  BY <1>1, <1>2, RowsAre
<1>5. at + Len(r) <= Len(src) \/ Len(r) = 0
  BY <1>1, <1>2, <1>4
<1>6. k.truncated => at + Len(r) <= Len(src) /\ at + Len(r) \in 0..Len(Bytes)
  BY <1>1, <1>2, <1>4
<1>7. ~k.truncated => at + Len(r) >= Len(src)
  BY <1>1, <1>2, <1>4
<1>8. p.next \in CursorType
  BY <1>3, <1>6, EndIs
<1>9. p \in PageType
  BY <1>2, <1>3, <1>8 DEF PageType, Page
<1>10. ASSUME NEW i \in 1..Len(r) PROVE r[i] = src[at + i]
  <2>1. i \in 1..Len(f)
    BY <1>2, <1>4
  <2> QED
    BY <1>1, <1>2, <2>1
<1>11. Len(r) = 0 => r = <<>>
  BY <1>2
<1>12. p.next = End => ~k.truncated
  BY <1>3, <1>6, EndIs
<1>13. p.next = End \/ (p.next = encode_cursor(at + Len(r)) /\ at + Len(r) <= Len(src))
  BY <1>3, <1>6
<1>14. OffsetOK(src, at, limit, p)
  <2> HIDE DEF p
  <2> QED
    BY <1>2, <1>3, <1>5, <1>7, <1>9, <1>10, <1>11, <1>12, <1>13 DEF OffsetOK
<1> QED
  BY <1>14 DEF f, k, r

\* The catalog's page, which is never cut for its bytes.
LEMMA OffsetCatalog ==
  ASSUME NEW src \in Seq(Rows), Len(src) <= Len(Bytes), NEW at \in Nat, NEW limit \in Nat \ {0}
  PROVE  LET p == catalog_page(Window(src, at, limit + 1), at, limit) IN
         OffsetOK(src, at, limit, p) /\ (p.next # End => p.rows # <<>>)
<1> DEFINE f == Window(src, at, limit + 1)
           r == First(f, limit)
           p == catalog_page(f, at, limit)
<1>1. /\ f \in Seq(Rows)
      /\ Len(f) = IF Len(src) <= at THEN 0
                  ELSE IF at + (limit + 1) <= Len(src) THEN limit + 1 ELSE Len(src) - at
      /\ \A i \in 1..Len(f) : f[i] = src[at + i]
  <2> DEFINE n == limit + 1
  <2>1. n \in Nat
    OBVIOUS
  <2> HIDE DEF n
  <2>2. /\ Window(src, at, n) \in Seq(Rows)
        /\ Len(Window(src, at, n)) = IF Len(src) <= at THEN 0
                                     ELSE IF at + n <= Len(src) THEN n ELSE Len(src) - at
        /\ \A i \in 1..Len(Window(src, at, n)) : Window(src, at, n)[i] = src[at + i]
    BY ONLY src \in Seq(Rows), at \in Nat, <2>1, WindowIs, ZenonT(30)
  <2> QED
    BY <2>2 DEF n
<1> HIDE DEF f
<1>2. PICK m \in 0..Len(f) : /\ r = SubSeq(f, 1, m) /\ m <= limit /\ (limit <= Len(f) => m = limit)
                             /\ (limit >= Len(f) => m = Len(f))
  BY <1>1, FirstIs
<1>3. p.rows = r /\ p.truncated = FALSE /\ p.error = FALSE
      /\ p.next = IF Len(f) > limit THEN encode_cursor(at + limit) ELSE End
  BY DEF catalog_page, Page
<1> HIDE DEF r
<1>4. r \in Seq(Rows) /\ Len(r) = m /\ \A i \in 1..m : r[i] = f[i]
  BY <1>1, <1>2
<1>5. Len(f) \in Nat /\ Len(src) \in Nat /\ Len(Bytes) \in Nat
  BY <1>1, RowsAre
<1>6. at + m <= Len(src) \/ m = 0
  BY <1>1, <1>2, <1>5
<1>7. Len(f) > limit => m = limit /\ at + m <= Len(src) /\ at + m \in 0..Len(Bytes)
  BY <1>1, <1>2, <1>5
<1>8. ~(Len(f) > limit) => at + m >= Len(src)
  BY <1>1, <1>2, <1>5
<1>9. p.next \in CursorType
  BY <1>3, <1>7, EndIs
<1>10. p \in PageType
  BY <1>3, <1>4, <1>9 DEF PageType, catalog_page, Page
<1>11. ASSUME NEW i \in 1..Len(r) PROVE r[i] = src[at + i]
  <2>1. i \in 1..m /\ i \in 1..Len(f)
    BY <1>2, <1>4, <1>5
  <2> QED
    BY <1>1, <1>4, <2>1
<1>12. (m = 0) <=> (r = <<>>)
  BY <1>4
<1>13. p.next = End => ~(Len(f) > limit)
  BY <1>3, <1>7, EndIs
<1>14. p.next # End => m = limit /\ p.next = encode_cursor(at + m) /\ at + m <= Len(src)
  BY <1>3, <1>7
<1>15. OffsetOK(src, at, limit, p) /\ (p.next # End => p.rows # <<>>)
  <2> HIDE DEF p
  <2> QED
    BY <1>2, <1>3, <1>4, <1>6, <1>8, <1>10, <1>11, <1>12, <1>13, <1>14 DEF OffsetOK
<1> QED
  BY <1>15 DEF f

\* Such a page carries what lies between its place and the next.
LEMMA OffsetCarries ==
  ASSUME NEW src \in Seq(Rows), Increasing(src), \A i \in 1..Len(src) : src[i] > 0,
         NEW W, \A x \in W : \E i \in 1..Len(src) : src[i] = x,
         NEW at \in Nat, at <= Len(src), NEW limit, NEW p, OffsetOK(src, at, limit, p)
  PROVE  /\ p.next # End => p.next.at <= Len(src)
                            /\ Carries(W, Top(src, 0, at), Top(src, 0, p.next.at), p.rows)
         /\ p.next = End /\ ~p.truncated => Carries(W, Top(src, 0, at), Len(Bytes), p.rows)
<1>0. /\ p.rows \in Seq(Rows) /\ Len(p.rows) \in Nat /\ Len(src) \in Nat /\ Len(Bytes) \in Nat
      /\ (p.rows = <<>> => Len(p.rows) = 0)
  BY RowsAre DEF OffsetOK, PageType
<1> DEFINE e == at + Len(p.rows)
<1>1. e \in 0..Len(src)
  BY <1>0 DEF OffsetOK
<1>2. /\ Cut(src, at, Top(src, 0, at)) /\ Top(src, 0, at) \in Int
      /\ Cut(src, e, Top(src, 0, e)) /\ Top(src, 0, e) \in Int
      /\ Top(src, 0, at) <= Top(src, 0, e)
  <2>1. at \in 0..Len(src) /\ at \in 0..e
    BY <1>0, <1>1
  <2> HIDE DEF e
  <2> QED
    BY <1>1, <2>1, TopCuts
<1>3. \A i \in 1..Len(p.rows) : p.rows[i] = src[at + i]
  BY DEF OffsetOK
<1>4. ASSUME p.next # End
      PROVE  p.next.at <= Len(src)
             /\ Carries(W, Top(src, 0, at), Top(src, 0, p.next.at), p.rows)
  <2>1. p.next.at = e
    BY <1>4 DEF OffsetOK, encode_cursor, Cursor
  <2>2. Carries(W, Top(src, 0, at), Top(src, 0, e), p.rows)
    <3> DEFINE lo == Top(src, 0, at)
               hi == Top(src, 0, e)
    <3>1. lo \in Int /\ hi \in Int /\ lo <= hi /\ Cut(src, at, lo) /\ Cut(src, e, hi)
      BY <1>2
    <3>2. \A x \in W : x > lo => \E i \in 1..Len(src) : src[i] = x
      OBVIOUS
    <3>3. at + Len(p.rows) <= Len(src)
      BY <1>1
    <3> HIDE DEF lo, hi
    <3>4. Carries(W, lo, hi, p.rows)
      BY <1>0, <1>3, <3>1, <3>2, <3>3, Pieces
    <3> QED
      BY <3>4 DEF lo, hi
  <2> QED
    BY <1>1, <2>1, <2>2
<1>5. ASSUME p.next = End, ~p.truncated PROVE Carries(W, Top(src, 0, at), Len(Bytes), p.rows)
  <2>1. e = Len(src)
    BY <1>0, <1>1, <1>5 DEF OffsetOK
  <2>2. Cut(src, e, Len(Bytes))
    BY <2>1, EndCuts
  <2>3. Top(src, 0, at) <= Len(Bytes)
    <3>1. CASE at = 0
      BY <1>0, <3>1 DEF Top
    <3>2. CASE at # 0
      <4>1. at \in 1..Len(src)
        BY <1>0, <3>2
      <4>2. src[at] \in Rows
        BY <4>1
      <4> QED
        BY <3>2, <4>2, RowsAre DEF Top
    <3> QED
      BY <3>1, <3>2
  <2> DEFINE lo == Top(src, 0, at)
             hi == Len(Bytes)
  <2>4. lo \in Int /\ hi \in Int /\ lo <= hi /\ Cut(src, at, lo) /\ Cut(src, e, hi)
    BY <1>0, <1>2, <2>2, <2>3
  <2>5. \A x \in W : x > lo => \E i \in 1..Len(src) : src[i] = x
    OBVIOUS
  <2>6. at + Len(p.rows) <= Len(src)
    BY <1>1
  <2> HIDE DEF lo, hi
  <2>7. Carries(W, lo, hi, p.rows)
    BY <1>0, <1>3, <2>4, <2>5, <2>6, Pieces
  <2> QED
    BY <2>7 DEF lo, hi
<1> QED
  BY <1>4, <1>5
-----------------------------------------------------------------------------
(***************************************************************************)
(* Pages that go on after a row.                                           *)
(***************************************************************************)
ScanOK(src, limit, p) ==
    /\ p \in PageType /\ ~p.error /\ Len(p.rows) <= limit /\ Len(p.rows) <= Len(src)
    /\ \A i \in 1..Len(p.rows) : p.rows[i] = src[i]
    /\ p.next = End \/ (p.rows # <<>> /\ p.next = encode_cursor(src[Len(p.rows)]))
    /\ ~p.truncated => Len(p.rows) = Len(src)

FirstOf(s, n, f) ==
    /\ f \in Seq(Rows) /\ Len(f) = (IF n < Len(s) THEN n ELSE Len(s))
    /\ \A i \in 1..Len(f) : f[i] = s[i]

LEMMA FirstRows ==
  ASSUME NEW s \in Seq(Rows), NEW n \in Nat
  PROVE  FirstOf(s, n, First(s, n))
<1>1. PICK m \in 0..Len(s) : /\ First(s, n) = SubSeq(s, 1, m) /\ m <= n /\ (n <= Len(s) => m = n)
                             /\ (n >= Len(s) => m = Len(s))
  BY FirstIs
<1> DEFINE f == SubSeq(s, 1, m)
<1>2. f \in Seq(Rows) /\ Len(f) = m /\ \A i \in 1..m : f[i] = s[i]
  OBVIOUS
<1>3. m = (IF n < Len(s) THEN n ELSE Len(s))
  BY <1>1
<1>4. First(s, n) = f
  BY <1>1
<1> HIDE DEF f
<1> QED
  BY <1>2, <1>3, <1>4 DEF FirstOf

LEMMA ScanKept ==
  ASSUME NEW src \in Seq(Rows), NEW limit \in Nat \ {0}, NEW f, FirstOf(src, limit + 1, f),
         NEW p, p = ScanPage(Kept(f, limit, 0)), ~p.error
  PROVE  ScanOK(src, limit, p) /\ (p.rows = <<>> \/ Size(p.rows) <= MaxBytes)
<1> DEFINE k == Kept(f, limit, 0)
           r == k.rows
<1>1. /\ f \in Seq(Rows) /\ Len(f) = (IF limit + 1 < Len(src) THEN limit + 1 ELSE Len(src))
      /\ \A i \in 1..Len(f) : f[i] = src[i]
  BY DEF FirstOf
<1>2. /\ r \in Seq(Rows) /\ Len(r) <= limit /\ Len(r) <= Len(f)
      /\ \A i \in 1..Len(r) : r[i] = f[i]
      /\ k.truncated <=> Len(r) < Len(f)
      /\ k.truncated \in BOOLEAN
      /\ k.oversize <=> r = <<>> /\ f # <<>>
      /\ r = <<>> \/ Size(r) + 0 <= MaxBytes
  BY <1>1, KeptIs
<1>3. ~k.oversize
  BY DEF ScanPage, NoPage
<1>4. p = Page(r, IF k.truncated THEN encode_cursor(r[Len(r)]) ELSE End, k.truncated)
  BY <1>3, Zenon DEF ScanPage
<1> HIDE DEF k, r
<1>5. p.rows = r /\ p.truncated = k.truncated /\ p.error = FALSE
      /\ p.next = IF k.truncated THEN encode_cursor(r[Len(r)]) ELSE End
  BY <1>4 DEF Page
<1>6. Len(r) \in Nat /\ Len(f) \in Nat /\ Len(src) \in Nat
  BY <1>1, <1>2
<1>7. k.truncated => r # <<>>
  BY <1>1, <1>2, <1>3, <1>6
<1>8. k.truncated => r[Len(r)] = src[Len(r)] /\ r[Len(r)] \in Rows
  <2>1. SUFFICES ASSUME k.truncated PROVE r[Len(r)] = src[Len(r)] /\ r[Len(r)] \in Rows
    OBVIOUS
  <2>2. Len(r) \in 1..Len(r) /\ Len(r) \in 1..Len(f)
    BY <1>2, <1>6, <1>7, <2>1
  <2> QED
    BY <1>1, <1>2, <2>2
<1>9. p.next \in CursorType
  BY <1>5, <1>8, EndIs, RowsAre
<1>10. p \in PageType
  BY <1>2, <1>4, <1>5, <1>9 DEF PageType, Page
<1>11. ASSUME NEW i \in 1..Len(r) PROVE r[i] = src[i]
  <2>1. i \in 1..Len(f)
    BY <1>2, <1>6
  <2> QED
    BY <1>1, <1>2, <2>1
<1>12. ~k.truncated => Len(r) = Len(src)
  BY <1>1, <1>2, <1>6
<1>13. Len(r) <= Len(src)
  BY <1>1, <1>2, <1>6
<1>14. r = <<>> \/ Size(r) <= MaxBytes
  <2>1. Size(r) \in Nat
    BY <1>2, SizeNat
  <2> QED
    BY <1>2, <2>1
<1> QED
  BY <1>2, <1>5, <1>7, <1>8, <1>10, <1>11, <1>12, <1>13, <1>14 DEF ScanOK

\* Where the rows of a page end, and where the next page begins, are one place.
LEMMA ScanCarries ==
  ASSUME NEW S, S \subseteq Rows, NEW at \in Int, at <= Len(Bytes), NEW limit,
         NEW p, ScanOK(From(S, at), limit, p)
  PROVE  /\ p.next # End => p.next.at > at /\ p.next.at \in 0..Len(Bytes) /\ p.next.skip = 0
                            /\ Carries(S, at, p.next.at, p.rows)
         /\ p.next = End /\ ~p.truncated => Carries(S, at, Len(Bytes), p.rows)
<1> DEFINE src == From(S, at)
           n == Len(p.rows)
<1>1. /\ src \in Seq(Rows) /\ Increasing(src)
      /\ \A i \in 1..Len(src) : src[i] > at
      /\ \A x \in S : x > at => \E i \in 1..Len(src) : src[i] = x
  BY FromIs
<1>2. ScanOK(src, limit, p)
  OBVIOUS
<1> HIDE DEF src
<1>3. /\ p.rows \in Seq(Rows) /\ n \in Nat /\ Len(src) \in Nat /\ n <= Len(src)
      /\ Len(Bytes) \in Nat /\ \A i \in 1..n : p.rows[i] = src[0 + i]
  BY <1>1, <1>2, RowsAre DEF ScanOK, PageType
<1>4. 0 \in 0..Len(src) /\ n \in 0..Len(src) /\ 0 \in 0..n /\ 0 + n = n
  BY <1>3
<1>5. /\ Cut(src, 0, at) /\ Cut(src, n, Top(src, at, n)) /\ Top(src, at, n) \in Int
      /\ at <= Top(src, at, n)
  <2>1. Cut(src, 0, Top(src, at, 0)) /\ Top(src, at, 0) = at
    BY <1>1, <1>4, TopCuts DEF Top
  <2> HIDE DEF n
  <2> QED
    BY <1>1, <1>4, <2>1, TopCuts
<1>6. ASSUME p.next # End
      PROVE  /\ p.next.at > at /\ p.next.at \in 0..Len(Bytes) /\ p.next.skip = 0
             /\ Carries(S, at, p.next.at, p.rows)
  <2>1. p.rows # <<>> /\ p.next = encode_cursor(src[n])
    BY <1>2, <1>6 DEF ScanOK
  <2>2. n \in 1..Len(src)
    BY <1>3, <2>1
  <2>3. src[n] \in Rows /\ src[n] > at
    BY <1>1, <2>2
  <2>4. p.next.at = src[n] /\ p.next.skip = 0 /\ src[n] \in 0..Len(Bytes)
    BY <2>1, <2>3, RowsAre, EndIs
  <2>5. Top(src, at, n) = src[n]
    BY <2>2 DEF Top
  <2>6. Carries(S, at, src[n], p.rows)
    BY <1>1, <1>3, <1>4, <1>5, <2>5, Pieces
  <2> QED
    BY <2>3, <2>4, <2>6
<1>7. ASSUME ~p.truncated PROVE Carries(S, at, Len(Bytes), p.rows)
  <2>1. n = Len(src)
    BY <1>2, <1>7 DEF ScanOK
  <2>2. Cut(src, n, Len(Bytes))
    BY <1>1, <2>1, EndCuts
  <2> QED
    BY <1>1, <1>3, <1>4, <1>5, <2>2, Pieces
<1> QED
  BY <1>6, <1>7
-----------------------------------------------------------------------------
(***************************************************************************)
(* A page of a read, for every adapter.  The place of a cursor is the last *)
(* row before it.                                                          *)
(***************************************************************************)
ReadMark(S, c) ==
    IF adapter = "cql" THEN Top(From(S, c.at), c.at, c.skip)
    ELSE IF adapter = "qdrant" THEN c.at - 1
    ELSE IF adapter \in Keyset THEN c.at
    ELSE Top(InOrder(S), 0, c.at)

ReadPlaced(S, c) ==
    IF adapter = "cql" THEN c.skip <= Len(From(S, c.at))
    ELSE adapter \in Keyset \/ c.at <= Len(InOrder(S))

\* What a page of at most limit rows, asked for at c, delivers.
ReadContract(S, c, limit, p) ==
    /\ p \in PageType /\ ~p.error /\ Len(p.rows) <= limit
    /\ p.rows = <<>> \/ Size(p.rows) <= MaxBytes
    /\ p.next # End => p.next.at >= 0
    /\ ReadPlaced(S, c) =>
         /\ p.next # End => /\ ReadPlaced(S, p.next)
                            /\ Carries(S, ReadMark(S, c), ReadMark(S, p.next), p.rows)
         /\ p.next = End /\ ~p.truncated => Carries(S, ReadMark(S, c), Len(Bytes), p.rows)

Advances(S, c, p) ==
    \/ p.next = End \/ Beyond(p.next, c)
    \/ adapter = "mongodb" /\ Size(Window(InOrder(S), c.at, 1)) > MaxBytes

LEMMA MarksInt ==
  ASSUME NEW S, S \subseteq Rows, NEW c \in CursorType, c.at >= 0, ReadPlaced(S, c)
  PROVE  ReadMark(S, c) \in Int
<1>1. c.at \in Nat /\ c.at \in Int /\ c.skip \in Nat
  BY RowsAre DEF CursorType
<1>2. CASE adapter = "cql"
  <2>1. c.skip \in 0..Len(From(S, c.at))
    BY <1>1, <1>2, FromIs DEF ReadPlaced
  <2>2. Top(From(S, c.at), c.at, c.skip) \in Int
    BY <1>1, <2>1, FromIs, TopCuts
  <2> QED
    BY <1>2, <2>2 DEF ReadMark
<1>3. CASE adapter # "cql" /\ adapter \notin Keyset
  <2>0. Len(InOrder(S)) \in Nat
    BY InOrderFacts
  <2>1. c.at \in 0..Len(InOrder(S))
    BY <1>1, <1>3, <2>0 DEF ReadPlaced
  <2>2. Top(InOrder(S), 0, c.at) \in Int
    <3> DEFINE src == InOrder(S)
    <3>1. src \in Seq(Rows) /\ Increasing(src) /\ \A i \in 1..Len(src) : src[i] > 0
      BY InOrderFacts, InOrderIs
    <3>2. c.at \in 0..Len(src)
      BY <2>1
    <3> HIDE DEF src
    <3>3. Top(src, 0, c.at) \in Int
      BY <3>1, <3>2, TopCuts
    <3> QED
      BY <3>3 DEF src
  <2> QED
    BY <1>3, <2>2 DEF ReadMark, Keyset
<1>4. CASE adapter \in Keyset
  BY <1>1, <1>4 DEF ReadMark, Keyset
<1> QED
  BY <1>2, <1>3, <1>4

LEMMA OffsetReads ==
  ASSUME NEW S, S \subseteq Rows, NEW c \in CursorType, c.at >= 0, NEW limit \in Nat \ {0},
         NEW p, OffsetOK(InOrder(S), c.at, limit, p),
         p.rows = <<>> \/ Size(p.rows) <= MaxBytes,
         p.next # End => p.rows # <<>>
                         \/ (adapter = "mongodb" /\ Size(Window(InOrder(S), c.at, 1)) > MaxBytes),
         adapter # "cql", adapter \notin Keyset
  PROVE  ReadContract(S, c, limit, p) /\ Advances(S, c, p)
<1> DEFINE src == InOrder(S)
<1>1. /\ src \in Seq(Rows) /\ Len(src) <= Len(Bytes) /\ Increasing(src)
      /\ \A i \in 1..Len(src) : src[i] > 0
      /\ \A x \in S : \E i \in 1..Len(src) : src[i] = x
  BY InOrderFacts, InOrderIs
<1>2. c.at \in Nat /\ c.skip \in Nat
  BY DEF CursorType
<1>3. p \in PageType /\ ~p.error /\ Len(p.rows) <= limit /\ p.rows \in Seq(Rows)
  BY DEF OffsetOK, PageType
<1>4. ASSUME p.next # End
      PROVE  /\ p.next.at = c.at + Len(p.rows) /\ p.next.skip = 0 /\ p.next.at >= 0
             /\ Len(p.rows) \in Nat /\ (p.rows # <<>> => Len(p.rows) > 0)
  BY <1>2, <1>3, <1>4 DEF OffsetOK, encode_cursor, Cursor
<1>5. Advances(S, c, p)
  BY <1>2, <1>4 DEF Advances, Beyond
<1>6. ReadPlaced(S, c) <=> c.at <= Len(src)
  BY DEF ReadPlaced
<1>7. ReadPlaced(S, p.next) <=> p.next.at <= Len(src)
  BY DEF ReadPlaced
<1>8. ReadMark(S, c) = Top(src, 0, c.at) /\ ReadMark(S, p.next) = Top(src, 0, p.next.at)
  BY DEF ReadMark, Keyset
<1>9. OffsetOK(src, c.at, limit, p)
  OBVIOUS
<1> HIDE DEF src
<1>10. ASSUME c.at <= Len(src)
       PROVE  /\ p.next # End => p.next.at <= Len(src)
                            /\ Carries(S, Top(src, 0, c.at), Top(src, 0, p.next.at), p.rows)
              /\ p.next = End /\ ~p.truncated => Carries(S, Top(src, 0, c.at), Len(Bytes), p.rows)
  BY <1>1, <1>2, <1>9, <1>10, OffsetCarries
<1>11. ReadContract(S, c, limit, p)
  BY <1>3, <1>4, <1>6, <1>7, <1>8, <1>10 DEF ReadContract
<1> QED
  BY <1>5, <1>11

LEMMA ScanReads ==
  ASSUME NEW S, S \subseteq Rows, NEW c \in CursorType, c.at >= 0, NEW limit \in Nat \ {0},
         NEW p, ScanOK(From(S, c.at), limit, p),
         p.rows = <<>> \/ Size(p.rows) <= MaxBytes,
         adapter \in Keyset \ {"qdrant"}
  PROVE  ReadContract(S, c, limit, p) /\ Advances(S, c, p)
<1>1. c.at \in Int /\ c.at <= Len(Bytes)
  BY RowsAre DEF CursorType
<1>2. p \in PageType /\ ~p.error /\ Len(p.rows) <= limit
  BY DEF ScanOK
<1>3. /\ p.next # End => p.next.at > c.at /\ p.next.at \in 0..Len(Bytes)
                         /\ Carries(S, c.at, p.next.at, p.rows)
      /\ p.next = End /\ ~p.truncated => Carries(S, c.at, Len(Bytes), p.rows)
  BY <1>1, ScanCarries
<1>4. ReadMark(S, c) = c.at /\ ReadMark(S, p.next) = p.next.at /\ ReadPlaced(S, p.next)
  BY DEF ReadMark, ReadPlaced, Keyset
<1>5. Advances(S, c, p)
  BY <1>3 DEF Advances, Beyond
<1> QED
  BY <1>2, <1>3, <1>4, <1>5 DEF ReadContract
LEMMA KeptFits ==
  ASSUME NEW f \in Seq(Rows), NEW limit \in Nat \ {0}, NEW beside \in Nat
  PROVE  Kept(f, limit, beside).rows = <<>> \/ Size(Kept(f, limit, beside).rows) <= MaxBytes
<1> DEFINE r == Kept(f, limit, beside).rows
<1>1. r \in Seq(Rows) /\ (r = <<>> \/ Size(r) + beside <= MaxBytes)
  BY KeptIs
<1> HIDE DEF r
<1>2. Size(r) \in Nat /\ MaxBytes \in Nat
  BY <1>1, SizeNat, PagesAssumption
<1>3. r = <<>> \/ Size(r) <= MaxBytes
  BY <1>1, <1>2
<1> QED
  BY <1>3 DEF r

\* OffsetPage, where a first row that does not fit is an error.
LEMMA OffsetPages ==
  ASSUME NEW src \in Seq(Rows), Len(src) <= Len(Bytes), NEW at \in Nat, NEW limit \in Nat \ {0},
         NEW beside \in Nat,
         NEW p, p = OffsetPage(Window(src, at, limit + 1), at, limit, beside), ~p.error
  PROVE  /\ OffsetOK(src, at, limit, p) /\ (p.rows = <<>> \/ Size(p.rows) <= MaxBytes)
         /\ p.next # End => p.rows # <<>>
<1> DEFINE f == Window(src, at, limit + 1)
           k == Kept(f, limit, beside)
<1>0. limit + 1 \in Nat
  OBVIOUS
<1>1. f \in Seq(Rows)
  BY <1>0, WindowIs
<1>2. p = IF k.oversize THEN NoPage
          ELSE Page(k.rows, IF k.truncated THEN encode_cursor(at + Len(k.rows)) ELSE End, k.truncated)
  BY Zenon DEF OffsetPage
<1>3. OffsetOK(src, at, limit,
               Page(k.rows, IF k.truncated THEN encode_cursor(at + Len(k.rows)) ELSE End, k.truncated))
  BY OffsetKept
<1> HIDE DEF f
<1>4. /\ k.rows \in Seq(Rows) /\ (k.oversize <=> k.rows = <<>> /\ f # <<>>)
      /\ (k.truncated <=> Len(k.rows) < Len(f)) /\ Len(k.rows) <= Len(f)
  BY <1>1, KeptIs
<1>5. k.rows = <<>> \/ Size(k.rows) <= MaxBytes
  BY <1>1, KeptFits
<1> HIDE DEF k
<1>6. ~k.oversize
  BY <1>2 DEF NoPage
<1>7. p = Page(k.rows, IF k.truncated THEN encode_cursor(at + Len(k.rows)) ELSE End, k.truncated)
  BY <1>2, <1>6, Zenon
<1>8. OffsetOK(src, at, limit, p)
  BY <1>3, <1>7, Zenon
<1>9. p.rows = k.rows /\ p.next = IF k.truncated THEN encode_cursor(at + Len(k.rows)) ELSE End
  BY <1>7 DEF Page
<1>10. k.truncated => k.rows # <<>>
  <2>1. f = <<>> => Len(f) = 0
    OBVIOUS
  <2>2. Len(k.rows) \in Nat
    BY <1>4
  <2> QED
    BY <1>4, <1>6, <2>1, <2>2
<1> QED
  BY <1>5, <1>8, <1>9, <1>10

LEMMA MongoPages ==
  ASSUME NEW src \in Seq(Rows), Len(src) <= Len(Bytes), NEW at \in Nat, NEW limit \in Nat \ {0}
  PROVE  LET k == Kept(Window(src, at, limit + 1), limit, 0)
             p == Page(k.rows, IF k.truncated THEN encode_cursor(at + Len(k.rows)) ELSE End,
                       k.truncated)
         IN  /\ OffsetOK(src, at, limit, p) /\ (p.rows = <<>> \/ Size(p.rows) <= MaxBytes)
             /\ p.next # End => p.rows # <<>> \/ Size(Window(src, at, 1)) > MaxBytes
<1> DEFINE f == Window(src, at, limit + 1)
           k == Kept(f, limit, 0)
           p == Page(k.rows, IF k.truncated THEN encode_cursor(at + Len(k.rows)) ELSE End, k.truncated)
<1>0. limit + 1 \in Nat
  OBVIOUS
<1>1. /\ f \in Seq(Rows) /\ \A i \in 1..Len(f) : f[i] = src[at + i]
      /\ Len(f) = IF Len(src) <= at THEN 0
                  ELSE IF at + (limit + 1) <= Len(src) THEN limit + 1 ELSE Len(src) - at
  <2> DEFINE n == limit + 1
  <2>1. n \in Nat
    OBVIOUS
  <2> HIDE DEF n
  <2>2. /\ Window(src, at, n) \in Seq(Rows)
        /\ Len(Window(src, at, n)) = IF Len(src) <= at THEN 0
                                     ELSE IF at + n <= Len(src) THEN n ELSE Len(src) - at
        /\ \A i \in 1..Len(Window(src, at, n)) : Window(src, at, n)[i] = src[at + i]
    BY ONLY src \in Seq(Rows), at \in Nat, <2>1, WindowIs, ZenonT(30)
  <2> QED
    BY <2>2 DEF n
<1>2. OffsetOK(src, at, limit, p)
  BY OffsetKept
<1>3. ASSUME f # <<>> PROVE SubSeq(f, 1, 1) = Window(src, at, 1)
  <2> DEFINE w == Window(src, at, 1)
  <2>1. /\ w \in Seq(Rows) /\ \A i \in 1..Len(w) : w[i] = src[at + i]
        /\ Len(w) = IF Len(src) <= at THEN 0 ELSE IF at + 1 <= Len(src) THEN 1 ELSE Len(src) - at
    <3> DEFINE n == 1
    <3>1. n \in Nat
      OBVIOUS
    <3> HIDE DEF n
    <3>2. /\ Window(src, at, n) \in Seq(Rows)
          /\ Len(Window(src, at, n)) = IF Len(src) <= at THEN 0
                                       ELSE IF at + n <= Len(src) THEN n ELSE Len(src) - at
          /\ \A i \in 1..Len(Window(src, at, n)) : Window(src, at, n)[i] = src[at + i]
      BY <3>1, WindowIs, ZenonT(40)
    <3> QED
      BY <3>2 DEF n
  <2> HIDE DEF w, f
  <2>2. Len(f) \in Nat /\ Len(f) # 0 /\ Len(src) \in Nat
    BY <1>1, <1>3
  <2>3. Len(w) = 1
    BY <1>1, <2>1, <2>2
  <2>4. w[1] = f[1]
    BY <1>1, <2>1, <2>2, <2>3
  <2>5. Len(SubSeq(f, 1, 1)) = 1 /\ SubSeq(f, 1, 1)[1] = f[1] /\ SubSeq(f, 1, 1) \in Seq(Rows)
    BY <1>1, <2>2
  <2>6. SubSeq(f, 1, 1) = w
    BY <2>1, <2>3, <2>4, <2>5
  <2> QED
    BY <2>6 DEF w
<1> HIDE DEF f
<1>4. /\ k.rows \in Seq(Rows) /\ (k.truncated <=> Len(k.rows) < Len(f))
      /\ (k.rows = <<>> /\ f # <<>> => Size(SubSeq(f, 1, 1)) + 0 > MaxBytes)
  BY <1>1, KeptIs
<1>5. k.rows = <<>> \/ Size(k.rows) <= MaxBytes
  BY <1>1, KeptFits
<1> HIDE DEF k
<1>6. p.rows = k.rows /\ p.next = IF k.truncated THEN encode_cursor(at + Len(k.rows)) ELSE End
  BY DEF Page
<1>7. ASSUME p.next # End, p.rows = <<>> PROVE Size(Window(src, at, 1)) > MaxBytes
  <2>0. k.truncated /\ k.rows = <<>> /\ Len(<<>>) = 0
    BY <1>6, <1>7
  <2>1. Len(f) > 0 /\ k.rows = <<>>
    BY <1>4, <2>0
  <2>2. f # <<>>
    BY <2>1
  <2>3. Size(Window(src, at, 1)) + 0 > MaxBytes
    BY <1>3, <1>4, <2>1, <2>2
  <2>4. Window(src, at, 1) \in Seq(Rows)
    BY WindowIs
  <2> QED
    BY <2>3, <2>4, SizeNat
<1>8. p.rows = <<>> \/ Size(p.rows) <= MaxBytes
  BY <1>5, <1>6
<1> QED
  BY <1>2, <1>7, <1>8 DEF k, f
\* SQL, MongoDB, Couchbase, Milvus.
LEMMA ByOffset ==
  ASSUME NEW S, S \subseteq Rows, NEW c \in CursorType, c.at >= 0, NEW limit \in Nat \ {0},
         NEW sorted, NEW p, p = ReadPageOf(S, c, limit, sorted), ~p.error,
         adapter \in SqlAdapterNames \cup {"mongodb", "couchbase", "milvus"}
  PROVE  ReadContract(S, c, limit, p) /\ Advances(S, c, p)
<1> DEFINE src == InOrder(S)
           f == Window(src, c.at, limit + 1)
<1>1. src \in Seq(Rows) /\ Len(src) <= Len(Bytes) /\ c.at \in Nat
  BY InOrderFacts DEF CursorType
<1>2. adapter # "cql" /\ adapter \notin Keyset
  BY DEF SqlAdapterNames, Keyset
<1>3. CASE adapter \in SqlAdapterNames
  <2>1. p = OffsetPage(f, c.at, limit, MetaBytes) /\ MetaBytes \in Nat
    BY <1>3, PagesAssumption
       DEF ReadPageOf, SqlReadPage, truncate_records, build_read, SqlAdapterNames
  <2> HIDE DEF src
  <2>2. /\ OffsetOK(src, c.at, limit, p) /\ (p.rows = <<>> \/ Size(p.rows) <= MaxBytes)
        /\ p.next # End => p.rows # <<>>
    BY <1>1, <2>1, OffsetPages
  <2> QED
    BY <1>2, <2>2, OffsetReads DEF src
<1>4. CASE adapter = "couchbase"
  <2>1. p = OffsetPage(f, c.at, limit, 0)
    BY <1>4 DEF ReadPageOf, CouchbaseReadPage, CouchbaseFinish, SqlAdapterNames
  <2> HIDE DEF src
  <2>2. /\ OffsetOK(src, c.at, limit, p) /\ (p.rows = <<>> \/ Size(p.rows) <= MaxBytes)
        /\ p.next # End => p.rows # <<>>
    BY <1>1, <2>1, OffsetPages
  <2> QED
    BY <1>2, <2>2, OffsetReads DEF src
<1>5. CASE adapter = "milvus"
  <2>1. p = read_response(f, OffsetPage(f, c.at, limit, 0))
    BY <1>5 DEF ReadPageOf, MilvusReadPage, SqlAdapterNames
  <2>2. p = OffsetPage(f, c.at, limit, 0)
    BY <2>1 DEF read_response, NoPage
  <2> HIDE DEF src
  <2>3. /\ OffsetOK(src, c.at, limit, p) /\ (p.rows = <<>> \/ Size(p.rows) <= MaxBytes)
        /\ p.next # End => p.rows # <<>>
    BY <1>1, <2>2, OffsetPages
  <2> QED
    BY <1>2, <2>3, OffsetReads DEF src
<1>6. CASE adapter = "mongodb"
  <2> DEFINE k == Kept(f, limit, 0)
  <2>1. p = Page(k.rows, IF k.truncated THEN encode_cursor(c.at + Len(k.rows)) ELSE End, k.truncated)
    BY <1>6 DEF ReadPageOf, MongoReadPage, SqlAdapterNames
  <2> HIDE DEF src
  <2>2. /\ OffsetOK(src, c.at, limit, p) /\ (p.rows = <<>> \/ Size(p.rows) <= MaxBytes)
        /\ p.next # End => p.rows # <<>> \/ Size(Window(src, c.at, 1)) > MaxBytes
    BY <1>1, <2>1, MongoPages
  <2> QED
    BY <1>2, <1>6, <2>2, OffsetReads DEF src
<1> QED
  BY <1>3, <1>4, <1>5, <1>6

\* HBase, Elasticsearch, Pinecone, Weaviate.
LEMMA ByRow ==
  ASSUME NEW S, S \subseteq Rows, NEW c \in CursorType, c.at >= 0, NEW limit \in Nat \ {0},
         NEW sorted, NEW p, p = ReadPageOf(S, c, limit, sorted), ~p.error,
         adapter \in Keyset \ {"qdrant"}
  PROVE  ReadContract(S, c, limit, p) /\ Advances(S, c, p)
<1> DEFINE src == From(S, c.at)
           f == First(src, limit + 1)
<1>0. limit + 1 \in Nat
  OBVIOUS
<1>1. src \in Seq(Rows)
  BY FromIs DEF CursorType
<1>2. FirstOf(src, limit + 1, f)
  BY <1>0, <1>1, FirstRows
<1>3. CASE adapter = "hbase"
  <2>1. p = ScanPage(Kept(f, limit, 0))
    BY <1>3 DEF ReadPageOf, HBaseReadPage, HBaseScan, decode_scan_cursor, SqlAdapterNames
  <2> HIDE DEF src, f
  <2>2. ScanOK(src, limit, p) /\ (p.rows = <<>> \/ Size(p.rows) <= MaxBytes)
    BY <1>1, <1>2, <2>1, ScanKept
  <2> QED
    BY <2>2, ScanReads DEF src
<1>4. CASE adapter = "weaviate"
  <2>1. p = read_response(f, ScanPage(Kept(f, limit, 0)))
    BY <1>4 DEF ReadPageOf, WeaviateReadPage, SqlAdapterNames
  <2>2. p = ScanPage(Kept(f, limit, 0))
    BY <2>1 DEF read_response, NoPage
  <2> HIDE DEF src, f
  <2>3. ScanOK(src, limit, p) /\ (p.rows = <<>> \/ Size(p.rows) <= MaxBytes)
    BY <1>1, <1>2, <2>2, ScanKept
  <2> QED
    BY <2>3, ScanReads DEF src
<1>5. CASE adapter = "elasticsearch"
  <2> DEFINE q == ScanPage(Kept(f, limit, 0))
  <2>1. p = read_response(f, [q EXCEPT !.next = IF sorted THEN @ ELSE End])
    BY <1>5 DEF ReadPageOf, ElasticReadPage, SqlAdapterNames
  <2>2. p = [q EXCEPT !.next = IF sorted THEN @ ELSE End]
    BY <2>1 DEF read_response, NoPage
  <2>3. q.error = p.error
    BY <2>2 DEF ScanPage, NoPage, Page
  <2> HIDE DEF src, f
  <2>4. ScanOK(src, limit, q) /\ (q.rows = <<>> \/ Size(q.rows) <= MaxBytes)
    BY <1>1, <1>2, <2>3, ScanKept
  <2> HIDE DEF q
  <2>5. p.rows = q.rows /\ p.truncated = q.truncated /\ p.error = q.error /\ p.next \in {q.next, End}
    BY <2>2, <2>4 DEF ScanOK, PageType
  <2>6. p \in PageType
    BY <2>2, <2>4, EndIs DEF ScanOK, PageType
  <2>7. ScanOK(src, limit, p) /\ (p.rows = <<>> \/ Size(p.rows) <= MaxBytes)
    BY <2>4, <2>5, <2>6 DEF ScanOK
  <2> QED
    BY <2>7, ScanReads DEF src
<1>6. CASE adapter = "pinecone"
  <2> DEFINE r == First(src, limit)
             more == Len(src) > limit
             next == IF more THEN encode_cursor(r[limit]) ELSE End
  <2>1. p = IF Size(r) > MaxBytes THEN NoPage ELSE read_response(r, Page(r, next, more))
    BY <1>6 DEF ReadPageOf, PineconeReadPage, SqlAdapterNames
  <2>2. FirstOf(src, limit, r)
    BY <1>1, FirstRows
  <2> HIDE DEF src, r
  <2>3. p = Page(r, next, more) /\ ~(Size(r) > MaxBytes)
    BY <2>1 DEF read_response, NoPage
  <2>4. /\ r \in Seq(Rows) /\ Len(r) = (IF limit < Len(src) THEN limit ELSE Len(src))
        /\ Len(src) \in Nat /\ \A i \in 1..Len(r) : r[i] = src[i]
    BY <1>1, <2>2 DEF FirstOf
  <2>5. more => r[limit] = src[Len(r)] /\ r[limit] \in Rows /\ r # <<>> /\ Len(r) = limit
    BY <2>4
  <2>6. next \in CursorType
    BY <2>5, EndIs, RowsAre
  <2>7. p \in PageType
    BY <2>3, <2>4, <2>6 DEF PageType, Page
  <2>8. Size(r) <= MaxBytes
    BY <2>3, <2>4, SizeNat, PagesAssumption
  <2>9. p.rows = r /\ p.next = next /\ p.truncated = more /\ p.error = FALSE
    BY <2>3 DEF Page
  <2>10. ScanOK(src, limit, p)
    <3>1. Len(r) <= limit /\ Len(r) <= Len(src) /\ (~more => Len(r) = Len(src))
      BY <2>4
    <3>2. next = End \/ (r # <<>> /\ next = encode_cursor(src[Len(r)]))
      BY <2>5
    <3> HIDE DEF more, next
    <3> QED
      BY <2>4, <2>7, <2>9, <3>1, <3>2 DEF ScanOK
  <2> QED
    BY <2>8, <2>9, <2>10, ScanReads DEF src
<1> QED
  BY <1>3, <1>4, <1>5, <1>6 DEF Keyset
\* Qdrant's cursor is the first row of the next page.
LEMMA ByPoint ==
  ASSUME NEW S, S \subseteq Rows, NEW c \in CursorType, c.at >= 0, NEW limit \in Nat \ {0},
         NEW sorted, NEW p, p = ReadPageOf(S, c, limit, sorted), ~p.error, adapter = "qdrant"
  PROVE  ReadContract(S, c, limit, p) /\ Advances(S, c, p)
<1> DEFINE lo == c.at - 1
           src == From(S, lo)
           points == First(src, limit)
           kept == Within(points, 0)
           n == Len(kept)
           next == IF n < Len(points) THEN encode_cursor(points[n + 1])
                   ELSE IF Len(src) > limit THEN encode_cursor(src[limit + 1]) ELSE End
<1>1. p = IF points # <<>> /\ kept = <<>> THEN NoPage
          ELSE read_response(points, Page(kept, next, next # End))
  BY DEF ReadPageOf, QdrantReadPage, enforce_records_size, QdrantCursor, SqlAdapterNames
<1>2. lo \in Int /\ lo <= Len(Bytes) /\ lo = c.at - 1 /\ c.at \in Nat /\ Len(Bytes) \in Nat
  BY RowsAre DEF CursorType
<1> HIDE DEF lo
<1>3. /\ src \in Seq(Rows) /\ Increasing(src) /\ Len(src) \in Nat
      /\ \A i \in 1..Len(src) : src[i] > lo
      /\ \A x \in S : x > lo => \E i \in 1..Len(src) : src[i] = x
  BY <1>2, FromIs
<1> HIDE DEF src
<1>4. /\ points \in Seq(Rows) /\ Len(points) = (IF limit < Len(src) THEN limit ELSE Len(src))
      /\ \A i \in 1..Len(points) : points[i] = src[i]
  BY <1>3, FirstRows DEF FirstOf
<1> HIDE DEF points
<1>5. PICK m \in 0..Len(points) : kept = SubSeq(points, 1, m) /\ (m = 0 \/ Size(SubSeq(points, 1, m)) + 0 <= MaxBytes)
  BY <1>4, WithinIs
<1> HIDE DEF kept
<1>6. kept \in Seq(Rows) /\ n = m /\ Len(kept) = m /\ \A i \in 1..m : kept[i] = points[i]
  BY <1>4, <1>5
<1>7. p = Page(kept, next, next # End) /\ ~(points # <<>> /\ kept = <<>>)
  BY <1>1 DEF read_response, NoPage
<1> HIDE DEF n
<1>8. n \in Nat /\ n <= Len(points) /\ n <= limit /\ n <= Len(src)
  BY <1>3, <1>4, <1>5, <1>6
<1>9. /\ n < Len(src) => next = encode_cursor(src[n + 1]) /\ n > 0 /\ n + 1 \in 1..Len(src)
      /\ ~(n < Len(src)) => next = End
  <2>1. CASE n < Len(points)
    <3>1. n + 1 \in 1..Len(points) /\ n + 1 \in 1..Len(src) /\ n < Len(src)
      BY <1>3, <1>4, <1>8, <2>1
    <3>2. points # <<>> /\ (n = 0 => kept = <<>>)
      BY <1>6, <2>1
    <3> QED
      BY <1>4, <1>7, <1>8, <2>1, <3>1, <3>2
  <2>2. CASE ~(n < Len(points)) /\ Len(src) > limit
    <3>1. n = limit
      BY <1>3, <1>4, <1>8, <2>2
    <3> QED
      BY <1>3, <2>2, <3>1
  <2>3. CASE ~(n < Len(points)) /\ ~(Len(src) > limit)
    BY <1>3, <1>4, <1>8, <2>3
  <2> QED
    BY <2>1, <2>2, <2>3
<1> HIDE DEF next
<1>10. n < Len(src) => /\ src[n + 1] \in 1..Len(Bytes) /\ next \in CursorType /\ next # End
                       /\ next.at = src[n + 1]
  <2>1. n < Len(src) => src[n + 1] \in Rows
    BY <1>3, <1>9
  <2> QED
    BY <2>1, <1>9, EndIs, RowsAre
<1>11. next \in CursorType /\ (next = End <=> ~(n < Len(src)))
  BY <1>9, <1>10, EndIs
<1>12. p \in PageType /\ p.rows = kept /\ p.next = next /\ p.error = FALSE /\ p.truncated = (next # End)
  BY <1>6, <1>7, <1>11 DEF PageType, Page
<1>13. kept = <<>> \/ Size(kept) <= MaxBytes
  <2>1. Size(kept) \in Nat /\ (m = 0 => kept = <<>>)
    BY <1>6, SizeNat
  <2> QED
    BY <1>5, <2>1
<1>14. \A i \in 1..Len(kept) : kept[i] = src[0 + i]
  <2>1. ASSUME NEW i \in 1..Len(kept) PROVE kept[i] = src[0 + i]
    <3>1. i \in 1..m /\ i \in 1..Len(points) /\ 0 + i = i
      BY <1>5, <1>6 DEF n
    <3> QED
      BY <1>4, <1>6, <3>1
  <2> QED
    BY <2>1
<1>15. Cut(src, 0, lo)
  BY <1>3 DEF Cut
<1>16. 0 + Len(kept) = n /\ 0 + Len(kept) <= Len(src)
  BY <1>8 DEF n
<1>17. ASSUME n < Len(src)
       PROVE  Carries(S, lo, next.at - 1, kept) /\ next.at > c.at
  <2> DEFINE b == src[n + 1]
  <2>1. b \in Int /\ next.at = b /\ n + 1 \in DOMAIN src /\ DOMAIN src = 1..Len(src)
    BY <1>3, <1>9, <1>10, <1>17
  <2>2. ASSUME NEW i \in 1..Len(src) PROVE IF i <= n THEN src[i] <= b - 1 ELSE src[i] > b - 1
    <3>1. src[i] \in Int
      BY <1>3, RowsInt
    <3>2. i < n + 1 => src[i] < b
      BY <1>3, <2>1 DEF Increasing
    <3>3. n + 1 < i => b < src[i]
      BY <1>3, <2>1 DEF Increasing
    <3> QED
      BY <1>8, <2>1, <3>1, <3>2, <3>3
  <2>3. Cut(src, n, b - 1)
    BY <2>2 DEF Cut
  <2>4. 1 \in 1..Len(src) /\ 1 < n + 1 /\ 1 \in DOMAIN src
    BY <1>8, <1>9, <1>17, <2>1
  <2>5. src[1] < b /\ src[1] > lo /\ src[1] \in Int
    BY <1>3, <2>1, <2>4, RowsInt DEF Increasing
  <2>6. b > c.at /\ b - 1 \in Int /\ lo <= b - 1
    BY <1>2, <2>1, <2>5
  <2> HIDE DEF b
  <2>7. Carries(S, lo, b - 1, kept)
    BY <1>2, <1>3, <1>6, <1>14, <1>15, <1>16, <2>3, <2>6, Pieces
  <2> QED
    BY <2>1, <2>6, <2>7
<1>18. ASSUME ~(n < Len(src)) PROVE Carries(S, lo, Len(Bytes), kept)
  <2>1. n = Len(src)
    BY <1>3, <1>8, <1>18
  <2>2. Cut(src, n, Len(Bytes))
    BY <1>3, <2>1, EndCuts
  <2> QED
    BY <1>2, <1>3, <1>6, <1>14, <1>15, <1>16, <2>2, Pieces
<1>19. /\ ReadMark(S, c) = lo /\ ReadMark(S, p.next) = p.next.at - 1 /\ ReadPlaced(S, p.next)
  BY <1>2 DEF ReadMark, ReadPlaced, Keyset
<1>20. Advances(S, c, p)
  BY <1>11, <1>12, <1>17 DEF Advances, Beyond
<1>21. p.next # End => p.next.at >= 0
  BY <1>10, <1>11, <1>12
<1>22. Len(p.rows) <= limit
  BY <1>8, <1>12 DEF n
<1> QED
  BY <1>11, <1>12, <1>13, <1>17, <1>18, <1>19, <1>20, <1>21, <1>22 DEF ReadContract

\* CQL goes on inside a page of the server, or after it.
LEMMA ByServerPage ==
  ASSUME NEW S, S \subseteq Rows, NEW c \in CursorType, c.at >= 0, NEW limit \in Nat \ {0},
         NEW sorted, NEW p, p = ReadPageOf(S, c, limit, sorted), ~p.error, adapter = "cql"
  PROVE  ReadContract(S, c, limit, p) /\ Advances(S, c, p)
<1> DEFINE size == decode_cql_cursor(c, limit)
           src == From(S, c.at)
           page == First(src, size)
           f == Drop(page, c.skip)
           k == Kept(f, limit, 0)
           r == k.rows
           skip == c.skip + Len(r)
           next == IF k.truncated THEN Cursor(c.at, skip, size)
                   ELSE IF page # <<>> /\ Len(page) = size THEN encode_cursor(page[Len(page)]) ELSE End
<1>1. p = IF size > MaxRows \/ c.skip > Len(page) \/ k.oversize \/ (k.truncated /\ skip >= size)
          THEN NoPage ELSE Page(r, next, next # End)
  BY DEF ReadPageOf, CqlReadPage, query_single_page, encode_cql_page_cursor, encode_cql_cursor,
         SqlAdapterNames
<1>2. /\ c.at \in Nat /\ c.skip \in Nat /\ c.at \in Int /\ c.at \in 0..Len(Bytes) /\ Len(Bytes) \in Nat
  BY RowsAre DEF CursorType
<1>3. size \in Nat \ {0}
  BY DEF decode_cql_cursor, CursorType
<1>4. /\ src \in Seq(Rows) /\ Increasing(src) /\ Len(src) \in Nat
      /\ \A i \in 1..Len(src) : src[i] > c.at
      /\ \A x \in S : x > c.at => \E i \in 1..Len(src) : src[i] = x
  BY <1>2, FromIs
<1> HIDE DEF src, size
<1>5. /\ page \in Seq(Rows) /\ Len(page) = (IF size < Len(src) THEN size ELSE Len(src))
      /\ \A i \in 1..Len(page) : page[i] = src[i]
  BY <1>3, <1>4, FirstRows DEF FirstOf
<1>6. /\ p = Page(r, next, next # End) /\ ~k.oversize /\ ~(c.skip > Len(page))
  BY <1>1 DEF NoPage
<1> HIDE DEF page
<1>7. Len(page) \in Nat /\ c.skip <= Len(page) /\ Len(page) <= Len(src)
  BY <1>2, <1>4, <1>5, <1>6
<1>8. /\ f \in Seq(Rows) /\ Len(f) = Len(page) - c.skip
      /\ \A i \in 1..Len(f) : f[i] = page[c.skip + i]
  <2>1. c.skip \in 0..Len(page)
    BY <1>2, <1>7
  <2> QED
    BY <1>5, <2>1, DropIs
<1> HIDE DEF f
<1>9. /\ r \in Seq(Rows) /\ Len(r) <= limit /\ Len(r) <= Len(f)
      /\ \A i \in 1..Len(r) : r[i] = f[i]
      /\ k.truncated <=> Len(r) < Len(f)
      /\ k.truncated \in BOOLEAN
      /\ k.oversize <=> r = <<>> /\ f # <<>>
  BY <1>8, KeptIs
<1>10. r = <<>> \/ Size(r) <= MaxBytes
  BY <1>8, KeptFits
<1> HIDE DEF k, r
<1>11. Len(r) \in Nat /\ Len(f) \in Nat /\ skip \in Nat /\ skip <= Len(page)
  BY <1>2, <1>7, <1>8, <1>9
<1>12. ASSUME NEW i \in 1..Len(r) PROVE r[i] = src[c.skip + i]
  <2>0. /\ c.skip \in Nat /\ Len(page) \in Nat /\ Len(f) \in Nat /\ Len(r) \in Nat
        /\ Len(f) = Len(page) - c.skip /\ Len(r) <= Len(f)
    BY <1>2, <1>7, <1>8, <1>9, <1>11
  <2>1. i \in 1..Len(f) /\ c.skip + i \in 1..Len(page)
    BY <2>0
  <2> QED
    BY <1>5, <1>8, <1>9, <2>1
<1>13. k.truncated => Len(r) > 0
  BY <1>6, <1>8, <1>9, <1>11
<1>14. ~k.truncated => skip = Len(page)
  BY <1>2, <1>8, <1>9, <1>11
<1>15. ASSUME page # <<>> PROVE /\ Len(page) \in 1..Len(src) /\ page[Len(page)] = src[Len(page)]
                                /\ src[Len(page)] \in 1..Len(Bytes) /\ src[Len(page)] > c.at
  <2>1. Len(page) \in 1..Len(page) /\ Len(page) \in 1..Len(src)
    BY <1>4, <1>5, <1>7, <1>15
  <2>2. src[Len(page)] \in Rows
    BY <1>4, <2>1
  <2> QED
    BY <1>4, <1>5, <2>1, <2>2, RowsAre
<1>16. k.truncated => next \in CursorType /\ next # End /\ next.at = c.at /\ next.skip = skip
  BY <1>2, <1>3, <1>11, EndIs DEF CursorType, Cursor
<1>17. ~k.truncated /\ next # End =>
         /\ next \in CursorType /\ next.at = src[Len(page)] /\ next.skip = 0
         /\ page # <<>>
  BY <1>15, EndIs
<1>18. next = End => ~k.truncated /\ Len(page) = Len(src)
  <2>1. SUFFICES ASSUME next = End PROVE ~k.truncated /\ Len(page) = Len(src)
    OBVIOUS
  <2>2. ~k.truncated
    BY <1>16, <2>1
  <2>3. ~(page # <<>> /\ Len(page) = size)
    <3>1. SUFFICES ASSUME page # <<>>, Len(page) = size PROVE FALSE
      OBVIOUS
    <3>2. next = encode_cursor(src[Len(page)]) /\ src[Len(page)] \in 0..Len(Bytes)
      BY <1>15, <2>2, <3>1
    <3> QED
      BY <2>1, <3>2, EndIs
  <2>4. Len(page) = Len(src)
    <3>1. page = <<>> => Len(page) = 0
      OBVIOUS
    <3> QED
      BY <1>3, <1>4, <1>5, <2>3, <3>1
  <2> QED
    BY <2>2, <2>4
<1>19. next \in CursorType
  BY <1>16, <1>17, EndIs
<1>20. p \in PageType /\ p.rows = r /\ p.next = next /\ p.error = FALSE /\ p.truncated = (next # End)
  BY <1>6, <1>9, <1>19 DEF PageType, Page
<1> HIDE DEF next
<1>21. next # End => next.at >= 0 /\ Beyond(next, c)
  <2>1. CASE k.truncated
    BY <1>2, <1>11, <1>13, <1>16, <2>1 DEF Beyond
  <2>2. CASE ~k.truncated /\ next # End
    BY <1>2, <1>15, <1>17, <2>2 DEF Beyond
  <2> QED
    BY <2>1, <2>2
<1>22. /\ ReadPlaced(S, c) /\ ReadMark(S, c) = Top(src, c.at, c.skip)
  BY <1>2, <1>4, <1>7 DEF ReadPlaced, ReadMark, src
<1>23. /\ Cut(src, c.skip, Top(src, c.at, c.skip)) /\ Top(src, c.at, c.skip) \in Int
       /\ Cut(src, skip, Top(src, c.at, skip)) /\ Top(src, c.at, skip) \in Int
       /\ Top(src, c.at, c.skip) <= Top(src, c.at, skip)
  <2>1. c.skip \in 0..Len(src) /\ skip \in 0..Len(src) /\ c.skip \in 0..skip
    BY <1>2, <1>4, <1>7, <1>11
  <2> HIDE DEF skip
  <2> QED
    BY <1>2, <1>4, <2>1, TopCuts
<1>24. Carries(S, Top(src, c.at, c.skip), Top(src, c.at, skip), r)
  <2> DEFINE lo == Top(src, c.at, c.skip)
             hi == Top(src, c.at, skip)
  <2>1. \A x \in S : x > lo => \E i \in 1..Len(src) : src[i] = x
    <3>1. SUFFICES ASSUME NEW x \in S, x > lo PROVE x > c.at
      BY <1>4
    <3>2. x \in Int /\ lo \in Int
      BY <1>23, RowsInt
    <3>3. c.at <= lo
      <4>1. c.skip \in 0..Len(src)
        BY <1>2, <1>4, <1>7
      <4> QED
        BY <1>2, <1>4, <4>1, TopCuts
    <3> QED
      BY <1>2, <3>1, <3>2, <3>3
  <2>2. lo \in Int /\ hi \in Int /\ lo <= hi /\ Cut(src, c.skip, lo) /\ Cut(src, c.skip + Len(r), hi)
    BY <1>23
  <2>3. c.skip + Len(r) <= Len(src)
    BY <1>4, <1>7, <1>11
  <2> HIDE DEF lo, hi, skip
  <2>4. Carries(S, lo, hi, r)
    BY <1>2, <1>4, <1>9, <1>12, <2>1, <2>2, <2>3, Pieces
  <2> QED
    BY <2>4 DEF lo, hi
<1>25. ASSUME next # End PROVE ReadPlaced(S, next) /\ ReadMark(S, next) = Top(src, c.at, skip)
  <2>1. CASE k.truncated
    BY <1>4, <1>7, <1>11, <1>16, <2>1 DEF ReadPlaced, ReadMark, src
  <2>2. CASE ~k.truncated
    <3>1. next.at = src[Len(page)] /\ next.skip = 0 /\ page # <<>> /\ next.at \in Int
      BY <1>15, <1>17, <1>25, <2>2
    <3>2. 0 <= Len(From(S, next.at))
      BY <3>1, FromIs
    <3>3. skip = Len(page) /\ Len(page) # 0
      BY <1>14, <1>15, <2>2, <3>1
    <3> QED
      BY <3>1, <3>2, <3>3 DEF ReadPlaced, ReadMark, Top
  <2> QED
    BY <2>1, <2>2
<1>26. ASSUME next = End PROVE Carries(S, ReadMark(S, c), Len(Bytes), r)
  <2>1. skip = Len(src)
    BY <1>14, <1>18, <1>26
  <2>2. Top(src, c.at, skip) <= Len(Bytes) /\ Top(src, c.at, skip) \in Int
    <3>1. CASE skip = 0
      BY <1>2, <3>1 DEF Top
    <3>2. CASE skip # 0
      <4>1. skip \in 1..Len(src)
        BY <1>11, <2>1, <3>2
      <4>2. src[skip] \in Rows
        BY <1>4, <4>1
      <4> QED
        BY <3>2, <4>2, RowsAre DEF Top
    <3> QED
      BY <3>1, <3>2
  <2>3. Carries(S, Top(src, c.at, skip), Len(Bytes), <<>>)
    <3>1. ASSUME NEW x \in S, Top(src, c.at, skip) < x PROVE FALSE
      <4>1. x \in Int /\ c.at <= Top(src, c.at, skip)
        <5>1. skip \in 0..Len(src)
          BY <1>11, <2>1
        <5> HIDE DEF skip
        <5> QED
          BY <1>2, <1>4, <5>1, RowsInt, TopCuts
      <4>2. PICK i \in 1..Len(src) : src[i] = x
        BY <1>2, <1>4, <2>2, <3>1, <4>1
      <4>3. i <= skip
        BY <2>1
      <4>4. src[i] <= Top(src, c.at, skip)
        BY <1>23, <4>3 DEF Cut
      <4> QED
        BY <2>2, <3>1, <4>1, <4>2, <4>4
    <3>2. <<>> \in Seq(Rows) /\ Len(<<>>) = 0 /\ Increasing(<<>>)
      BY DEF Increasing
    <3> QED
      BY <2>2, <3>1, <3>2 DEF Carries
  <2>4. r \o <<>> = r
    BY <1>9
  <2>5. Carries(S, Top(src, c.at, c.skip), Len(Bytes), r \o <<>>)
    <3> DEFINE lo == Top(src, c.at, c.skip)
               mid == Top(src, c.at, skip)
    <3>1. /\ lo \in Int /\ mid \in Int /\ Len(Bytes) \in Int
          /\ Carries(S, lo, mid, r) /\ Carries(S, mid, Len(Bytes), <<>>)
      BY <1>2, <1>23, <1>24, <2>3
    <3> HIDE DEF lo, mid, skip
    <3>2. Carries(S, lo, Len(Bytes), r \o <<>>)
      BY <3>1, CarriesOn
    <3> QED
      BY <3>2 DEF lo
  <2> QED
    BY <1>22, <2>4, <2>5
<1> QED
  BY <1>9, <1>10, <1>20, <1>21, <1>22, <1>24, <1>25, <1>26 DEF ReadContract, Advances
LEMMA ReadPages ==
  ASSUME NEW S, S \subseteq Rows, NEW c \in CursorType, c.at >= 0, NEW limit \in Nat \ {0},
         NEW sorted, NEW p, p = ReadPageOf(S, c, limit, sorted), ~p.error, adapter \in Pageable
  PROVE  ReadContract(S, c, limit, p) /\ Advances(S, c, p)
<1>1. \/ adapter \in SqlAdapterNames \cup {"mongodb", "couchbase", "milvus"}
      \/ adapter \in Keyset \ {"qdrant"} \/ adapter = "qdrant" \/ adapter = "cql"
  BY DEF Pageable, DocumentAdapterNames, SearchAdapterNames, Keyset
<1> QED
  BY <1>1, ByOffset, ByRow, ByPoint, ByServerPage

-----------------------------------------------------------------------------
(***************************************************************************)
(* A page of a catalog.                                                    *)
(***************************************************************************)
CatalogSource(S, m) == IF adapter = "splunk" THEN InOrder(S) ELSE Matching(InOrder(S), m)

CatalogContract(S, m, c, limit, p) ==
    LET src == CatalogSource(S, m) IN
    /\ p \in PageType /\ ~p.error /\ Len(p.rows) <= limit
    /\ p.next # End => p.next.at >= 0 /\ Beyond(p.next, c)
    /\ c.at <= Len(src) =>
         /\ p.next # End => /\ p.next.at <= Len(src)
                            /\ Carries(S \cap m, Top(src, 0, c.at), Top(src, 0, p.next.at), p.rows)
         /\ p.next = End => Carries(S \cap m, Top(src, 0, c.at), Len(Bytes), p.rows)

LEMMA MatchingIs ==
  ASSUME NEW S, S \subseteq Rows, NEW m
  PROVE  LET src == Matching(InOrder(S), m) IN
         /\ src \in Seq(Rows) /\ Len(src) <= Len(Bytes) /\ Increasing(src)
         /\ \A i \in 1..Len(src) : src[i] > 0
         /\ \A x \in S \cap m : \E i \in 1..Len(src) : src[i] = x
<1> DEFINE all == InOrder(S)
           src == Matching(all, m)
<1>1. all \in Seq(Rows) /\ Len(all) <= Len(Bytes) /\ Elements(all) = S /\ Increasing(all)
  BY InOrderFacts
<1> HIDE DEF all
<1>2. /\ src \in Seq(Rows) /\ Len(src) <= Len(all) /\ Elements(src) = m \cap Elements(all)
      /\ Increasing(src)
  BY <1>1, OnlyRows DEF Matching
<1> HIDE DEF src
<1>3. DOMAIN src = 1..Len(src) /\ Len(src) \in Nat /\ Len(all) \in Nat /\ Len(Bytes) \in Nat
  BY <1>1, <1>2, RowsAre
<1>4. \A i \in 1..Len(src) : src[i] > 0
  BY <1>2, RowsAre
<1>5. ASSUME NEW x \in S \cap m PROVE \E i \in 1..Len(src) : src[i] = x
  <2>1. x \in Elements(src)
    BY <1>1, <1>2
  <2> QED
    BY <1>3, <2>1 DEF Elements
<1>6. Len(src) <= Len(Bytes)
  BY <1>1, <1>2, <1>3
<1> QED
  BY <1>2, <1>4, <1>5, <1>6 DEF src, all

LEMMA CatalogByOffset ==
  ASSUME NEW S, S \subseteq Rows, NEW m, NEW c \in CursorType, c.at >= 0, NEW limit \in Nat \ {0},
         NEW p, p = catalog_page(Window(Matching(InOrder(S), m), c.at, limit + 1), c.at, limit),
         adapter # "splunk"
  PROVE  CatalogContract(S, m, c, limit, p)
<1> DEFINE src == Matching(InOrder(S), m)
<1>1. /\ src \in Seq(Rows) /\ Len(src) <= Len(Bytes) /\ Increasing(src)
      /\ \A i \in 1..Len(src) : src[i] > 0
      /\ \A x \in S \cap m : \E i \in 1..Len(src) : src[i] = x
  BY MatchingIs
<1>2. c.at \in Nat /\ c.skip \in Nat
  BY DEF CursorType
<1>3. src = CatalogSource(S, m)
  BY DEF CatalogSource
<1> HIDE DEF src
<1>4. p = catalog_page(Window(src, c.at, limit + 1), c.at, limit)
  BY DEF src
<1>5. OffsetOK(src, c.at, limit, p) /\ (p.next # End => p.rows # <<>>)
  BY <1>1, <1>2, <1>4, OffsetCatalog
<1>6. p \in PageType /\ ~p.error /\ Len(p.rows) <= limit /\ p.rows \in Seq(Rows)
  BY <1>5 DEF OffsetOK, PageType
<1>7. ASSUME p.next # End PROVE p.next.at >= 0 /\ Beyond(p.next, c)
  <2>1. Len(p.rows) \in Nat /\ Len(p.rows) > 0
    BY <1>5, <1>6, <1>7
  <2>2. p.next.at = c.at + Len(p.rows)
    BY <1>5, <1>7 DEF OffsetOK, encode_cursor, Cursor
  <2> QED
    BY <1>2, <2>1, <2>2 DEF Beyond
<1>8. ~p.truncated
  BY <1>4 DEF catalog_page, Page
<1>9. ASSUME c.at <= Len(src)
      PROVE  /\ p.next # End => /\ p.next.at <= Len(src)
                            /\ Carries(S \cap m, Top(src, 0, c.at), Top(src, 0, p.next.at), p.rows)
             /\ p.next = End => Carries(S \cap m, Top(src, 0, c.at), Len(Bytes), p.rows)
  <2> DEFINE W == S \cap m
  <2>1. \A x \in W : \E i \in 1..Len(src) : src[i] = x
    BY <1>1
  <2> HIDE DEF W
  <2>2. /\ p.next # End => /\ p.next.at <= Len(src)
                            /\ Carries(W, Top(src, 0, c.at), Top(src, 0, p.next.at), p.rows)
        /\ p.next = End /\ ~p.truncated => Carries(W, Top(src, 0, c.at), Len(Bytes), p.rows)
    BY <1>1, <1>2, <1>5, <1>9, <2>1, OffsetCarries
  <2> QED
    BY <1>8, <2>2 DEF W
<1> QED
  BY <1>3, <1>6, <1>7, <1>9 DEF CatalogContract

\* Splunk's cursor counts the entries that were looked at.
LEMMA CatalogByEntries ==
  ASSUME NEW S, S \subseteq Rows, NEW m, NEW c \in CursorType, c.at >= 0, NEW limit \in Nat \ {0},
         NEW p, p = SplunkCatalog(InOrder(S), m, c, limit), ~p.error, adapter = "splunk"
  PROVE  CatalogContract(S, m, c, limit, p)
<1> DEFINE all == InOrder(S)
           H == {i \in c.at + 1 .. Len(all) : all[i] \in m}
           hits == InOrder(H)
           n == Len(First(hits, limit))
           taken == [i \in 1..n |-> all[hits[i]]]
           more == Len(taken) = limit /\ hits[limit] < Len(all)
           next == IF more THEN encode_cursor(hits[limit]) ELSE End
<1>1. p = read_response(Drop(all, c.at), bounded_catalog(taken, Page(taken, next, FALSE)))
  BY DEF SplunkCatalog
<1>2. p = Page(taken, next, FALSE)
  <2> DEFINE q == Page(taken, next, FALSE)
             d == Drop(all, c.at)
  <2>1. p = read_response(d, bounded_catalog(taken, q))
    BY <1>1
  <2> HIDE DEF q, d, taken
  <2>2. p = NoPage \/ p = q
    BY <2>1 DEF read_response, bounded_catalog
  <2>3. NoPage.error
    BY DEF NoPage
  <2>4. p = q
    BY <2>2, <2>3
  <2> QED
    BY <2>4 DEF q
<1>3. /\ all \in Seq(Rows) /\ Len(all) <= Len(Bytes) /\ Increasing(all) /\ Len(all) \in Nat
      /\ \A i \in 1..Len(all) : all[i] > 0 /\ all[i] \in S
      /\ \A x \in S : \E i \in 1..Len(all) : all[i] = x
  BY InOrderFacts, InOrderIs
<1> HIDE DEF all
<1>4. c.at \in Nat /\ c.skip \in Nat /\ Len(Bytes) \in Nat
  BY RowsAre DEF CursorType
<1>5. H \subseteq Rows /\ H \subseteq 1..Len(all) /\ \A i \in H : i > c.at
  BY <1>3, <1>4, RowsAre
<1>6. /\ hits \in Seq(Rows) /\ Increasing(hits) /\ Len(hits) \in Nat
      /\ \A i \in 1..Len(hits) : hits[i] \in H
      /\ \A x \in H : \E i \in 1..Len(hits) : hits[i] = x
  <2> HIDE DEF H
  <2> QED
    BY <1>5, InOrderFacts, InOrderIs
<1>7. H = {i \in c.at + 1 .. Len(all) : all[i] \in m}
  OBVIOUS
<1> HIDE DEF H, hits
<1>8. n = (IF limit < Len(hits) THEN limit ELSE Len(hits)) /\ n \in Nat
  <2>1. FirstOf(hits, limit, First(hits, limit))
    BY <1>6, FirstRows
  <2> QED
    BY <1>6, <2>1 DEF FirstOf
<1> HIDE DEF n
<1>9. n <= limit /\ n <= Len(hits)
  BY <1>6, <1>8
<1>10. ASSUME NEW i \in 1..n
       PROVE  i \in 1..Len(hits) /\ hits[i] \in H /\ hits[i] \in 1..Len(all) /\ hits[i] > c.at
              /\ all[hits[i]] \in Rows /\ all[hits[i]] \in S
  <2>1. i \in 1..Len(hits)
    BY <1>6, <1>8, <1>9
  <2>2. hits[i] \in H
    BY <1>6, <2>1
  <2>3. hits[i] \in 1..Len(all) /\ hits[i] > c.at
    BY <1>5, <2>2
  <2> QED
    BY <1>3, <2>1, <2>2, <2>3
<1>11. taken \in Seq(Rows) /\ Len(taken) = n /\ \A i \in 1..n : taken[i] = all[hits[i]]
  BY <1>8, <1>10
<1> HIDE DEF taken
<1>12. more => /\ n = limit /\ limit \in 1..n /\ hits[limit] \in 1..Len(all) /\ hits[limit] < Len(all)
               /\ hits[limit] > c.at /\ hits[limit] \in 0..Len(Bytes)
  BY <1>3, <1>4, <1>8, <1>10, <1>11
<1>13. /\ more => /\ next \in CursorType /\ next # End /\ next.at = hits[limit]
       /\ ~more => next = End
  BY <1>12, EndIs
<1>14. next \in CursorType
  BY <1>13, EndIs
<1>15. p \in PageType /\ p.rows = taken /\ p.next = next /\ p.error = FALSE
  BY <1>2, <1>11, <1>14 DEF PageType, Page
<1>16. p.next # End => p.next.at >= 0 /\ Beyond(p.next, c)
  BY <1>4, <1>12, <1>13, <1>15 DEF Beyond
<1>17. ASSUME NEW i \in 1..n, NEW j \in 1..n, i < j
       PROVE  hits[i] < hits[j] /\ all[hits[i]] < all[hits[j]]
  <2>1. DOMAIN hits = 1..Len(hits) /\ DOMAIN all = 1..Len(all)
    BY <1>3, <1>6
  <2>2. hits[i] < hits[j]
    BY <1>6, <1>10, <1>17, <2>1 DEF Increasing
  <2> QED
    BY <1>3, <1>10, <2>1, <2>2 DEF Increasing
<1>18. Increasing(taken) /\ DOMAIN taken = 1..n
  BY <1>11, <1>17 DEF Increasing
<1>19. ASSUME c.at <= Len(all), NEW hi \in Int,
              \A i \in 1..n : all[hits[i]] <= hi,
              Top(all, 0, c.at) <= hi,
              \A j \in 1..Len(hits) : ~(j <= n) => all[hits[j]] > hi
       PROVE  Carries(S \cap m, Top(all, 0, c.at), hi, taken)
  <2> DEFINE lo == Top(all, 0, c.at)
  <2>1. Cut(all, c.at, lo) /\ lo \in Int
    <3>1. c.at \in 0..Len(all)
      BY <1>3, <1>4, <1>19
    <3>2. \A i \in 1..Len(all) : all[i] > 0
      BY <1>3
    <3> QED
      BY <1>3, <3>1, <3>2, TopCuts
  <2> HIDE DEF lo
  <2>2. ASSUME NEW i \in 1..Len(taken) PROVE lo < taken[i] /\ taken[i] <= hi
    <3>1. i \in 1..n /\ taken[i] = all[hits[i]] /\ hits[i] \in 1..Len(all) /\ ~(hits[i] <= c.at)
      BY <1>4, <1>10, <1>11
    <3>2. all[hits[i]] > lo
      BY <2>1, <3>1 DEF Cut
    <3>3. all[hits[i]] \in Int
      BY <1>10, <3>1, RowsInt
    <3> QED
      BY <1>19, <2>1, <3>1, <3>2, <3>3
  <2>3. ASSUME NEW x \in S \cap m, lo < x, x <= hi PROVE \E i \in 1..Len(taken) : taken[i] = x
    <3>1. PICK j \in 1..Len(all) : all[j] = x
      BY <1>3
    <3>2. x \in Int
      BY RowsInt
    <3>3. ~(j <= c.at)
      BY <2>1, <2>3, <3>1, <3>2 DEF Cut
    <3>4. j \in H
      BY <1>4, <1>7, <3>1, <3>3
    <3>5. PICK k \in 1..Len(hits) : hits[k] = j
      BY <1>6, <3>4
    <3>6. k <= n
      BY <1>19, <2>3, <3>1, <3>2, <3>5
    <3>7. k \in 1..Len(taken) /\ taken[k] = x
      BY <1>8, <1>11, <3>1, <3>5, <3>6
    <3> QED
      BY <3>7
  <2>4. lo <= hi
    BY <1>19 DEF lo
  <2>5. Carries(S \cap m, lo, hi, taken)
    BY <1>11, <1>18, <2>2, <2>3, <2>4 DEF Carries
  <2> QED
    BY <2>5 DEF lo
<1>20. ASSUME c.at <= Len(all), more
       PROVE  /\ next.at <= Len(all)
              /\ Carries(S \cap m, Top(all, 0, c.at), Top(all, 0, next.at), taken)
  <2> DEFINE h == hits[limit]
  <2>1. h \in 1..Len(all) /\ next.at = h /\ h > c.at /\ n = limit /\ limit \in 1..n
    BY <1>12, <1>13, <1>20
  <2>2. Top(all, 0, h) = all[h] /\ all[h] \in Int
    BY <1>3, <2>1, RowsInt DEF Top
  <2>3. /\ Top(all, 0, c.at) <= all[h]
    <3>1. c.at \in 0..h /\ h \in 0..Len(all)
      BY <1>3, <1>4, <2>1
    <3> HIDE DEF h
    <3>2. Top(all, 0, c.at) <= Top(all, 0, h)
      BY <1>3, <3>1, TopCuts
    <3> QED
      BY <2>2, <3>2
  <2>4. ASSUME NEW i \in 1..n PROVE all[hits[i]] <= all[h]
    <3>1. all[hits[i]] \in Int
      BY <1>10, RowsInt
    <3>2. i < limit => all[hits[i]] < all[h]
      BY <1>17, <2>1
    <3>3. i = limit \/ i < limit
      BY <1>8, <2>1
    <3> QED
      BY <2>2, <3>1, <3>2, <3>3
  <2>5. ASSUME NEW j \in 1..Len(hits), ~(j <= n) PROVE all[hits[j]] > all[h]
    <3>1. DOMAIN hits = 1..Len(hits) /\ DOMAIN all = 1..Len(all) /\ limit \in 1..Len(hits) /\ limit < j
      BY <1>3, <1>6, <1>8, <1>9, <2>1, <2>5
    <3>2. h < hits[j]
      BY <1>6, <3>1 DEF Increasing
    <3>3. hits[j] \in 1..Len(all)
      BY <1>5, <1>6
    <3> QED
      BY <1>3, <2>1, <3>1, <3>2, <3>3 DEF Increasing
  <2>6. Carries(S \cap m, Top(all, 0, c.at), all[h], taken)
    <3> HIDE DEF h
    <3> QED
      BY <1>19, <1>20, <2>2, <2>3, <2>4, <2>5
  <2> QED
    BY <1>3, <2>1, <2>2, <2>6
<1>21. ASSUME c.at <= Len(all), ~more
       PROVE  Carries(S \cap m, Top(all, 0, c.at), Len(Bytes), taken)
  <2>1. ASSUME NEW i \in 1..n PROVE all[hits[i]] <= Len(Bytes)
    BY <1>10, RowsAre
  <2>2. Top(all, 0, c.at) <= Len(Bytes)
    <3>1. CASE c.at = 0
      BY <1>4, <3>1 DEF Top
    <3>2. CASE c.at # 0
      <4>1. c.at \in 1..Len(all)
        BY <1>3, <1>4, <1>21, <3>2
      <4>2. all[c.at] \in Rows
        BY <1>3, <4>1
      <4> QED
        BY <3>2, <4>2, RowsAre DEF Top
    <3> QED
      BY <3>1, <3>2
  <2>3. ASSUME NEW j \in 1..Len(hits), ~(j <= n) PROVE FALSE
    <3>1. n = limit /\ limit \in 1..Len(hits) /\ limit < j /\ limit \in 1..n
      BY <1>6, <1>8, <1>9, <2>3
    <3>2. ~(hits[limit] < Len(all)) /\ hits[limit] \in 1..Len(all)
      BY <1>10, <1>11, <1>21, <3>1
    <3>3. hits[limit] < hits[j] /\ hits[j] \in 1..Len(all)
      <4>1. DOMAIN hits = 1..Len(hits)
        BY <1>6
      <4> QED
        BY <1>5, <1>6, <3>1, <4>1 DEF Increasing
    <3> QED
      BY <1>3, <3>2, <3>3
  <2> DEFINE hi == Len(Bytes)
  <2>4. /\ hi \in Int /\ Top(all, 0, c.at) <= hi
        /\ \A i \in 1..n : all[hits[i]] <= hi
        /\ \A j \in 1..Len(hits) : ~(j <= n) => all[hits[j]] > hi
    BY <1>4, <2>1, <2>2, <2>3
  <2> HIDE DEF hi
  <2>5. Carries(S \cap m, Top(all, 0, c.at), hi, taken)
    BY <1>19, <1>21, <2>4
  <2> QED
    BY <2>5 DEF hi
<1>22. CatalogSource(S, m) = all
  BY DEF CatalogSource, all
<1> HIDE DEF more, next
<1> QED
  BY <1>9, <1>11, <1>13, <1>15, <1>16, <1>20, <1>21, <1>22 DEF CatalogContract

\* Prometheus is asked for no more names than needed; the page is the same.
LEMMA NamesWindow ==
  ASSUME NEW S, S \subseteq Rows, NEW m, NEW at \in Nat, NEW n \in Nat
  PROVE  Window(Matching(PrometheusNames(InOrder(S), m, at, n), m), at, n)
           = Window(Matching(InOrder(S), m), at, n)
<1> DEFINE all == InOrder(S)
           k == at + n
           names == First(all, k)
<1>1. CASE m # DOMAIN Bytes
  BY <1>1 DEF PrometheusNames
<1>2. CASE m = DOMAIN Bytes
  <2>1. PrometheusNames(all, m, at, n) = names
    BY <1>2 DEF PrometheusNames
  <2>2. all \in Seq(Rows) /\ k \in Nat
    BY InOrderFacts
  <2> HIDE DEF all
  <2>3. /\ names \in Seq(Rows) /\ Len(names) = (IF k < Len(all) THEN k ELSE Len(all))
        /\ \A i \in 1..Len(names) : names[i] = all[i]
    <3> HIDE DEF k
    <3> QED
      BY <2>2, FirstRows DEF FirstOf
  <2> HIDE DEF names
  <2>4. Matching(all, m) = all
    <3>1. \A i \in 1..Len(all) : all[i] \in m
      BY <1>2, <2>2 DEF Rows
    <3> QED
      BY <2>2, <3>1, OnlyAll DEF Matching
  <2>5. Matching(names, m) = names
    <3>1. \A i \in 1..Len(names) : names[i] \in m
      BY <1>2, <2>3 DEF Rows
    <3> QED
      BY <2>3, <3>1, OnlyAll DEF Matching
  <2> DEFINE v == Window(names, at, n)
             w == Window(all, at, n)
  <2>6. /\ v \in Seq(Rows)
        /\ Len(v) = IF Len(names) <= at THEN 0
                    ELSE IF at + n <= Len(names) THEN n ELSE Len(names) - at
        /\ \A i \in 1..Len(v) : v[i] = names[at + i]
    <3>1. names \in Seq(Rows)
      BY <2>3
    <3> HIDE DEF k
    <3> QED
      BY <3>1, WindowIs
  <2>7. /\ w \in Seq(Rows)
        /\ Len(w) = IF Len(all) <= at THEN 0
                    ELSE IF at + n <= Len(all) THEN n ELSE Len(all) - at
        /\ \A i \in 1..Len(w) : w[i] = all[at + i]
    BY <2>2, WindowIs
  <2> HIDE DEF v, w
  <2>8. Len(all) \in Nat /\ Len(names) \in Nat /\ k = at + n
    BY <2>2, <2>3
  <2>9. Len(v) = Len(w) /\ Len(v) \in Nat
    BY <2>3, <2>6, <2>7, <2>8
  <2>10. ASSUME NEW i \in 1..Len(v) PROVE v[i] = w[i]
    <3>1. at + i \in 1..Len(names)
      BY <2>3, <2>6, <2>8, <2>9
    <3> QED
      BY <2>3, <2>6, <2>7, <2>9, <3>1
  <2>11. v = w
    BY <2>6, <2>7, <2>9, <2>10, SeqEqual
  <2> QED
    BY <2>1, <2>4, <2>5, <2>11 DEF v, w, all
<1> QED
  BY <1>1, <1>2

LEMMA CatalogPages ==
  ASSUME NEW S, S \subseteq Rows, NEW m, NEW c \in CursorType, c.at >= 0, NEW limit \in Nat \ {0},
         NEW p, p = search_catalog_page(S, m, c, limit), ~p.error, adapter \in AllNames
  PROVE  CatalogContract(S, m, c, limit, p)
<1> DEFINE all == InOrder(S)
           q == catalog_page(Window(Matching(all, m), c.at, limit + 1), c.at, limit)
<1>0. NoPage.error
  BY DEF NoPage
<1>1. CASE adapter \in SqlAdapterNames \cup DocumentAdapterNames
  <2>1. p = q
    BY <1>1 DEF search_catalog_page, SqlAdapterNames, DocumentAdapterNames, PgSearchCatalog,
                MySqlSearchCatalog, OracleSearchCatalog, TdsSearchCatalog, CqlSearchCatalog,
                MongoSearchCatalog, CouchbaseSearchCatalog, HBaseSearchCatalog
  <2> QED
    BY <1>1, <2>1, CatalogByOffset DEF SqlAdapterNames, DocumentAdapterNames
<1>2. CASE adapter \in SearchAdapterNames \ {"splunk", "pinecone"}
  <2> DEFINE f == Window(Matching(all, m), c.at, limit + 1)
  <2>1. p = read_response(all, bounded_catalog(f, q))
    BY <1>2 DEF search_catalog_page, SearchAdapterNames, ElasticCatalog, MilvusCatalog,
                QdrantCatalog, WeaviateCatalog, ListedPage
  <2> HIDE DEF f, q, all
  <2>2. p = NoPage \/ p = q
    BY <2>1 DEF read_response, bounded_catalog
  <2>3. p = q
    BY <1>0, <2>2
  <2> QED
    BY <1>2, <2>3, CatalogByOffset DEF q, all, SearchAdapterNames
<1>3. CASE adapter = "pinecone"
  <2> DEFINE f == First(Window(Matching(all, m), c.at, limit + 1), limit)
  <2>1. p = read_response(all, bounded_catalog(f, q))
    BY <1>3 DEF search_catalog_page, PineconeCatalog
  <2> HIDE DEF f, q, all
  <2>2. p = NoPage \/ p = q
    BY <2>1 DEF read_response, bounded_catalog
  <2>3. p = q
    BY <1>0, <2>2
  <2> QED
    BY <1>3, <2>3, CatalogByOffset DEF q, all
<1>4. CASE adapter = "splunk"
  <2>1. p = SplunkCatalog(all, m, c, limit)
    BY <1>4 DEF search_catalog_page
  <2> QED
    BY <1>4, <2>1, CatalogByEntries
<1>5. CASE adapter = "influxdb"
  <2> DEFINE f == Window(Matching(all, m), c.at, limit + 1)
  <2>1. p = read_checked(f, q)
    BY <1>5 DEF search_catalog_page, InfluxCatalog
  <2> HIDE DEF f, q, all
  <2>2. p = NoPage \/ p = q
    BY <2>1 DEF read_checked
  <2>3. p = q
    BY <1>0, <2>2
  <2> QED
    BY <1>5, <2>3, CatalogByOffset DEF q, all
<1>6. CASE adapter = "prometheus"
  <2> DEFINE n == limit + 1
             names == PrometheusNames(all, m, c.at, n)
             r == catalog_page(Window(Matching(names, m), c.at, n), c.at, limit)
  <2>1. p = read_checked(names, r)
    BY <1>6 DEF search_catalog_page, PrometheusCatalog
  <2>2. r = q
    <3>1. n \in Nat /\ c.at \in Nat
      BY DEF CursorType
    <3>2. q = catalog_page(Window(Matching(all, m), c.at, n), c.at, limit)
      OBVIOUS
    <3> HIDE DEF n, q
    <3> QED
      BY <3>1, <3>2, NamesWindow
  <2> HIDE DEF names, q, r, all
  <2>3. p = NoPage \/ p = r
    BY <2>1 DEF read_checked
  <2>4. p = q
    BY <1>0, <2>2, <2>3
  <2> QED
    BY <1>6, <2>4, CatalogByOffset DEF q, all
<1> QED
  BY <1>1, <1>2, <1>3, <1>4, <1>5, <1>6 DEF AllNames, TimeSeriesAdapterNames
-----------------------------------------------------------------------------
(***************************************************************************)
(* The invariant of the readers.  A traversal that is still under way has  *)
(* delivered what it wants up to its mark, the row that its cursor stands  *)
(* for: by the cursor alone where that names a row, and as long as nobody  *)
(* changes the table where it is an offset or a place in a server page.    *)
(***************************************************************************)
ReaderType ==
    [kind : {"none", "read", "ids", "catalog"}, status : Statuses, cursor : CursorType,
     token : Nat, delivered : Seq(Rows), acc : Seq(Rows), want : 0..MaxRows, ids : Seq(Rows),
     match : SUBSET Rows, sorted : BOOLEAN, stable : SUBSET Rows, quiet : BOOLEAN]

Tracked(r) ==
    \/ r.kind = "read" /\ (r.quiet \/ adapter \in Keyset)
    \/ r.kind = "catalog" /\ r.quiet

Mark(S, r) ==
    IF r.kind = "catalog" THEN Top(CatalogSource(S, r.match), 0, r.cursor.at)
    ELSE ReadMark(S, r.cursor)

Placed(S, r) ==
    IF r.kind = "catalog" THEN r.cursor.at <= Len(CatalogSource(S, r.match))
    ELSE ReadPlaced(S, r.cursor)

\* What has been read so far, the entries of a catalog search under way included.
Got(r) == r.delivered \o r.acc

UnderWay(S, r) ==
    /\ r.cursor.at >= 0 /\ r.kind # "none" /\ r.stable \subseteq S
    /\ r.kind = "read" => adapter \in Pageable /\ r.acc = <<>>
    /\ r.kind = "ids" => /\ adapter \in ReadsByIds /\ (adapter = "hbase" => Len(r.ids) = 1)
                         /\ r.match = Elements(r.ids) /\ r.delivered = <<>>
    /\ r.kind = "catalog" => /\ r.token = 0
                             /\ IF r.want = 0 THEN r.acc = <<>> ELSE Len(r.acc) < r.want
    /\ Tracked(r) => Placed(S, r) /\ Carries(Wanted(r), -1, Mark(S, r), Got(r))

\* PagesComplete, of one reader.
Complete(r) ==
    r.status = "done" /\ (r.quiet \/ (r.kind # "catalog" /\ adapter \in Keyset)) =>
      /\ Wanted(r) \subseteq Elements(r.delivered)
      /\ IF r.kind = "ids" THEN r.delivered = Only(r.ids, Elements(r.delivered))
         ELSE Increasing(r.delivered)

ReaderOK(S, r) == r \in ReaderType /\ (r.status = "reading" => UnderWay(S, r)) /\ Complete(r)

HandleType == [session : Sessions, token : Nat \ {0}, cursor : CursorType]

\* A token stands for the cursor of the session that it was handed to.
TokensOK ==
    \A i \in 1..Len(handles), t \in Sessions :
      handles[i].token = readers[t].token =>
        handles[i].session = t /\ handles[i].cursor = readers[t].cursor

PagingInv ==
    /\ rows \subseteq Rows /\ masked \in BOOLEAN /\ adapter \in AllNames
    /\ DOMAIN readers = Sessions /\ \A s \in Sessions : ReaderOK(rows, readers[s])
    /\ handles \in Seq(HandleType) /\ Len(handles) <= MASKED_CURSOR_CAPACITY /\ TokensOK
    /\ changes \in 0..MaxChanges /\ losses \in 0..MaxLosses

-----------------------------------------------------------------------------
(***************************************************************************)
(* The way back of an answer: finish_result and the limits of the runtime. *)
(***************************************************************************)
LEMMA LimitIs ==
  ASSUME NEW n \in Limits
  PROVE  effective_row_limit(n) \in Nat \ {0} /\ effective_row_limit(n) <= MaxRows
BY PagesAssumption, PagingAssumption DEF effective_row_limit

LEMMA CarriesFewer ==
  ASSUME NEW W, NEW V, V \subseteq W, NEW lo, NEW hi, NEW r, Carries(W, lo, hi, r)
  PROVE  Carries(V, lo, hi, r)
BY DEF Carries

LEMMA CarriesAll ==
  ASSUME NEW W, W \subseteq Rows, NEW r, Carries(W, -1, Len(Bytes), r)
  PROVE  W \subseteq Elements(r) /\ Increasing(r)
<1>1. \A x \in W : -1 < x /\ x <= Len(Bytes)
  BY RowsAre
<1>2. \A x \in W : \E i \in 1..Len(r) : r[i] = x
  BY <1>1 DEF Carries
<1>3. r \in Seq(Rows)
  BY DEF Carries
<1>4. DOMAIN r = 1..Len(r)
  BY <1>3
<1> QED
  BY <1>2, <1>4 DEF Elements, Carries

\* What the HTTP adapters do at the end changes no page that keeps the limits.
LEMMA FinishedIs ==
  ASSUME NEW p \in PageType, ~p.error, Len(p.rows) <= MaxRows,
         p.rows = <<>> \/ Size(p.rows) <= MaxBytes \/ adapter \notin SearchAdapterNames
  PROVE  LET f == Finished(p) IN
         /\ f \in PageType /\ ~f.error /\ f.rows = p.rows /\ f.next = p.next
         /\ f.truncated = p.truncated \/ f.next # End
<1>1. CASE adapter \notin SearchAdapterNames
  BY <1>1 DEF Finished
<1>2. CASE adapter \in SearchAdapterNames
  <2> DEFINE k == Kept(p.rows, MaxRows, 0)
  <2>1. p.rows \in Seq(Rows) /\ p.next \in CursorType /\ p.truncated \in BOOLEAN
    BY DEF PageType
  <2>2. MaxRows \in Nat \ {0} /\ MaxBytes \in Nat /\ 0 \in Nat
    BY PagesAssumption
  <2>3. Size(p.rows) + 0 <= MaxBytes
    <3>1. Size(p.rows) \in Nat
      BY <2>1, SizeNat
    <3> QED
      BY <1>2, <2>2, <3>1, SizeEmpty
  <2>4. k.rows = p.rows
    BY <2>1, <2>2, <2>3, KeptIs
  <2>5. Finished(p) = [p EXCEPT !.rows = k.rows,
                                !.truncated = Len(k.rows) < Len(p.rows) \/ p.next # End \/ @]
    BY <1>2 DEF Finished, finish_result
  <2> HIDE DEF k
  <2>6. ~(Len(p.rows) < Len(p.rows))
    BY <2>1
  <2>7. Finished(p) = [p EXCEPT !.rows = p.rows, !.truncated = p.next # End \/ p.truncated]
    BY <2>4, <2>5, <2>6 DEF PageType
  <2> QED
    BY <2>1, <2>7 DEF PageType
<1> QED
  BY <1>1, <1>2

\* What the runtime lets through.
LEMMA Enforced ==
  ASSUME NEW p \in PageType, NEW a, a = enforce_result_limits(p), ~a.error
  PROVE  /\ a \in PageType /\ Len(a.rows) <= MaxRows
         /\ a.rows = <<>> \/ Size(a.rows) + MetaBytes <= MaxBytes
         /\ Len(p.rows) <= MaxRows => a = p \/ (a.next = End /\ a.truncated)
<1> DEFINE f == First(p.rows, MaxRows)
           kept == Within(f, MetaBytes)
<1>0. NoPage.error /\ p.rows \in Seq(Rows) /\ p.error \in BOOLEAN
  BY DEF NoPage, PageType
<1>1. MaxRows \in Nat \ {0} /\ MetaBytes \in Nat /\ MaxBytes \in Nat
  BY PagesAssumption
<1>2. FirstOf(p.rows, MaxRows, f)
  BY <1>0, <1>1, FirstRows
<1>3. f \in Seq(Rows) /\ Len(f) <= MaxRows
  BY <1>0, <1>1, <1>2 DEF FirstOf
<1>4. ~p.error
  BY <1>0 DEF enforce_result_limits
<1> DEFINE cut == Page(f, p.next, p.truncated \/ Len(f) < Len(p.rows))
<1>5. \/ a = cut /\ Size(f) + MetaBytes <= MaxBytes
      \/ a = Page(kept, End, TRUE)
  BY <1>0, <1>4 DEF enforce_result_limits
<1> HIDE DEF f
<1>6. CASE a = cut /\ Size(f) + MetaBytes <= MaxBytes
  <2>1. a.rows = f /\ a \in PageType
    BY <1>3, <1>6 DEF Page, PageType
  <2>2. ASSUME Len(p.rows) <= MaxRows PROVE a = p
    <3>1. f = p.rows
      BY <1>0, <1>1, <1>2, <2>2, SeqEqual DEF FirstOf
    <3>2. ~(Len(p.rows) < Len(p.rows)) /\ p.truncated \in BOOLEAN
      BY <1>0 DEF PageType
    <3>3. a = Page(p.rows, p.next, p.truncated)
      BY <1>6, <3>1, <3>2
    <3> QED
      BY <1>4, <3>3 DEF Page, PageType
  <2> QED
    BY <1>3, <1>6, <2>1, <2>2
<1>7. CASE a = Page(kept, End, TRUE)
  <2>1. PICK n \in 0..Len(f) : /\ kept = SubSeq(f, 1, n)
                               /\ n = 0 \/ Size(SubSeq(f, 1, n)) + MetaBytes <= MaxBytes
    BY <1>1, <1>3, WithinIs
  <2>2. kept \in Seq(Rows) /\ Len(kept) = n
    BY <1>3, <2>1
  <2> HIDE DEF kept
  <2>3. kept = <<>> \/ Size(kept) + MetaBytes <= MaxBytes
    BY <2>1, <2>2
  <2>4. a.rows = kept /\ a.next = End /\ a.truncated /\ a \in PageType
    BY <1>7, <2>2, EndIs DEF Page, PageType
  <2>5. Len(kept) <= MaxRows
    BY <1>1, <1>3, <2>2
  <2> QED
    BY <2>3, <2>4, <2>5
<1> QED
  BY <1>5, <1>6, <1>7

\* The answer that a client gets for a page that its adapter made, in one.
LEMMA Answers ==
  ASSUME NEW p, p.error \/ (/\ p \in PageType /\ Len(p.rows) <= MaxRows
                            /\ \/ p.rows = <<>> \/ Size(p.rows) <= MaxBytes
                               \/ adapter \notin SearchAdapterNames),
         NEW a, a = enforce_result_limits(Finished(p)), ~a.error
  PROVE  /\ ~p.error /\ a \in PageType /\ Len(a.rows) <= MaxRows
         /\ a.rows = <<>> \/ Size(a.rows) + MetaBytes <= MaxBytes
         /\ \/ a.next = End /\ a.truncated
            \/ /\ a.rows = p.rows /\ a.next = p.next
               /\ a.truncated = p.truncated \/ a.next # End
<1>1. ~p.error
  <2>1. p.error => Finished(p) = p
    BY DEF Finished
  <2>2. p.error => a = NoPage
    BY <2>1 DEF enforce_result_limits
  <2> QED
    BY <2>2 DEF NoPage
<1> DEFINE f == Finished(p)
<1>2. /\ f \in PageType /\ f.rows = p.rows /\ f.next = p.next
      /\ f.truncated = p.truncated \/ f.next # End
  BY <1>1, FinishedIs
<1> HIDE DEF f
<1>3. a = enforce_result_limits(f)
  BY DEF f
<1>4. Len(f.rows) <= MaxRows
  BY <1>1, <1>2
<1> QED
  BY <1>1, <1>2, <1>3, <1>4, Enforced
\* A read by ids: all of the ids that are there, in their order, unless it says that it
\* left some out.
LEMMA IdsPages ==
  ASSUME NEW S, S \subseteq Rows, NEW ids \in Seq(Rows), NEW limit \in Nat \ {0}, limit <= MaxRows,
         NEW p, p = ReadIdsOf(S, ids, limit), ~p.error, adapter \in ReadsByIds,
         adapter = "hbase" => Len(ids) = 1
  PROVE  /\ p \in PageType /\ Len(p.rows) <= MaxRows /\ p.next = End
         /\ p.rows = <<>> \/ Size(p.rows) <= MaxBytes \/ adapter \notin SearchAdapterNames
         /\ ~p.truncated => p.rows = Only(ids, S)
<1>0. NoPage.error /\ MaxRows \in Nat \ {0} /\ End \in CursorType
  BY PagesAssumption, EndIs DEF NoPage
<1> DEFINE found == Only(ids, S)
<1>1. found \in Seq(Rows) /\ Len(found) <= Len(ids)
  BY OnlyRows
<1> DEFINE whole == Page(found, End, FALSE)
<1>2. /\ whole \in PageType /\ whole.rows = found /\ whole.next = End /\ ~whole.truncated
      /\ ~whole.error
  BY <1>0, <1>1 DEF Page, PageType
<1>3. CASE adapter = "hbase"
  <2>1. Len(ids) = 1
    BY <1>3
  <2>2. First(ids, 1) = ids
    <3>1. FirstOf(ids, 1, First(ids, 1))
      BY FirstRows
    <3> QED
      BY <2>1, <3>1, SeqEqual DEF FirstOf
  <2>3. p = HBaseGet(S, ids)
    BY <1>3 DEF ReadIdsOf
  <2>4. p = whole
    BY <1>0, <2>2, <2>3 DEF HBaseGet
  <2> HIDE DEF whole, found
  <2>5. adapter \notin SearchAdapterNames
    BY <1>3 DEF SearchAdapterNames
  <2> QED
    BY <1>0, <1>1, <1>2, <2>1, <2>4, <2>5 DEF found
<1>4. CASE adapter = "pinecone"
  <2>1. p = PineconeFetch(S, ids, limit)
    BY <1>4 DEF ReadIdsOf
  <2>2. p = whole /\ ~(Len(ids) > limit) /\ ~(Size(found) > MaxBytes)
    BY <1>0, <2>1 DEF PineconeFetch, read_response
  <2>3. Size(found) \in Nat /\ MaxBytes \in Nat
    BY <1>1, SizeNat, PagesAssumption
  <2> HIDE DEF whole, found
  <2> QED
    BY <1>0, <1>1, <1>2, <2>2, <2>3 DEF found
<1>5. CASE adapter = "weaviate"
  <2> DEFINE front == First(ids, limit)
             f == Only(front, S)
             k == Kept(f, limit, 0)
  <2>1. p = WeaviateFetch(S, ids, limit)
    BY <1>5 DEF ReadIdsOf
  <2>2. p = Page(k.rows, End, k.truncated \/ Len(ids) > limit)
    BY <1>0, <2>1 DEF WeaviateFetch
  <2>3. FirstOf(ids, limit, front)
    BY FirstRows
  <2> HIDE DEF front
  <2>4. f \in Seq(Rows) /\ Len(f) <= Len(front)
    BY <2>3, OnlyRows DEF FirstOf
  <2> HIDE DEF f
  <2>5. /\ k.rows \in Seq(Rows) /\ Len(k.rows) <= limit /\ Len(k.rows) <= Len(f)
        /\ \A i \in 1..Len(k.rows) : k.rows[i] = f[i]
        /\ k.truncated <=> Len(k.rows) < Len(f)
        /\ k.truncated \in BOOLEAN
        /\ k.rows = <<>> \/ Size(k.rows) + 0 <= MaxBytes
    BY <2>4, KeptIs
  <2> HIDE DEF k
  <2>6. /\ p \in PageType /\ p.rows = k.rows /\ p.next = End
        /\ p.truncated = (k.truncated \/ Len(ids) > limit)
    BY <1>0, <2>2, <2>5 DEF Page, PageType
  <2>7. k.rows = <<>> \/ Size(k.rows) <= MaxBytes
    BY <2>5, SizeNat, PagesAssumption
  <2>8. ASSUME ~p.truncated PROVE p.rows = Only(ids, S)
    <3>0. ~k.truncated /\ ~(Len(ids) > limit)
      BY <2>6, <2>8, Zenon
    <3>1. Len(k.rows) = Len(f) /\ Len(ids) <= limit
      BY <2>4, <2>5, <3>0
    <3>2. k.rows = f
      BY <2>4, <2>5, <3>1, SeqEqual
    <3>3. front = ids
      BY <2>3, <3>1, SeqEqual DEF FirstOf
    <3> QED
      BY <2>6, <3>2, <3>3 DEF f
  <2> QED
    BY <1>0, <2>5, <2>6, <2>7, <2>8
<1> QED
  BY <1>3, <1>4, <1>5 DEF ReadsByIds

-----------------------------------------------------------------------------
(***************************************************************************)
(* The steps of one reader.                                                *)
(***************************************************************************)
\* AnswersWithinLimits, of one reader.
Fits(r, q) ==
    /\ Len(Answer(r, q)) <= MaxRows
    /\ \/ AnswerBytes(r, q) <= MaxBytes
       \/ masked /\ q.token # 0 /\ AnswerBytes(r, q) <= MaxBytes + TokenBytes

LEMMA FitsMore ==
  ASSUME NEW r \in ReaderType, NEW q, NEW x \in Seq(Rows), q.delivered = r.delivered \o x,
         Len(x) <= MaxRows,
         x = <<>> \/ r.kind = "catalog" \/ q.token = 0 \/ masked,
         x = <<>> \/ Size(x) + (IF r.kind = "catalog" THEN 0 ELSE MetaBytes) <= MaxBytes
  PROVE  Fits(r, q)
<1> DEFINE d == r.delivered
<1>1. d \in Seq(Rows)
  BY DEF ReaderType
<1>2. d \o x \in Seq(Rows) /\ Len(d \o x) = Len(d) + Len(x)
  BY <1>1
<1>3. Drop(d \o x, Len(d)) = x
  <2>1. /\ Drop(d \o x, Len(d)) \in Seq(Rows) /\ Len(Drop(d \o x, Len(d))) = Len(d \o x) - Len(d)
        /\ \A i \in 1..Len(Drop(d \o x, Len(d))) : Drop(d \o x, Len(d))[i] = (d \o x)[Len(d) + i]
    <3>1. Len(d) \in 0..Len(d \o x)
      BY <1>1, <1>2
    <3> QED
      BY <1>2, <3>1, DropIs
  <2>2. \A i \in 1..Len(x) : (d \o x)[Len(d) + i] = x[i]
    BY <1>1
  <2> HIDE DEF d
  <2> DEFINE y == Drop(d \o x, Len(d))
  <2>3. y \in Seq(Rows) /\ Len(y) = Len(x) /\ \A i \in 1..Len(y) : y[i] = x[i]
    BY <1>1, <1>2, <2>1, <2>2
  <2> HIDE DEF y
  <2>4. y = x
    BY <2>3, SeqEqual
  <2> QED
    BY <2>4 DEF y
<1>4. Size(x) \in Nat /\ MetaBytes \in Nat /\ MaxBytes \in Nat /\ Size(<<>>) = 0
  BY SizeNat, SizeEmpty, PagesAssumption
<1>5. TokenBytes \in Nat
  BY PagingAssumption
<1>6. AnswerBytes(r, q) =
        Size(x) + (IF r.kind = "catalog" \/ x = <<>> THEN 0
                   ELSE MetaBytes + (IF q.token = 0 THEN 0 ELSE TokenBytes))
  BY <1>3 DEF AnswerBytes, Answer
<1>7. \/ AnswerBytes(r, q) <= MaxBytes
      \/ masked /\ q.token # 0 /\ AnswerBytes(r, q) <= MaxBytes + TokenBytes
  BY <1>4, <1>5, <1>6
<1> QED
  BY <1>3, <1>7 DEF Fits, Answer

LEMMA FitsSame ==
  ASSUME NEW r \in ReaderType, NEW q, q.delivered = r.delivered
  PROVE  Fits(r, q)
<1>1. r.delivered \in Seq(Rows)
  BY DEF ReaderType
<1>2. r.delivered = r.delivered \o <<>>
  BY <1>1
<1>3. <<>> \in Seq(Rows) /\ Len(<<>>) <= MaxRows
  BY PagesAssumption
<1> QED
  BY <1>2, <1>3, FitsMore

\* The fields of a reader that has its answer.
LEMMA AnsweredFails ==
  ASSUME NEW r \in ReaderType, NEW a, a.error, NEW token
  PROVE  /\ Answered(r, a, token) \in ReaderType
         /\ Answered(r, a, token).status = "failed"
         /\ Answered(r, a, token).delivered = r.delivered
         /\ Answered(r, a, token).cursor = r.cursor
         /\ Answered(r, a, token).token = r.token
BY DEF Answered, ReaderType, Statuses

LEMMA AnsweredIs ==
  ASSUME NEW r \in ReaderType, NEW a \in PageType, ~a.error, NEW token \in Nat
  PROVE  LET q == Answered(r, a, token) IN
         /\ q \in ReaderType
         /\ q.kind = r.kind /\ q.acc = r.acc /\ q.want = r.want /\ q.ids = r.ids
         /\ q.match = r.match /\ q.stable = r.stable /\ q.quiet = r.quiet
         /\ q.cursor = a.next /\ q.token = token /\ q.delivered = r.delivered \o a.rows
         /\ q.status = IF a.next # End THEN "reading" ELSE IF a.truncated THEN "truncated" ELSE "done"
<1> USE DEF ReaderType, Statuses
<1> DEFINE st == IF a.next # End THEN "reading" ELSE IF a.truncated THEN "truncated" ELSE "done"
           d == r.delivered \o a.rows
           q == Answered(r, a, token)
<1>1. a.rows \in Seq(Rows) /\ a.next \in CursorType /\ a.truncated \in BOOLEAN
  BY DEF PageType
<1>2. d \in Seq(Rows)
  BY <1>1
<1>3. q = [r EXCEPT !.delivered = d, !.cursor = a.next, !.token = token, !.status = st]
  BY DEF Answered
<1>4. st \in Statuses
  OBVIOUS
<1> HIDE DEF st, d, q
<1>5. q \in ReaderType
  BY <1>1, <1>2, <1>3, <1>4
<1>6. /\ q.kind = r.kind /\ q.acc = r.acc /\ q.want = r.want /\ q.ids = r.ids
      /\ q.match = r.match /\ q.stable = r.stable /\ q.quiet = r.quiet
      /\ q.cursor = a.next /\ q.token = token /\ q.delivered = d /\ q.status = st
  BY <1>3
<1> QED
  BY <1>5, <1>6 DEF d, st, q

LEMMA IdsAnswered ==
  ASSUME NEW S, S \subseteq Rows, NEW r, ReaderOK(S, r), r.status = "reading", r.kind = "ids",
         NEW limit \in Nat \ {0}, limit <= MaxRows, NEW p, p = ReadIdsOf(S, r.ids, limit),
         NEW a, a = enforce_result_limits(Finished(p)), NEW q, q = Answered(r, a, 0)
  PROVE  ReaderOK(S, q) /\ Fits(r, q)
<1>1. /\ r \in ReaderType /\ adapter \in ReadsByIds /\ (adapter = "hbase" => Len(r.ids) = 1)
      /\ r.match = Elements(r.ids) /\ r.delivered = <<>> /\ r.stable \subseteq S
  BY DEF ReaderOK, UnderWay
<1>2. r.ids \in Seq(Rows)
  BY <1>1 DEF ReaderType
<1>3. CASE a.error
  <2>1. q \in ReaderType /\ q.status = "failed" /\ q.delivered = r.delivered
    BY <1>1, <1>3, AnsweredFails
  <2> QED
    BY <1>1, <2>1, FitsSame DEF ReaderOK, Complete
<1>4. CASE ~a.error
  <2>1. ~p.error => /\ p \in PageType /\ Len(p.rows) <= MaxRows /\ p.next = End
                    /\ p.rows = <<>> \/ Size(p.rows) <= MaxBytes \/ adapter \notin SearchAdapterNames
                    /\ ~p.truncated => p.rows = Only(r.ids, S)
    BY <1>1, <1>2, IdsPages
  <2>2. /\ ~p.error /\ a \in PageType /\ Len(a.rows) <= MaxRows
        /\ a.rows = <<>> \/ Size(a.rows) + MetaBytes <= MaxBytes
        /\ \/ a.next = End /\ a.truncated
           \/ /\ a.rows = p.rows /\ a.next = p.next
              /\ a.truncated = p.truncated \/ a.next # End
    BY <1>4, <2>1, Answers
  <2>3. a.next = End
    BY <2>1, <2>2
  <2>4. /\ q \in ReaderType /\ q.kind = "ids" /\ q.ids = r.ids /\ q.match = r.match
        /\ q.stable = r.stable /\ q.delivered = r.delivered \o a.rows /\ q.token = 0
        /\ q.status = IF a.truncated THEN "truncated" ELSE "done"
    <3>1. 0 \in Nat
      OBVIOUS
    <3>2. /\ q \in ReaderType /\ q.kind = r.kind /\ q.ids = r.ids /\ q.match = r.match
          /\ q.stable = r.stable /\ q.delivered = r.delivered \o a.rows /\ q.token = 0
          /\ q.status = IF a.next # End THEN "reading"
                        ELSE IF a.truncated THEN "truncated" ELSE "done"
      <4>1. a \in PageType /\ ~a.error /\ r \in ReaderType
        BY <1>1, <1>4, <2>2
      <4> QED
        BY ONLY q = Answered(r, a, 0), <4>1, <3>1, AnsweredIs, ZenonT(40)
    <3> QED
      BY <2>3, <3>2
  <2>5. a.rows \in Seq(Rows)
    BY <2>2 DEF PageType
  <2>6. Fits(r, q)
    BY <1>1, <2>2, <2>4, <2>5, FitsMore
  <2>7. q.delivered = a.rows
    BY <1>1, <2>4, <2>5
  <2>8. ASSUME q.status = "done"
        PROVE  /\ Wanted(q) \subseteq Elements(q.delivered)
               /\ q.delivered = Only(q.ids, Elements(q.delivered))
    <3>1. ~a.truncated
      BY <2>4, <2>8
    <3>2. a.rows = Only(r.ids, S)
      BY <2>1, <2>2, <2>3, <3>1
    <3>3. Elements(a.rows) = S \cap Elements(r.ids)
      BY <1>2, <3>2, OnlyRows
    <3>4. Wanted(q) \subseteq Elements(a.rows)
      BY <1>1, <2>4, <3>3 DEF Wanted
    <3>5. \A i \in 1..Len(r.ids) : r.ids[i] \in S <=> r.ids[i] \in Elements(a.rows)
      <4>1. DOMAIN r.ids = 1..Len(r.ids)
        BY <1>2
      <4> QED
        BY <3>3, <4>1 DEF Elements
    <3>6. Only(r.ids, S) = Only(r.ids, Elements(a.rows))
      BY <1>2, <3>5, OnlySame
    <3> QED
      BY <2>4, <2>7, <3>2, <3>4, <3>6
  <2>9. Complete(q)
    BY <2>4, <2>8 DEF Complete
  <2>10. q.status # "reading"
    BY <2>4
  <2> QED
    BY <2>4, <2>6, <2>9, <2>10 DEF ReaderOK
<1> QED
  BY <1>3, <1>4

LEMMA ReadAnswered ==
  ASSUME NEW S, S \subseteq Rows, NEW r, ReaderOK(S, r), r.status = "reading", r.kind = "read",
         NEW limit \in Nat \ {0}, limit <= MaxRows,
         NEW p, p = ReadPageOf(S, r.cursor, limit, r.sorted),
         NEW a, a = enforce_result_limits(Finished(p)), NEW token \in Nat, token = 0 \/ masked,
         NEW q, q = Answered(r, a, token)
  PROVE  ReaderOK(S, q) /\ Fits(r, q)
<1>1. /\ r \in ReaderType /\ adapter \in Pageable /\ r.stable \subseteq S /\ r.cursor.at >= 0
      /\ r.acc = <<>>
  BY DEF ReaderOK, UnderWay
<1>2. r.cursor \in CursorType /\ r.delivered \in Seq(Rows)
  BY <1>1 DEF ReaderType
<1>3. CASE a.error
  <2>1. q \in ReaderType /\ q.status = "failed" /\ q.delivered = r.delivered
    BY <1>1, <1>3, AnsweredFails
  <2> QED
    BY <1>1, <2>1, FitsSame DEF ReaderOK, Complete
<1>4. CASE ~a.error
  <2>1. ~p.error => ReadContract(S, r.cursor, limit, p)
    BY <1>1, <1>2, ReadPages
  <2>2. ~p.error => /\ p \in PageType /\ Len(p.rows) <= MaxRows
                    /\ p.rows = <<>> \/ Size(p.rows) <= MaxBytes
    <3> SUFFICES ASSUME ~p.error
                 PROVE  /\ p \in PageType /\ Len(p.rows) <= MaxRows
                        /\ p.rows = <<>> \/ Size(p.rows) <= MaxBytes
      OBVIOUS
    <3>1. /\ p \in PageType /\ Len(p.rows) <= limit
          /\ p.rows = <<>> \/ Size(p.rows) <= MaxBytes
      BY <2>1 DEF ReadContract
    <3>2. Len(p.rows) \in Nat /\ MaxRows \in Nat
      BY <3>1, PagesAssumption DEF PageType
    <3> QED
      BY <3>1, <3>2
  <2>3. /\ ~p.error /\ a \in PageType /\ Len(a.rows) <= MaxRows
        /\ a.rows = <<>> \/ Size(a.rows) + MetaBytes <= MaxBytes
        /\ \/ a.next = End /\ a.truncated
           \/ /\ a.rows = p.rows /\ a.next = p.next
              /\ a.truncated = p.truncated \/ a.next # End
    BY <1>4, <2>2, Answers
  <2>4. /\ q \in ReaderType /\ q.kind = "read" /\ q.match = r.match /\ q.acc = r.acc
        /\ q.stable = r.stable /\ q.quiet = r.quiet /\ q.cursor = a.next
        /\ q.delivered = r.delivered \o a.rows /\ q.token = token
        /\ q.status = IF a.next # End THEN "reading" ELSE IF a.truncated THEN "truncated" ELSE "done"
    <3>1. a \in PageType /\ ~a.error /\ r \in ReaderType
      BY <1>1, <1>4, <2>3
    <3> QED
      <4>1. /\ q \in ReaderType /\ q.kind = r.kind /\ q.match = r.match /\ q.acc = r.acc
            /\ q.stable = r.stable /\ q.quiet = r.quiet /\ q.cursor = a.next
            /\ q.delivered = r.delivered \o a.rows /\ q.token = token
            /\ q.status = IF a.next # End THEN "reading"
                          ELSE IF a.truncated THEN "truncated" ELSE "done"
        BY ONLY q = Answered(r, a, token), token \in Nat, <3>1, AnsweredIs, ZenonT(40)
      <4> QED
        BY ONLY <4>1, r.kind = "read"
  <2>5. a.rows \in Seq(Rows)
    BY <2>3 DEF PageType
  <2>6. Fits(r, q)
    BY <1>1, <2>3, <2>4, <2>5, FitsMore
  <2>7. CASE a.next = End /\ a.truncated
    <3>1. q.status = "truncated"
      BY <2>4, <2>7
    <3> QED
      BY <2>4, <2>6, <3>1 DEF ReaderOK, Complete
  <2>8. CASE /\ a.rows = p.rows /\ a.next = p.next
             /\ a.truncated = p.truncated \/ a.next # End
    <3> DEFINE W == Wanted(r)
               m == ReadMark(S, r.cursor)
    <3>1. W \subseteq S /\ W \subseteq Rows /\ Wanted(q) = W
      BY <1>1, <2>4 DEF Wanted
    <3>2. ASSUME Tracked(r)
          PROVE  ReadPlaced(S, r.cursor) /\ m \in Int /\ Carries(W, -1, m, r.delivered)
      <4>1. Placed(S, r) /\ Carries(W, -1, Mark(S, r), Got(r))
        BY <3>2 DEF ReaderOK, UnderWay
      <4>2. Placed(S, r) = ReadPlaced(S, r.cursor) /\ Mark(S, r) = m
        BY DEF Placed, Mark
      <4>3. Got(r) = r.delivered
        BY <1>1, <1>2 DEF Got
      <4>4. ReadPlaced(S, r.cursor)
        BY <4>1, <4>2
      <4> QED
        BY <1>1, <1>2, <4>1, <4>2, <4>3, <4>4, MarksInt
    <3> HIDE DEF m, W
    <3>3. Tracked(q) <=> Tracked(r)
      BY <2>4 DEF Tracked
    <3>4. ASSUME a.next # End PROVE UnderWay(S, q)
      <4>1. p.next.at >= 0 /\ p.next \in CursorType
        BY <2>1, <2>3, <2>8, <3>4 DEF ReadContract, PageType
      <4>2. ASSUME Tracked(q) PROVE Placed(S, q) /\ Carries(Wanted(q), -1, Mark(S, q), Got(q))
        <5> DEFINE n == ReadMark(S, p.next)
        <5>1. ReadPlaced(S, p.next) /\ Carries(S, m, n, p.rows)
          BY <2>1, <2>3, <2>8, <3>2, <3>3, <3>4, <4>2 DEF ReadContract, m
        <5>2. n \in Int
          BY <4>1, <5>1, MarksInt
        <5> HIDE DEF n
        <5>3. Carries(W, m, n, p.rows)
          BY <3>1, <5>1, CarriesFewer
        <5>4. m \in Int /\ Carries(W, -1, m, r.delivered) /\ -1 \in Int
          BY <3>2, <3>3, <4>2
        <5>5. Carries(W, -1, n, r.delivered \o p.rows)
          BY <3>1, <5>2, <5>3, <5>4, CarriesOn
        <5>6. Got(q) = r.delivered \o p.rows
          <6>1. q.delivered \in Seq(Rows)
            BY <2>4 DEF ReaderType
          <6> QED
            BY <1>1, <2>4, <2>8, <6>1 DEF Got
        <5>7. Placed(S, q) = ReadPlaced(S, p.next) /\ Mark(S, q) = n
          BY <2>4, <2>8 DEF Placed, Mark, n
        <5> QED
          BY <3>1, <5>1, <5>5, <5>6, <5>7
      <4>3. q.cursor.at >= 0 /\ q.kind # "none" /\ q.stable \subseteq S
        BY <1>1, <2>4, <2>8, <4>1
      <4> QED
        BY <1>1, <2>4, <4>2, <4>3 DEF UnderWay
    <3>5. ASSUME a.next = End, ~a.truncated, Tracked(r)
          PROVE  W \subseteq Elements(q.delivered) /\ Increasing(q.delivered)
      <4>1. p.next = End /\ ~p.truncated
        BY <2>8, <3>5
      <4>2. Carries(S, m, Len(Bytes), p.rows)
        BY <2>1, <2>3, <3>2, <3>5, <4>1 DEF ReadContract, m
      <4>3. Carries(W, m, Len(Bytes), p.rows)
        BY <3>1, <4>2, CarriesFewer
      <4>4. m \in Int /\ Carries(W, -1, m, r.delivered) /\ -1 \in Int /\ Len(Bytes) \in Int
        BY <3>2, <3>5, RowsAre
      <4>5. Carries(W, -1, Len(Bytes), r.delivered \o p.rows)
        BY <3>1, <4>3, <4>4, CarriesOn
      <4> QED
        BY <2>4, <2>8, <3>1, <4>5, CarriesAll
    <3>6. Complete(q)
      <4>1. SUFFICES ASSUME q.status = "done", q.quiet \/ adapter \in Keyset
                     PROVE  Wanted(q) \subseteq Elements(q.delivered) /\ Increasing(q.delivered)
        BY <2>4 DEF Complete
      <4>2. a.next = End /\ ~a.truncated
        BY <2>4, <4>1
      <4>3. Tracked(r)
        BY <2>4, <4>1 DEF Tracked
      <4> QED
        BY <3>1, <3>5, <4>2, <4>3
    <3>7. q.status = "reading" => a.next # End
      BY <2>4
    <3> QED
      BY <2>4, <2>6, <3>4, <3>6, <3>7 DEF ReaderOK
  <2> QED
    BY <2>3, <2>7, <2>8
<1> QED
  BY <1>3, <1>4
LEMMA CatalogSourceIs ==
  ASSUME NEW S, S \subseteq Rows, NEW m, NEW n \in 0..Len(CatalogSource(S, m))
  PROVE  Top(CatalogSource(S, m), 0, n) \in Int
<1> DEFINE src == CatalogSource(S, m)
<1>1. src \in Seq(Rows) /\ Increasing(src) /\ \A i \in 1..Len(src) : src[i] > 0
  BY InOrderFacts, InOrderIs, MatchingIs DEF CatalogSource
<1>2. n \in 0..Len(src)
  OBVIOUS
<1> HIDE DEF src
<1>3. Top(src, 0, n) \in Int
  BY <1>1, <1>2, TopCuts
<1> QED
  BY <1>3 DEF src

LEMMA Concats ==
  ASSUME NEW a \in Seq(Rows), NEW b \in Seq(Rows), NEW c \in Seq(Rows)
  PROVE  /\ a \o b \in Seq(Rows) /\ Len(a \o b) = Len(a) + Len(b)
         /\ (a \o b) \o c = a \o (b \o c)
BY ConcatAssociative, ConcatProperties

\* What a page of the adapter adds to the entries of a search.
LEMMA CatalogReads ==
  ASSUME NEW S, S \subseteq Rows, NEW r, ReaderOK(S, r), r.status = "reading", r.kind = "catalog",
         r.want > 0, adapter \in AllNames,
         NEW p, p = search_catalog_page(S, r.match, r.cursor, r.want - Len(r.acc)), ~p.error,
         NEW acc, acc = r.acc \o Only(p.rows, Visible)
  PROVE  /\ acc \in Seq(Rows) /\ Len(acc) <= r.want /\ p.next \in CursorType
         /\ p.next # End => p.next.at >= 0
         /\ Tracked(r) =>
              LET src == CatalogSource(S, r.match) IN
              /\ p.next # End => /\ p.next.at <= Len(src)
                                 /\ Carries(Wanted(r), -1, Top(src, 0, p.next.at),
                                            r.delivered \o acc)
              /\ p.next = End => Carries(Wanted(r), -1, Len(Bytes), r.delivered \o acc)
<1> DEFINE limit == r.want - Len(r.acc)
           new == Only(p.rows, Visible)
           src == CatalogSource(S, r.match)
           m == Top(src, 0, r.cursor.at)
           W == Wanted(r)
<1>1. /\ r \in ReaderType /\ r.stable \subseteq S /\ r.cursor.at >= 0 /\ Len(r.acc) < r.want
      /\ Tracked(r) => Placed(S, r) /\ Carries(W, -1, Mark(S, r), Got(r))
  BY DEF ReaderOK, UnderWay
<1>2. /\ r.cursor \in CursorType /\ r.delivered \in Seq(Rows) /\ r.acc \in Seq(Rows)
      /\ r.want \in Nat /\ r.match \subseteq Rows
  BY <1>1, PagesAssumption DEF ReaderType
<1>3. limit \in Nat \ {0} /\ limit + Len(r.acc) = r.want /\ Len(r.acc) \in Nat
  BY <1>1, <1>2
<1>4. CatalogContract(S, r.match, r.cursor, limit, p)
  <2>1. p = search_catalog_page(S, r.match, r.cursor, limit)
    OBVIOUS
  <2> HIDE DEF limit
  <2> QED
    BY <1>1, <1>2, <1>3, <2>1, CatalogPages
<1> HIDE DEF limit, src, W
<1>5. /\ p \in PageType /\ Len(p.rows) <= limit /\ (p.next # End => p.next.at >= 0)
      /\ r.cursor.at <= Len(src) =>
           /\ p.next # End => /\ p.next.at <= Len(src)
                              /\ Carries(S \cap r.match, m, Top(src, 0, p.next.at), p.rows)
           /\ p.next = End => Carries(S \cap r.match, m, Len(Bytes), p.rows)
  BY <1>4 DEF CatalogContract, src
<1>6. p.rows \in Seq(Rows) /\ p.next \in CursorType
  BY <1>5 DEF PageType
<1>7. new \in Seq(Rows) /\ Len(new) <= Len(p.rows)
  BY <1>6, OnlyRows
<1>8. acc \in Seq(Rows) /\ Len(acc) <= r.want
  <2>1. acc \in Seq(Rows) /\ Len(acc) = Len(r.acc) + Len(new)
    <3>1. acc = r.acc \o new
      OBVIOUS
    <3>2. new \in Seq(Rows) /\ r.acc \in Seq(Rows)
      BY <1>2, <1>7
    <3> HIDE DEF new
    <3> QED
      BY ONLY <3>1, <3>2, Concats
  <2>2. Len(new) \in Nat /\ Len(p.rows) \in Nat
    BY <1>6, <1>7
  <2> HIDE DEF new
  <2> QED
    BY ONLY <1>3, <1>5, <1>7, <2>1, <2>2, limit \in Nat
<1>9. ASSUME Tracked(r)
      PROVE  /\ p.next # End => /\ p.next.at <= Len(src)
                                /\ Carries(W, -1, Top(src, 0, p.next.at), r.delivered \o acc)
             /\ p.next = End => Carries(W, -1, Len(Bytes), r.delivered \o acc)
  <2>1. r.cursor.at <= Len(src) /\ Carries(W, -1, m, r.delivered \o r.acc)
    BY <1>1, <1>9 DEF Placed, Mark, Got, src
  <2>2. src \in Seq(Rows)
    BY InOrderFacts, MatchingIs DEF CatalogSource, src
  <2>3. m \in Int
    <3>1. r.cursor.at \in 0..Len(src)
      BY <1>1, <1>2, <2>1, <2>2 DEF CursorType
    <3> QED
      BY <3>1, CatalogSourceIs DEF src
  <2> HIDE DEF m
  <2>4. W \subseteq S \cap r.match \cap Visible /\ W \subseteq Rows
    BY <1>1 DEF Wanted, W
  <2>5. (r.delivered \o r.acc) \o new = r.delivered \o acc
    <3>1. acc = r.acc \o new
      OBVIOUS
    <3>2. new \in Seq(Rows) /\ r.acc \in Seq(Rows) /\ r.delivered \in Seq(Rows)
      BY <1>2, <1>7
    <3> HIDE DEF new
    <3> QED
      BY ONLY <3>1, <3>2, Concats
  <2>6. ASSUME NEW n \in Int, Carries(S \cap r.match, m, n, p.rows)
        PROVE  Carries(W, -1, n, r.delivered \o acc)
    <3>1. Carries(S \cap r.match \cap Visible, m, n, new)
      BY <2>6, CarriesOnly
    <3> HIDE DEF new
    <3>2. Carries(W, m, n, new)
      BY <2>4, <3>1, CarriesFewer
    <3>3. -1 \in Int
      OBVIOUS
    <3>4. Carries(W, -1, n, (r.delivered \o r.acc) \o new)
      BY <2>1, <2>3, <2>4, <3>2, <3>3, CarriesOn
    <3> QED
      BY <2>5, <3>4
  <2>7. ASSUME p.next # End
        PROVE  /\ p.next.at <= Len(src)
               /\ Carries(W, -1, Top(src, 0, p.next.at), r.delivered \o acc)
    <3>1. p.next.at <= Len(src) /\ Carries(S \cap r.match, m, Top(src, 0, p.next.at), p.rows)
      BY <1>5, <2>1, <2>7 DEF m
    <3>2. p.next.at \in 0..Len(src)
      BY <1>5, <1>6, <2>2, <2>7, <3>1 DEF CursorType
    <3>3. Top(src, 0, p.next.at) \in Int
      BY <3>2, CatalogSourceIs DEF src
    <3> QED
      BY <2>6, <3>1, <3>3
  <2>8. ASSUME p.next = End PROVE Carries(W, -1, Len(Bytes), r.delivered \o acc)
    <3>1. Carries(S \cap r.match, m, Len(Bytes), p.rows)
      BY <1>5, <2>1, <2>8 DEF m
    <3>2. Len(Bytes) \in Int
      BY RowsAre
    <3> QED
      BY <2>6, <3>1, <3>2
  <2> QED
    BY <2>7, <2>8
<1> QED
  BY <1>5, <1>6, <1>8, <1>9 DEF src, W
\* A page's worth of a catalog search: it fails, goes on, or answers.
CatalogStepped(r, p, acc) ==
    LET returned == [r EXCEPT !.want = 0, !.acc = <<>>] IN
    IF p.error THEN [returned EXCEPT !.status = "failed"]
    ELSE IF Len(acc) >= r.want \/ p.next = End
    THEN Answered(returned, IF enforce_catalog_limits(acc) THEN Page(acc, p.next, FALSE) ELSE NoPage, 0)
    ELSE IF p.next = r.cursor THEN [returned EXCEPT !.status = "failed"]
    ELSE [r EXCEPT !.acc = acc, !.cursor = p.next]

\* What has to be known of a page for a catalog search to go on from it.
SearchAdds(S, r, p, acc) ==
    LET src == CatalogSource(S, r.match) IN
    /\ acc \in Seq(Rows) /\ Len(acc) <= r.want /\ p.next \in CursorType
    /\ p.next # End => p.next.at >= 0
    /\ Tracked(r) =>
         /\ p.next # End => /\ p.next.at <= Len(src)
                            /\ Carries(Wanted(r), -1, Top(src, 0, p.next.at), r.delivered \o acc)
         /\ p.next = End => Carries(Wanted(r), -1, Len(Bytes), r.delivered \o acc)

LEMMA SearchGoesOn ==
  ASSUME NEW S, S \subseteq Rows, NEW r, ReaderOK(S, r), r.status = "reading", r.kind = "catalog",
         r.want > 0, NEW p, NEW acc, ~p.error => SearchAdds(S, r, p, acc),
         NEW q, q = CatalogStepped(r, p, acc)
  PROVE  ReaderOK(S, q) /\ Fits(r, q) /\ q.token = 0
<1> DEFINE returned == [r EXCEPT !.want = 0, !.acc = <<>>]
           failed == [returned EXCEPT !.status = "failed"]
           src == CatalogSource(S, r.match)
           W == Wanted(r)
<1>1. r \in ReaderType /\ r.stable \subseteq S /\ r.token = 0
  BY DEF ReaderOK, UnderWay
<1>2. /\ r.delivered \in Seq(Rows) /\ r.want \in 0..MaxRows /\ MaxRows \in Nat \ {0}
      /\ W \subseteq Rows
  BY <1>1, PagesAssumption DEF ReaderType, Wanted
<1>3. /\ returned \in ReaderType /\ returned.delivered = r.delivered /\ returned.kind = "catalog"
      /\ returned.acc = <<>> /\ returned.want = 0 /\ returned.match = r.match
      /\ returned.stable = r.stable /\ returned.quiet = r.quiet /\ returned.token = 0
  <2>1. <<>> \in Seq(Rows) /\ 0 \in 0..MaxRows
    BY <1>2
  <2> QED
    BY ONLY <1>1, <2>1, r.kind = "catalog" DEF ReaderType
<1>4. failed \in ReaderType /\ failed.delivered = r.delivered /\ failed.token = 0 /\ failed.status = "failed"
  BY <1>3 DEF ReaderType, Statuses
<1>5. q = CatalogStepped(r, p, acc) =>
        q = IF p.error THEN failed
            ELSE IF Len(acc) >= r.want \/ p.next = End
            THEN Answered(returned, IF enforce_catalog_limits(acc) THEN Page(acc, p.next, FALSE)
                                    ELSE NoPage, 0)
            ELSE IF p.next = r.cursor THEN failed ELSE [r EXCEPT !.acc = acc, !.cursor = p.next]
  BY DEF CatalogStepped
<1> HIDE DEF returned, failed, src, W
<1>6. CASE q = failed
  BY <1>1, <1>4, <1>6, FitsSame DEF ReaderOK, Complete
<1>7. ASSUME ~p.error
      PROVE  /\ acc \in Seq(Rows) /\ Len(acc) <= r.want /\ p.next \in CursorType
             /\ p.next # End => p.next.at >= 0
             /\ Tracked(r) =>
                  /\ p.next # End => /\ p.next.at <= Len(src)
                                     /\ Carries(W, -1, Top(src, 0, p.next.at), r.delivered \o acc)
                  /\ p.next = End => Carries(W, -1, Len(Bytes), r.delivered \o acc)
  BY <1>7 DEF SearchAdds, src, W
<1>8. ASSUME ~p.error, q = Answered(returned, NoPage, 0) PROVE ReaderOK(S, q) /\ Fits(r, q) /\ q.token = 0
  <2>1. NoPage.error
    BY DEF NoPage
  <2>2. q \in ReaderType /\ q.status = "failed" /\ q.delivered = r.delivered /\ q.token = 0
    BY ONLY <1>3, <1>8, <2>1, AnsweredFails
  <2> QED
    BY <1>1, <2>2, FitsSame DEF ReaderOK, Complete
<1>9. ASSUME ~p.error, enforce_catalog_limits(acc), q = Answered(returned, Page(acc, p.next, FALSE), 0)
      PROVE  ReaderOK(S, q) /\ Fits(r, q) /\ q.token = 0
  <2> DEFINE a == Page(acc, p.next, FALSE)
  <2>1. /\ acc \in Seq(Rows) /\ p.next \in CursorType /\ (p.next # End => p.next.at >= 0)
    BY <1>7, <1>9
  <2>2. /\ a \in PageType /\ ~a.error /\ a.rows = acc /\ a.next = p.next /\ a.truncated = FALSE
    BY <2>1 DEF Page, PageType
  <2> HIDE DEF a
  <2>3. q = Answered(returned, a, 0) /\ 0 \in Nat
    BY <1>9 DEF a
  <2>4. /\ q \in ReaderType
        /\ q.kind = "catalog" /\ q.acc = <<>> /\ q.want = 0
        /\ q.match = r.match /\ q.stable = r.stable /\ q.quiet = r.quiet
        /\ q.cursor = p.next /\ q.token = 0 /\ q.delivered = r.delivered \o acc
        /\ q.status = IF p.next # End THEN "reading" ELSE "done"
    <3>1. /\ q \in ReaderType
          /\ q.kind = returned.kind /\ q.acc = returned.acc /\ q.want = returned.want
          /\ q.match = returned.match /\ q.stable = returned.stable /\ q.quiet = returned.quiet
          /\ q.cursor = a.next /\ q.token = 0 /\ q.delivered = returned.delivered \o a.rows
          /\ q.status = IF a.next # End THEN "reading"
                        ELSE IF a.truncated THEN "truncated" ELSE "done"
      <4>1. returned \in ReaderType
        BY <1>3
      <4> QED
        BY ONLY <2>2, <2>3, <4>1, AnsweredIs
    <3> QED
      BY ONLY <1>3, <2>2, <3>1
  <2>5. Fits(r, q)
    <3>1. Len(acc) <= MaxRows /\ Size(acc) <= MaxBytes
      BY <1>9 DEF enforce_catalog_limits
    <3>2. Size(acc) \in Nat
      BY <2>1, SizeNat
    <3>3. Size(acc) + (IF r.kind = "catalog" THEN 0 ELSE MetaBytes) <= MaxBytes
      BY <3>1, <3>2
    <3> QED
      BY <1>1, <2>1, <2>4, <3>1, <3>3, FitsMore
  <2>6. Wanted(q) = W /\ (Tracked(q) <=> Tracked(r)) /\ (Tracked(r) <=> r.quiet)
    BY <2>4 DEF Wanted, Tracked, W
  <2>7. q.delivered \in Seq(Rows)
    BY <2>4 DEF ReaderType
  <2>8. ASSUME q.status = "reading" PROVE UnderWay(S, q)
    <3>1. p.next # End
      BY <2>4, <2>8
    <3>2. ASSUME Tracked(q) PROVE Placed(S, q) /\ Carries(Wanted(q), -1, Mark(S, q), Got(q))
      <4>1. /\ p.next.at <= Len(src)
            /\ Carries(W, -1, Top(src, 0, p.next.at), r.delivered \o acc)
        BY <1>7, <1>9, <2>6, <3>1, <3>2
      <4>2. Placed(S, q) = (p.next.at <= Len(src)) /\ Mark(S, q) = Top(src, 0, p.next.at)
        BY <2>4 DEF Placed, Mark, src
      <4>3. Got(q) = r.delivered \o acc
        BY ONLY <2>4, <2>7 DEF Got
      <4> QED
        BY <2>6, <4>1, <4>2, <4>3
    <3> QED
      BY <1>1, <2>1, <2>4, <3>1, <3>2 DEF UnderWay
  <2>9. Complete(q)
    <3>1. SUFFICES ASSUME q.status = "done", q.quiet
                   PROVE  Wanted(q) \subseteq Elements(q.delivered) /\ Increasing(q.delivered)
      BY <2>4 DEF Complete
    <3>2. Carries(W, -1, Len(Bytes), r.delivered \o acc)
      BY <1>7, <1>9, <2>4, <2>6, <3>1
    <3> QED
      BY <1>2, <2>4, <2>6, <3>2, CarriesAll
  <2> QED
    BY <2>4, <2>5, <2>8, <2>9 DEF ReaderOK
<1>10. ASSUME ~p.error, ~(Len(acc) >= r.want), p.next # End, q = [r EXCEPT !.acc = acc, !.cursor = p.next]
       PROVE  ReaderOK(S, q) /\ Fits(r, q) /\ q.token = 0
  <2>1. /\ acc \in Seq(Rows) /\ p.next \in CursorType /\ p.next.at >= 0
    BY <1>7, <1>10
  <2>2. /\ q \in ReaderType
        /\ q.kind = "catalog" /\ q.acc = acc /\ q.want = r.want /\ q.status = "reading"
        /\ q.match = r.match /\ q.stable = r.stable /\ q.quiet = r.quiet
        /\ q.cursor = p.next /\ q.token = 0 /\ q.delivered = r.delivered
    BY <1>1, <1>10, <2>1 DEF ReaderType
  <2>3. Wanted(q) = W /\ (Tracked(q) <=> Tracked(r))
    BY <2>2 DEF Wanted, Tracked, W
  <2>4. ASSUME Tracked(q) PROVE Placed(S, q) /\ Carries(Wanted(q), -1, Mark(S, q), Got(q))
    <3>1. /\ p.next.at <= Len(src)
          /\ Carries(W, -1, Top(src, 0, p.next.at), r.delivered \o acc)
      BY <1>7, <1>10, <2>3, <2>4
    <3>2. Placed(S, q) = (p.next.at <= Len(src)) /\ Mark(S, q) = Top(src, 0, p.next.at)
      BY <2>2 DEF Placed, Mark, src
    <3>3. Got(q) = r.delivered \o acc
      BY <2>2 DEF Got
    <3> QED
      BY <2>3, <3>1, <3>2, <3>3
  <2>5. q.want # 0 /\ Len(q.acc) < q.want
    <3>1. Len(acc) \in Nat /\ r.want \in Nat
      BY ONLY <1>2, <2>1
    <3> QED
      BY ONLY <1>10, <2>2, <3>1, r.want > 0
  <2>6. UnderWay(S, q)
    BY <1>1, <2>1, <2>2, <2>4, <2>5 DEF UnderWay
  <2> QED
    BY <1>1, <2>2, <2>6, FitsSame DEF ReaderOK, Complete
<1> QED
  BY <1>5, <1>6, <1>8, <1>9, <1>10

LEMMA CatalogSearched ==
  ASSUME NEW S, S \subseteq Rows, NEW r, ReaderOK(S, r), r.status = "reading", r.kind = "catalog",
         r.want > 0, adapter \in AllNames,
         NEW p, p = search_catalog_page(S, r.match, r.cursor, r.want - Len(r.acc)),
         NEW acc, acc = r.acc \o Only(p.rows, Visible),
         NEW q, q = CatalogStepped(r, p, acc)
  PROVE  ReaderOK(S, q) /\ Fits(r, q) /\ q.token = 0
<1>1. ~p.error => SearchAdds(S, r, p, acc)
  BY CatalogReads DEF SearchAdds
<1> QED
  BY <1>1, SearchGoesOn

Started(S, kind, ids, m, sorted) ==
    [Idle EXCEPT !.kind = kind, !.status = "reading", !.ids = ids, !.match = m,
                 !.sorted = sorted, !.stable = S]

\* A traversal starts where nothing has been delivered and nothing has to be.
LEMMA Begins ==
  ASSUME NEW S, S \subseteq Rows, NEW kind \in {"read", "ids", "catalog"}, NEW ids \in Seq(Rows),
         NEW m \in SUBSET Rows, NEW sorted \in BOOLEAN,
         kind = "read" => adapter \in Pageable,
         kind = "ids" => /\ adapter \in ReadsByIds /\ (adapter = "hbase" => Len(ids) = 1)
                         /\ m = Elements(ids)
  PROVE  LET q == Started(S, kind, ids, m, sorted) IN
         ReaderOK(S, q) /\ q.token = 0 /\ q.delivered = <<>>
<1> DEFINE q == Started(S, kind, ids, m, sorted)
<1>1. Start \in CursorType /\ Start.at = 0 /\ Start.skip = 0
  BY RowsAre DEF Start, Cursor, CursorType
<1>2. <<>> \in Seq(Rows) /\ 0 \in 0..MaxRows /\ 0 \in Nat
  BY PagesAssumption
<1>3. /\ q \in ReaderType /\ q.kind = kind /\ q.status = "reading" /\ q.cursor = Start /\ q.token = 0
      /\ q.delivered = <<>> /\ q.acc = <<>> /\ q.want = 0 /\ q.ids = ids /\ q.match = m
      /\ q.stable = S
  BY <1>1, <1>2 DEF Started, Idle, ReaderType, Statuses
<1> HIDE DEF q
<1>4. ASSUME NEW h \in {-1, 0} PROVE Carries(Wanted(q), -1, h, Got(q))
  <2>1. Got(q) = <<>>
    BY <1>2, <1>3 DEF Got
  <2>2. \A x \in Wanted(q) : x > 0 /\ x \in Int
    <3>1. Wanted(q) \subseteq Rows
      BY <1>3 DEF Wanted
    <3> QED
      BY ONLY <3>1, RowsAre
  <2>3. \A x \in Wanted(q) : ~(x <= h)
    BY <2>2
  <2> QED
    BY <1>2, <2>1, <2>3 DEF Carries, Increasing
<1>5. Placed(S, q) /\ Mark(S, q) \in {-1, 0}
  <2>1. CASE kind = "catalog"
    <3>1. CatalogSource(S, m) \in Seq(Rows)
      BY InOrderFacts, MatchingIs DEF CatalogSource
    <3>2. 0 <= Len(CatalogSource(S, m))
      BY <3>1
    <3> QED
      BY <1>1, <1>3, <2>1, <3>2 DEF Placed, Mark, Top
  <2>2. CASE kind # "catalog"
    <3>1. From(S, 0) \in Seq(Rows) /\ InOrder(S) \in Seq(Rows)
      BY FromIs, InOrderFacts
    <3>2. 0 <= Len(From(S, 0)) /\ 0 <= Len(InOrder(S))
      BY <3>1
    <3>3. ReadPlaced(S, Start) /\ ReadMark(S, Start) \in {-1, 0}
      BY <1>1, <3>2 DEF ReadPlaced, ReadMark, Top
    <3> QED
      BY <1>3, <2>2, <3>3 DEF Placed, Mark
  <2> QED
    BY <2>1, <2>2
<1>6. UnderWay(S, q)
  <2>1. q.cursor.at >= 0
    BY <1>1, <1>3
  <2> QED
    BY <1>3, <1>4, <1>5, <2>1 DEF UnderWay
<1>7. ReaderOK(S, q) /\ q.token = 0 /\ q.delivered = <<>>
  BY <1>3, <1>6 DEF ReaderOK, Complete
<1> QED
  BY <1>7 DEF q

SearchOf(r, n) == [r EXCEPT !.want = n, !.acc = <<>>]

\* The limit of the answer of a catalog search that begins.
LEMMA SearchBegins ==
  ASSUME NEW S, NEW r, ReaderOK(S, r), r.status = "reading", r.kind = "catalog", r.want = 0,
         NEW n \in Nat \ {0}, n <= MaxRows,
         NEW q, q = SearchOf(r, n)
  PROVE  ReaderOK(S, q) /\ q.token = 0 /\ q.delivered = r.delivered
<1>1. r \in ReaderType /\ r.acc = <<>> /\ r.token = 0 /\ UnderWay(S, r)
  BY DEF ReaderOK, UnderWay
<1>2. <<>> \in Seq(Rows) /\ n \in 0..MaxRows
  BY PagesAssumption
<1>3. /\ q \in ReaderType /\ q.kind = "catalog" /\ q.status = "reading" /\ q.cursor = r.cursor
      /\ q.token = 0 /\ q.delivered = r.delivered /\ q.acc = <<>> /\ q.want = n
      /\ q.match = r.match /\ q.stable = r.stable /\ q.quiet = r.quiet
  BY <1>1, <1>2 DEF ReaderType, SearchOf
<1>4. /\ Tracked(q) = Tracked(r) /\ Placed(S, q) = Placed(S, r) /\ Mark(S, q) = Mark(S, r)
      /\ Got(q) = Got(r) /\ Wanted(q) = Wanted(r)
  BY <1>1, <1>3 DEF Tracked, Placed, Mark, Got, Wanted
<1>5. Len(q.acc) < q.want /\ q.want # 0
  BY <1>3
<1>6. UnderWay(S, q)
  BY <1>1, <1>3, <1>4, <1>5 DEF UnderWay
<1> QED
  BY <1>3, <1>6 DEF ReaderOK, Complete

WithChange(S, x) == IF x \in S THEN S \ {x} ELSE S \cup {x}

ReaderOfChange(r, x) ==
    IF r.status = "reading" THEN [r EXCEPT !.stable = @ \ {x}, !.quiet = FALSE] ELSE r

\* A row comes or goes while a reader reads: a cursor that names a row stays where it is.
LEMMA Disturbed ==
  ASSUME NEW S, S \subseteq Rows, NEW r, ReaderOK(S, r), NEW x \in Rows,
         NEW T, T = WithChange(S, x), NEW q, q = ReaderOfChange(r, x)
  PROVE  ReaderOK(T, q) /\ q.token = r.token /\ q.cursor = r.cursor /\ q.delivered = r.delivered
<1>1. CASE r.status # "reading"
  BY <1>1 DEF ReaderOK, ReaderOfChange, Complete
<1>2. CASE r.status = "reading"
  <2>1. r \in ReaderType /\ UnderWay(S, r)
    BY <1>2 DEF ReaderOK
  <2>2. /\ q \in ReaderType /\ q.kind = r.kind /\ q.status = "reading" /\ q.cursor = r.cursor
        /\ q.token = r.token /\ q.delivered = r.delivered /\ q.acc = r.acc /\ q.want = r.want
        /\ q.match = r.match /\ q.ids = r.ids /\ q.stable = r.stable \ {x} /\ q.quiet = FALSE
    BY <1>2, <2>1 DEF ReaderType, ReaderOfChange
  <2>3. r.stable \subseteq S
    BY <2>1 DEF UnderWay
  <2>4. q.stable \subseteq T
    BY <2>2, <2>3 DEF WithChange
  <2>5. ASSUME Tracked(q) PROVE Placed(T, q) /\ Carries(Wanted(q), -1, Mark(T, q), Got(q))
    <3>1. r.kind = "read" /\ adapter \in Keyset
      BY <2>2, <2>5 DEF Tracked
    <3>2. Tracked(r)
      BY <3>1 DEF Tracked
    <3>3. Carries(Wanted(r), -1, Mark(S, r), Got(r))
      BY <2>1, <3>2 DEF UnderWay
    <3>4. adapter # "cql"
      BY <3>1 DEF Keyset
    <3>5. Placed(T, q)
      BY <2>2, <3>1, <3>4 DEF Placed, ReadPlaced
    <3>6. Mark(T, q) = Mark(S, r)
      BY <2>2, <3>1, <3>4 DEF Mark, ReadMark
    <3>7. Wanted(q) \subseteq Wanted(r)
      BY <2>2, <3>1 DEF Wanted
    <3>8. Got(q) = Got(r)
      BY <2>2 DEF Got
    <3> QED
      BY <3>3, <3>5, <3>6, <3>7, <3>8, CarriesFewer
  <2>6. UnderWay(T, q)
    BY <2>1, <2>2, <2>4, <2>5 DEF UnderWay
  <2> QED
    BY <2>2, <2>6 DEF ReaderOK, Complete
<1> QED
  BY <1>1, <1>2
-----------------------------------------------------------------------------
(***************************************************************************)
(* The registry of masked cursors.                                         *)
(***************************************************************************)
LEMMA HandlesAre ==
  ASSUME PagingInv
  PROVE  /\ DOMAIN handles = 1..Len(handles) /\ Len(handles) \in Nat
         /\ \A i \in 1..Len(handles) : handles[i] \in HandleType
         /\ \A s \in Sessions : readers[s] \in ReaderType /\ readers[s].token \in Nat
BY DEF PagingInv, ReaderOK, ReaderType

\* There is always a token that nobody has.
LEMMA FreshIs ==
  ASSUME PagingInv, NEW fresh, fresh = FreshToken(Tokens \cup {readers[t].token : t \in Sessions})
  PROVE  /\ fresh \in Nat \ {0} /\ \A t \in Sessions : readers[t].token # fresh
         /\ \A i \in 1..Len(handles) : handles[i].token # fresh
<1> DEFINE held == {readers[t].token : t \in Sessions}
           inUse == Tokens \cup held
<1>1. IsFiniteSet(Tokens)
  <2> DEFINE f == [i \in 1..Len(handles) |-> handles[i].token]
  <2>1. IsFiniteSet(1..Len(handles))
    BY HandlesAre, FS_Interval
  <2>2. f \in Surjection(1..Len(handles), Tokens)
    BY HandlesAre DEF Surjection, Tokens
  <2> QED
    BY <2>1, <2>2, FS_Surjection
<1>2. IsFiniteSet(held)
  <2> DEFINE f == [t \in Sessions |-> readers[t].token]
  <2>1. f \in Surjection(Sessions, held)
    BY DEF Surjection
  <2> QED
    BY <2>1, FS_Surjection, PagingAssumption
<1>3. IsFiniteSet(inUse)
  BY <1>1, <1>2, FS_Union
<1>4. fresh = CHOOSE t \in 1..(Cardinality(inUse) + 1) : t \notin inUse
  BY DEF FreshToken
<1>5. \A i \in 1..Len(handles) : handles[i].token \in inUse
  BY HandlesAre DEF Tokens
<1>6. \A t \in Sessions : readers[t].token \in inUse
  OBVIOUS
<1> HIDE DEF held, inUse
<1>7. Cardinality(inUse) \in Nat
  BY <1>3, FS_CardinalityType
<1> DEFINE n == Cardinality(inUse)
<1>8. \E t \in 1..(n + 1) : t \notin inUse
  <2> SUFFICES ASSUME \A t \in 1..(n + 1) : t \in inUse PROVE FALSE
    OBVIOUS
  <2>1. 1..(n + 1) \in SUBSET inUse
    OBVIOUS
  <2>2. Cardinality(1..(n + 1)) <= n
    BY <1>3, <2>1, FS_Subset
  <2>3. Cardinality(1..(n + 1)) = n + 1
    <3>1. 1 \in Int /\ n + 1 \in Int /\ ~(1 > n + 1)
      BY <1>7
    <3> HIDE DEF n
    <3>2. Cardinality(1..(n + 1)) = (n + 1) - 1 + 1
      BY <3>1, FS_Interval
    <3> QED
      BY <1>7, <3>2 DEF n
  <2> QED
    BY <1>7, <2>2, <2>3
<1>9. fresh \in 1..(n + 1) /\ fresh \notin inUse
  BY <1>4, <1>8
<1>10. fresh \in Nat \ {0}
  BY ONLY <1>7, <1>9
<1> QED
  BY ONLY <1>5, <1>6, <1>9, <1>10

\* A token resolves to the cursor of the session that presents it.
LEMMA Resolved ==
  ASSUME PagingInv, NEW s \in Sessions, NEW token \in Presented(s),
         NEW at \in IF token = 0 THEN {readers[s].cursor} ELSE {h.cursor : h \in resolve(s, token)}
  PROVE  at = readers[s].cursor
<1>1. CASE token = 0
  BY <1>1
<1>2. CASE token # 0
  <2>1. PICK h \in resolve(s, token) : at = h.cursor
    BY <1>2
  <2>2. PICK i \in 1..Len(handles) : h = handles[i] /\ h.token = token /\ h.session = s
    BY <2>1, HandlesAre DEF resolve, Elements
  <2>3. PICK t \in Sessions : token = readers[t].token
    BY <1>2 DEF Presented
  <2>4. h.session = t /\ h.cursor = readers[t].cursor
    BY <2>2, <2>3 DEF PagingInv, TokensOK
  <2> QED
    BY <2>1, <2>2, <2>4
<1> QED
  BY <1>1, <1>2

\* What Insert leaves and adds.
LEMMA Inserted ==
  ASSUME PagingInv, NEW s \in Sessions, NEW token \in Nat \ {0}, NEW c \in CursorType,
         NEW new, new = Insert(s, token, c)
  PROVE  /\ new \in Seq(HandleType) /\ Len(new) <= MASKED_CURSOR_CAPACITY /\ Len(new) # 0
         /\ new[Len(new)] = [session |-> s, token |-> token, cursor |-> c]
         /\ \A i \in 1..Len(new) : i = Len(new) \/ \E j \in 1..Len(handles) : new[i] = handles[j]
<1> DEFINE full == Len(handles) >= MASKED_CURSOR_CAPACITY
           kept == IF full THEN Tail(handles) ELSE handles
           h == [session |-> s, token |-> token, cursor |-> c]
           cap == MASKED_CURSOR_CAPACITY
<1>1. handles \in Seq(HandleType) /\ Len(handles) <= cap /\ cap \in Nat \ {0}
  BY PagingAssumption DEF PagingInv
<1>2. h \in HandleType
  BY DEF HandleType
<1>3. new = Append(kept, h)
  BY DEF Insert
<1>4. /\ kept \in Seq(HandleType) /\ Len(kept) < cap
      /\ \A i \in 1..Len(kept) : \E j \in 1..Len(handles) : kept[i] = handles[j]
  <2>1. CASE full
    <3>1. handles # <<>> /\ kept = Tail(handles)
      BY <1>1, <2>1
    <3>2. /\ kept \in Seq(HandleType) /\ Len(kept) = Len(handles) - 1
          /\ \A i \in 1..Len(kept) : kept[i] = handles[i + 1]
      BY <1>1, <3>1, HeadTailProperties
    <3> HIDE DEF kept
    <3>3. \A i \in 1..Len(kept) : i + 1 \in 1..Len(handles)
      BY <1>1, <3>2
    <3> QED
      BY <1>1, <3>2, <3>3
  <2>2. CASE ~full
    BY <1>1, <2>2
  <2> QED
    BY <2>1, <2>2
<1> HIDE DEF kept, h
<1>5. /\ new \in Seq(HandleType) /\ Len(new) = Len(kept) + 1 /\ new[Len(new)] = h
      /\ \A i \in 1..Len(kept) : new[i] = kept[i]
  BY <1>2, <1>3, <1>4, AppendProperties
<1>6. Len(kept) \in Nat
  BY <1>4
<1>7. Len(new) <= MASKED_CURSOR_CAPACITY /\ Len(new) # 0
  BY <1>1, <1>4, <1>5, <1>6
<1>8. ASSUME NEW i \in 1..Len(new), i # Len(new) PROVE \E j \in 1..Len(handles) : new[i] = handles[j]
  <2>1. i \in 1..Len(kept)
    BY <1>5, <1>6, <1>8
  <2> QED
    BY <1>4, <1>5, <2>1
<1> QED
  BY <1>5, <1>7, <1>8 DEF h

-----------------------------------------------------------------------------
(***************************************************************************)
(* The steps of the clients and of their surroundings.                     *)
(***************************************************************************)
AllFit == \A s \in Sessions : Fits(readers[s], readers'[s])

\* The adapter of a link stays the same.
LEMMA SameAdapter ==
  ASSUME UNCHANGED adapter, NEW S, NEW r, ReaderOK(S, r)
  PROVE  ReaderOK(S, r)'
BY DEF ReaderOK, UnderWay, Complete, Tracked, Mark, Placed, ReadMark, ReadPlaced, CatalogSource

\* One reader goes on, and the registry does not change or has a new token for it.
LEMMA OneReads ==
  ASSUME PagingInv, NEW s \in Sessions, NEW q, ReaderOK(rows, q), Fits(readers[s], q),
         readers' = [readers EXCEPT ![s] = q],
         UNCHANGED <<adapter, rows, masked, handles, changes, losses>>,
         q.token = 0 \/ (q.token = readers[s].token /\ q.cursor = readers[s].cursor)
  PROVE  PagingInv' /\ AllFit
<1>1. \A t \in Sessions : readers'[t] = IF t = s THEN q ELSE readers[t]
  BY DEF PagingInv
<1>2. \A t \in Sessions : ReaderOK(rows, readers'[t])
  BY <1>1 DEF PagingInv
<1>3. \A t \in Sessions : ReaderOK(rows, readers[t])'
  BY <1>2, SameAdapter
<1>4. \A t \in Sessions : Fits(readers[t], readers'[t])
  BY <1>1, HandlesAre, FitsSame
<1>5. TokensOK'
  BY <1>1, HandlesAre DEF TokensOK, PagingInv, HandleType
<1> QED
  BY <1>3, <1>4, <1>5 DEF PagingInv, AllFit
\* protect_masked_cursor: a fresh token for the cursor handed out.
LEMMA TokenGiven ==
  ASSUME PagingInv, NEW s \in Sessions, NEW q, ReaderOK(rows, q), Fits(readers[s], q),
         NEW fresh, fresh = FreshToken(Tokens \cup {readers[t].token : t \in Sessions}),
         readers' = [readers EXCEPT ![s] = q], q.token = fresh,
         handles' = Insert(s, fresh, q.cursor),
         UNCHANGED <<adapter, rows, masked, changes, losses>>
  PROVE  PagingInv' /\ AllFit
<1>1. \A t \in Sessions : readers'[t] = IF t = s THEN q ELSE readers[t]
  BY DEF PagingInv
<1>2. \A t \in Sessions : ReaderOK(rows, readers'[t])
  BY <1>1 DEF PagingInv
<1>3. \A t \in Sessions : ReaderOK(rows, readers[t])'
  BY <1>2, SameAdapter
<1>4. \A t \in Sessions : Fits(readers[t], readers'[t])
  BY <1>1, HandlesAre, FitsSame
<1>5. /\ fresh \in Nat \ {0} /\ \A t \in Sessions : readers[t].token # fresh
      /\ \A i \in 1..Len(handles) : handles[i].token # fresh
  BY FreshIs
<1>6. q.cursor \in CursorType
  BY DEF ReaderOK, ReaderType
<1>7. /\ handles' \in Seq(HandleType) /\ Len(handles') <= MASKED_CURSOR_CAPACITY /\ Len(handles') # 0
      /\ handles'[Len(handles')] = [session |-> s, token |-> fresh, cursor |-> q.cursor]
      /\ \A i \in 1..Len(handles') :
           i = Len(handles') \/ \E j \in 1..Len(handles) : handles'[i] = handles[j]
  BY ONLY PagingInv, s \in Sessions, <1>5, <1>6, handles' = Insert(s, fresh, q.cursor), Inserted
<1>8. ASSUME NEW i \in 1..Len(handles'), NEW t \in Sessions, handles'[i].token = readers'[t].token
      PROVE  handles'[i].session = t /\ handles'[i].cursor = readers'[t].cursor
  <2>1. CASE i = Len(handles')
    <3>1. handles'[i].token = fresh /\ handles'[i].session = s /\ handles'[i].cursor = q.cursor
      BY ONLY <1>7, <2>1
    <3>2. t = s
      BY <1>1, <1>5, <1>8, <3>1
    <3> QED
      BY <1>1, <3>1, <3>2
  <2>2. CASE i # Len(handles')
    <3>1. PICK j \in 1..Len(handles) : handles'[i] = handles[j]
      BY <1>7, <2>2
    <3>2. t # s
      BY <1>1, <1>5, <1>8, <3>1
    <3> QED
      BY <1>1, <1>8, <3>1, <3>2 DEF PagingInv, TokensOK
  <2> QED
    BY <2>1, <2>2
<1>9. TokensOK'
  BY <1>8 DEF TokensOK
<1> QED
  BY <1>3, <1>4, <1>7, <1>9 DEF PagingInv, AllFit

LEMMA TraverseStep ==
  ASSUME PagingInv, NEW s \in Sessions, NEW kind \in {"read", "ids", "catalog"},
         NEW ids \in Seq(Rows), NEW m \in SUBSET Rows, NEW sorted \in BOOLEAN,
         kind = "read" => adapter \in Pageable,
         kind = "ids" => /\ adapter \in ReadsByIds /\ (adapter = "hbase" => Len(ids) = 1)
                         /\ m = Elements(ids),
         Traverse(s, kind, ids, m, sorted), UNCHANGED adapter
  PROVE  PagingInv' /\ AllFit
<1> DEFINE q == Started(rows, kind, ids, m, sorted)
<1>1. /\ readers[s] = Idle /\ readers' = [readers EXCEPT ![s] = q]
      /\ UNCHANGED <<rows, masked, handles, changes, losses>>
  BY DEF Traverse, Started
<1>2. rows \subseteq Rows
  BY DEF PagingInv
<1>3. ReaderOK(rows, q) /\ q.token = 0 /\ q.delivered = <<>>
  BY <1>2, Begins, Zenon
<1> HIDE DEF q
<1>4. Fits(readers[s], q)
  <2>1. readers[s].delivered = <<>>
    BY <1>1 DEF Idle
  <2> QED
    BY <1>3, <2>1, HandlesAre, FitsSame
<1> QED
  BY <1>1, <1>3, <1>4, OneReads

LEMMA StartsStep ==
  ASSUME PagingInv, NEW s \in Sessions, UNCHANGED adapter,
         \/ \E b \in BOOLEAN : StartRead(s, b)
         \/ \E ids \in IdLists : StartReadByIds(s, ids)
         \/ \E m \in Patterns : StartCatalog(s, m)
  PROVE  PagingInv' /\ AllFit
<1>0. <<>> \in Seq(Rows) /\ Rows \in SUBSET Rows
  OBVIOUS
<1>1. ASSUME NEW b \in BOOLEAN, StartRead(s, b) PROVE PagingInv' /\ AllFit
  <2>1. adapter \in Pageable /\ Traverse(s, "read", <<>>, Rows, b)
    BY <1>1 DEF StartRead, Rows
  <2> QED
    BY <1>0, <2>1, TraverseStep
<1>2. ASSUME NEW ids \in IdLists, StartReadByIds(s, ids) PROVE PagingInv' /\ AllFit
  <2>1. /\ adapter \in ReadsByIds /\ (adapter = "hbase" => Len(ids) = 1)
        /\ Traverse(s, "ids", ids, Elements(ids), FALSE)
    BY <1>2 DEF StartReadByIds
  <2>2. ids \in Seq(Rows)
    BY PagingAssumption DEF Rows
  <2>3. Elements(ids) \in SUBSET Rows
    BY <2>2 DEF Elements
  <2> QED
    BY <2>1, <2>2, <2>3, TraverseStep
<1>3. ASSUME NEW m \in Patterns, StartCatalog(s, m) PROVE PagingInv' /\ AllFit
  <2>1. Traverse(s, "catalog", <<>>, m, FALSE) /\ m \in SUBSET Rows
    BY <1>3, PagingAssumption DEF StartCatalog, Rows
  <2> QED
    BY <1>0, <2>1, TraverseStep
<1> QED
  BY <1>1, <1>2, <1>3

LEMMA ReadPageStep ==
  ASSUME PagingInv, NEW s \in Sessions, NEW n \in Limits, NEW token \in Presented(s),
         ReadPage(s, n, token), UNCHANGED adapter
  PROVE  PagingInv' /\ AllFit
<1> DEFINE r == readers[s]
           fresh == FreshToken(Tokens \cup {readers[t].token : t \in Sessions})
           limit == effective_row_limit(n)
<1>1. /\ r.status = "reading" /\ r.kind = "read"
      /\ UNCHANGED <<rows, masked, changes, losses>>
  BY DEF ReadPage, Reading
<1>2. rows \subseteq Rows /\ ReaderOK(rows, r) /\ r \in ReaderType
  BY DEF PagingInv, ReaderOK
<1>3. limit \in Nat \ {0} /\ limit <= MaxRows
  BY LimitIs
<1>4. CASE readers' = [readers EXCEPT ![s].status = "failed"] /\ UNCHANGED handles
  <2> DEFINE q == [r EXCEPT !.status = "failed"]
  <2>1. readers' = [readers EXCEPT ![s] = q]
    BY <1>4
  <2>2. /\ q \in ReaderType /\ q.status = "failed" /\ q.delivered = r.delivered
        /\ q.token = r.token /\ q.cursor = r.cursor
    BY <1>2 DEF ReaderType, Statuses
  <2> HIDE DEF q
  <2>3. ReaderOK(rows, q)
    BY <2>2 DEF ReaderOK, Complete
  <2>4. Fits(r, q)
    BY <1>2, <2>2, FitsSame
  <2> QED
    BY <1>1, <1>4, <2>1, <2>2, <2>3, <2>4, OneReads
<1>5. CASE \E at \in IF token = 0 THEN {r.cursor} ELSE {h.cursor : h \in resolve(s, token)} :
           \E answer \in {ReadPageOf(rows, at, limit, r.sorted)} :
           \E finished \in {Finished(answer)} :
           \E page \in {enforce_result_limits(finished)} :
             LET hide == masked /\ ~page.error /\ page.next # End IN
             /\ readers' = [readers EXCEPT ![s] = Answered(r, page, IF hide THEN fresh ELSE 0)]
             /\ handles' = IF hide THEN Insert(s, fresh, page.next) ELSE handles
  <2>1. PICK at \in IF token = 0 THEN {r.cursor} ELSE {h.cursor : h \in resolve(s, token)} :
           \E answer \in {ReadPageOf(rows, at, limit, r.sorted)} :
           \E finished \in {Finished(answer)} :
           \E page \in {enforce_result_limits(finished)} :
             LET hide == masked /\ ~page.error /\ page.next # End IN
             /\ readers' = [readers EXCEPT ![s] = Answered(r, page, IF hide THEN fresh ELSE 0)]
             /\ handles' = IF hide THEN Insert(s, fresh, page.next) ELSE handles
    BY <1>5
  <2>2. at = r.cursor
    BY Resolved
  <2> DEFINE p == ReadPageOf(rows, r.cursor, limit, r.sorted)
             a == enforce_result_limits(Finished(p))
             hide == masked /\ ~a.error /\ a.next # End
             new == IF hide THEN fresh ELSE 0
             q == Answered(r, a, new)
  <2>3. /\ readers' = [readers EXCEPT ![s] = q]
        /\ handles' = IF hide THEN Insert(s, fresh, a.next) ELSE handles
    BY <2>1, <2>2
  <2>4. fresh \in Nat
    BY FreshIs
  <2> HIDE DEF fresh, limit
  <2>5. new \in Nat /\ (new = 0 \/ masked)
    BY <2>4
  <2> HIDE DEF a, p, new
  <2>6. ReaderOK(rows, q) /\ Fits(r, q)
    BY <1>1, <1>2, <1>3, <2>5, ReadAnswered DEF a, p
  <2>7. CASE hide
    <3>1. q.token = fresh /\ q.cursor = a.next
      BY <2>7 DEF Answered, new, ReaderType
    <3> HIDE DEF q
    <3> QED
      BY <1>1, <2>3, <2>6, <2>7, <3>1, TokenGiven DEF fresh
  <2>8. CASE ~hide
    <3>1. q.token = 0 \/ (q.token = r.token /\ q.cursor = r.cursor)
      BY <1>2, <2>8 DEF Answered, new, ReaderType
    <3> HIDE DEF q
    <3> QED
      BY <1>1, <2>3, <2>6, <2>8, <3>1, OneReads
  <2> QED
    BY <2>7, <2>8
<1> QED
  BY <1>4, <1>5 DEF ReadPage
LEMMA ReadByIdsStep ==
  ASSUME PagingInv, NEW s \in Sessions, NEW n \in Limits, ReadByIds(s, n), UNCHANGED adapter
  PROVE  PagingInv' /\ AllFit
<1> DEFINE r == readers[s]
           limit == effective_row_limit(n)
           p == ReadIdsOf(rows, r.ids, limit)
           a == enforce_result_limits(Finished(p))
           q == Answered(r, a, 0)
<1>1. /\ r.status = "reading" /\ r.kind = "ids" /\ readers' = [readers EXCEPT ![s] = q]
      /\ UNCHANGED <<rows, masked, handles, changes, losses>>
  BY DEF ReadByIds, Reading
<1>2. rows \subseteq Rows /\ ReaderOK(rows, r) /\ r \in ReaderType
  BY DEF PagingInv, ReaderOK
<1>3. limit \in Nat \ {0} /\ limit <= MaxRows
  BY LimitIs
<1> HIDE DEF limit
<1>4. ReaderOK(rows, q) /\ Fits(r, q)
  BY <1>1, <1>2, <1>3, IdsAnswered
<1>5. q.token = 0 \/ (q.token = r.token /\ q.cursor = r.cursor)
  <2> HIDE DEF a
  <2> QED
    BY <1>2 DEF Answered, ReaderType
<1> HIDE DEF q
<1> QED
  BY <1>1, <1>4, <1>5, OneReads

LEMMA SearchCatalogStep ==
  ASSUME PagingInv, NEW s \in Sessions, NEW n \in Limits, SearchCatalog(s, n), UNCHANGED adapter
  PROVE  PagingInv' /\ AllFit
<1> DEFINE r == readers[s]
           limit == effective_row_limit(n)
           q == SearchOf(r, limit)
<1>1. /\ r.status = "reading" /\ r.kind = "catalog" /\ r.want = 0
      /\ readers' = [readers EXCEPT ![s] = q]
      /\ UNCHANGED <<rows, masked, handles, changes, losses>>
  BY DEF SearchCatalog, Reading, SearchOf
<1>2. ReaderOK(rows, r) /\ r \in ReaderType
  BY DEF PagingInv, ReaderOK
<1>3. limit \in Nat \ {0} /\ limit <= MaxRows
  BY LimitIs
<1> HIDE DEF limit
<1>4. ReaderOK(rows, q) /\ q.token = 0 /\ q.delivered = r.delivered
  <2>1. q = SearchOf(r, limit)
    OBVIOUS
  <2> HIDE DEF q, r
  <2> QED
    BY ONLY <1>1, <1>2, <1>3, <2>1, SearchBegins
<1> HIDE DEF q
<1>5. Fits(r, q)
  BY <1>2, <1>4, FitsSame
<1> QED
  BY <1>1, <1>4, <1>5, OneReads

LEMMA CatalogStepStep ==
  ASSUME PagingInv, NEW s \in Sessions, CatalogStep(s), UNCHANGED adapter
  PROVE  PagingInv' /\ AllFit
<1> DEFINE r == readers[s]
           p == search_catalog_page(rows, r.match, r.cursor, r.want - Len(r.acc))
           acc == r.acc \o Only(p.rows, Visible)
           q == CatalogStepped(r, p, acc)
<1>1. /\ r.status = "reading" /\ r.kind = "catalog" /\ r.want > 0
      /\ readers' = [readers EXCEPT ![s] = q]
      /\ UNCHANGED <<rows, masked, handles, changes, losses>>
  <2>1. /\ r.status = "reading" /\ r.kind = "catalog" /\ r.want > 0
        /\ UNCHANGED <<rows, masked, handles, changes, losses>>
    BY DEF CatalogStep, Reading
  <2>2. \E page, found :
          /\ page = p /\ found = r.acc \o Only(page.rows, Visible)
          /\ readers' = [readers EXCEPT ![s] = CatalogStepped(r, page, found)]
    BY Zenon DEF CatalogStep, CatalogStepped
  <2> QED
    BY <2>1, <2>2, Zenon
<1>2. rows \subseteq Rows /\ ReaderOK(rows, r) /\ adapter \in AllNames
  BY DEF PagingInv
<1>3. ReaderOK(rows, q) /\ Fits(r, q) /\ q.token = 0
  <2>1. /\ p = search_catalog_page(rows, r.match, r.cursor, r.want - Len(r.acc))
        /\ acc = r.acc \o Only(p.rows, Visible) /\ q = CatalogStepped(r, p, acc)
    OBVIOUS
  <2> HIDE DEF p, acc, q, r
  <2> QED
    BY ONLY <1>1, <1>2, <2>1, CatalogSearched
<1> HIDE DEF q
<1> QED
  BY <1>1, <1>3, OneReads

LEMMA ChangeRowStep ==
  ASSUME PagingInv, NEW x \in Rows, ChangeRow(x), UNCHANGED adapter
  PROVE  PagingInv' /\ AllFit
<1>1. /\ changes < MaxChanges /\ changes' = changes + 1
      /\ rows' = WithChange(rows, x)
      /\ readers' = [s \in Sessions |-> ReaderOfChange(readers[s], x)]
      /\ UNCHANGED <<masked, handles, losses>>
  BY DEF ChangeRow, WithChange, ReaderOfChange
<1>2. rows \subseteq Rows /\ rows' \subseteq Rows
  BY <1>1 DEF PagingInv, WithChange
<1>3. ASSUME NEW s \in Sessions
      PROVE  /\ ReaderOK(rows', readers'[s]) /\ readers'[s].token = readers[s].token
             /\ readers'[s].cursor = readers[s].cursor
             /\ readers'[s].delivered = readers[s].delivered
  <2>1. readers'[s] = ReaderOfChange(readers[s], x)
    BY <1>1
  <2>2. ReaderOK(rows, readers[s])
    BY DEF PagingInv
  <2> QED
    BY ONLY <1>1, <1>2, <2>1, <2>2, x \in Rows, Disturbed
<1>4. \A s \in Sessions : ReaderOK(rows, readers[s])'
  BY <1>3, SameAdapter
<1>5. \A s \in Sessions : Fits(readers[s], readers'[s])
  BY <1>3, HandlesAre, FitsSame
<1>6. TokensOK'
  <2>1. handles' = handles /\ TokensOK
    BY <1>1 DEF PagingInv
  <2> QED
    BY ONLY <1>3, <2>1 DEF TokensOK
<1>7. changes' \in 0..MaxChanges
  <2>1. changes' = changes + 1 /\ changes < MaxChanges
    BY <1>1
  <2>2. changes \in 0..MaxChanges /\ MaxChanges \in Nat
    BY PagingAssumption DEF PagingInv
  <2> QED
    BY ONLY <2>1, <2>2
<1> QED
  BY <1>1, <1>2, <1>4, <1>5, <1>6, <1>7 DEF PagingInv, AllFit

LEMMA LoseTokensStep ==
  ASSUME PagingInv, LoseTokens, UNCHANGED adapter
  PROVE  PagingInv' /\ AllFit
<1>1. /\ handles # <<>> /\ losses < MaxLosses /\ losses' = losses + 1
      /\ handles' = Tail(handles) \/ handles' = <<>>
      /\ UNCHANGED <<rows, masked, readers, changes>>
  BY DEF LoseTokens
<1>2. handles \in Seq(HandleType) /\ Len(handles) <= MASKED_CURSOR_CAPACITY
  BY DEF PagingInv
<1>3. /\ handles' \in Seq(HandleType) /\ Len(handles') <= MASKED_CURSOR_CAPACITY
      /\ \A i \in 1..Len(handles') : \E j \in 1..Len(handles) : handles'[i] = handles[j]
  <2>1. CASE handles' = <<>>
    BY <2>1, PagingAssumption
  <2>2. CASE handles' = Tail(handles)
    <3>1. /\ handles' \in Seq(HandleType) /\ Len(handles') = Len(handles) - 1
          /\ \A i \in 1..Len(handles') : handles'[i] = handles[i + 1]
      BY ONLY <1>1, <1>2, <2>2, HeadTailProperties
    <3>2. Len(handles) \in Nat /\ MASKED_CURSOR_CAPACITY \in Nat
      BY <1>2, PagingAssumption
    <3>3. \A i \in 1..Len(handles') : i + 1 \in 1..Len(handles)
      BY ONLY <3>1, <3>2
    <3>4. Len(handles') <= MASKED_CURSOR_CAPACITY
      BY ONLY <1>2, <3>1, <3>2
    <3> QED
      BY ONLY <3>1, <3>3, <3>4
  <2> QED
    BY <1>1, <2>1, <2>2
<1>4. TokensOK'
  BY <1>1, <1>3 DEF TokensOK, PagingInv
<1>5. \A s \in Sessions : ReaderOK(rows, readers[s])'
  BY <1>1, SameAdapter DEF PagingInv
<1>6. \A s \in Sessions : Fits(readers[s], readers'[s])
  BY <1>1, HandlesAre, FitsSame
<1>7. losses' \in 0..MaxLosses
  BY <1>1, PagingAssumption DEF PagingInv
<1> QED
  BY <1>1, <1>3, <1>4, <1>5, <1>6, <1>7 DEF PagingInv, AllFit

LEMMA PagingNextStep ==
  ASSUME PagingInv, PagingNext, UNCHANGED adapter
  PROVE  PagingInv' /\ AllFit
<1>1. ASSUME NEW s \in Sessions,
             \/ \E b \in BOOLEAN : StartRead(s, b)
             \/ \E ids \in IdLists : StartReadByIds(s, ids)
             \/ \E m \in Patterns : StartCatalog(s, m)
      PROVE  PagingInv' /\ AllFit
  BY <1>1, StartsStep
<1>2. ASSUME NEW s \in Sessions, NEW n \in Limits, NEW t \in Presented(s), ReadPage(s, n, t)
      PROVE  PagingInv' /\ AllFit
  BY <1>2, ReadPageStep
<1>3. ASSUME NEW s \in Sessions, NEW n \in Limits, ReadByIds(s, n) \/ SearchCatalog(s, n)
      PROVE  PagingInv' /\ AllFit
  BY <1>3, ReadByIdsStep, SearchCatalogStep
<1>4. ASSUME NEW s \in Sessions, CatalogStep(s) PROVE PagingInv' /\ AllFit
  BY <1>4, CatalogStepStep
<1>5. ASSUME NEW x \in DOMAIN Bytes, ChangeRow(x) PROVE PagingInv' /\ AllFit
  BY <1>5, ChangeRowStep DEF Rows
<1>6. CASE LoseTokens
  BY <1>6, LoseTokensStep
<1> QED
  BY <1>1, <1>2, <1>3, <1>4, <1>5, <1>6, Zenon DEF PagingNext

\* Before the link is used nobody reads.
SessionInv == PagingInv /\ (purpose = "none" => \A s \in Sessions : readers[s].status = "idle")

LEMMA PagingSame ==
  ASSUME PagingInv, UNCHANGED pagingVars, UNCHANGED adapter
  PROVE  PagingInv' /\ AllFit
<1>1. UNCHANGED <<rows, masked, readers, handles, changes, losses>>
  BY DEF pagingVars
<1>2. \A s \in Sessions : ReaderOK(rows, readers[s])'
  BY <1>1, SameAdapter DEF PagingInv
<1>3. \A s \in Sessions : Fits(readers[s], readers'[s])
  BY <1>1, HandlesAre, FitsSame
<1>4. TokensOK'
  BY <1>1 DEF PagingInv, TokensOK
<1> QED
  BY <1>1, <1>2, <1>3, <1>4 DEF PagingInv, AllFit

\* The table that is found when the link is used for the first time.
LEMMA FindRowsStep ==
  ASSUME SessionInv, purpose = "none", FindRows, UNCHANGED adapter
  PROVE  PagingInv' /\ AllFit
<1>1. rows' \in InitialRows /\ masked' \in BOOLEAN /\ UNCHANGED <<readers, handles, changes, losses>>
  BY DEF FindRows
<1>2. rows' \subseteq Rows
  BY <1>1, PagingAssumption DEF Rows
<1>3. PagingInv /\ \A s \in Sessions : readers[s].status = "idle"
  BY DEF SessionInv
<1>4. \A s \in Sessions : ReaderOK(rows', readers'[s])
  <2>1. \A s \in Sessions : ReaderOK(rows, readers[s])
    BY <1>3 DEF PagingInv
  <2> QED
    BY <1>1, <1>3, <2>1 DEF ReaderOK
<1>5. \A s \in Sessions : ReaderOK(rows, readers[s])'
  BY <1>4, SameAdapter
<1>6. \A s \in Sessions : Fits(readers[s], readers'[s])
  BY <1>1, <1>3, HandlesAre, FitsSame
<1>7. TokensOK'
  BY <1>1, <1>3 DEF PagingInv, TokensOK
<1> QED
  BY <1>1, <1>2, <1>3, <1>5, <1>6, <1>7 DEF PagingInv, AllFit

LEMMA SessionStep == SessionInv /\ [Next]_vars => SessionInv' /\ AllFit
<1> SUFFICES ASSUME SessionInv, [Next]_vars PROVE SessionInv' /\ AllFit
  OBVIOUS
<1>0. PagingInv
  BY DEF SessionInv
<1>1. CASE SetupNext /\ UNCHANGED <<pagingVars, inspectVars, purpose>>
  <2>1. UNCHANGED adapter
    BY <1>1 DEF SetupNext, Save, Test, Open, OpenHec, OpenIndex
  <2>2. readers' = readers
    BY <1>1 DEF pagingVars
  <2> QED
    BY <1>0, <1>1, <2>1, <2>2, PagingSame DEF SessionInv
<1>2. CASE Use
  <2>1. UNCHANGED adapter /\ purpose = "none" /\ purpose' # "none"
    BY <1>2 DEF Use, SetupDone
  <2>2. FindRows \/ UNCHANGED pagingVars
    BY <1>2 DEF Use
  <2> QED
    BY <1>0, <2>1, <2>2, PagingSame, FindRowsStep DEF SessionInv
<1>3. CASE purpose = "read" /\ PagingNext /\ UNCHANGED <<setupVars, inspectVars, purpose>>
  <2>1. UNCHANGED adapter
    BY <1>3 DEF setupVars
  <2>2. PagingInv' /\ AllFit
    BY <1>0, <1>3, <2>1, PagingNextStep
  <2> QED
    BY <1>3, <2>2 DEF SessionInv
<1>4. CASE purpose = "inspect" /\ InspectNext /\ UNCHANGED <<setupVars, pagingVars, purpose>>
  <2>1. UNCHANGED adapter
    BY <1>4 DEF setupVars
  <2>2. PagingInv' /\ AllFit
    BY <1>0, <1>4, <2>1, PagingSame
  <2> QED
    BY <1>4, <2>2 DEF SessionInv
<1>5. CASE UNCHANGED vars
  <2>1. UNCHANGED adapter /\ UNCHANGED pagingVars /\ purpose' = purpose /\ readers' = readers
    BY <1>5 DEF vars, setupVars, pagingVars
  <2> QED
    BY <1>0, <2>1, PagingSame DEF SessionInv
<1> QED
  BY <1>1, <1>2, <1>3, <1>4, <1>5 DEF Next

LEMMA SessionInit == Init => SessionInv
<1> SUFFICES ASSUME Init PROVE SessionInv
  OBVIOUS
<1>1. /\ rows = {} /\ masked = FALSE /\ readers = [s \in Sessions |-> Idle] /\ handles = <<>>
      /\ changes = 0 /\ losses = 0 /\ adapter \in AllNames
  BY SetupAssumption DEF Init, PagingInit, SetupInit, AllNames
<1>2. Start \in CursorType
  BY RowsAre DEF Start, Cursor, CursorType
<1>3. <<>> \in Seq(Rows) /\ 0 \in 0..MaxRows /\ 0 \in Nat
  BY PagesAssumption
<1>4. Idle \in ReaderType /\ Idle.status = "idle"
  BY <1>2, <1>3 DEF Idle, ReaderType, Statuses
<1>5. \A s \in Sessions : ReaderOK(rows, readers[s])
  BY <1>1, <1>4 DEF ReaderOK, Complete
<1>6. handles \in Seq(HandleType) /\ Len(handles) = 0
  BY <1>1
<1>7. TokensOK
  BY <1>6 DEF TokensOK
<1>8. /\ Len(handles) <= MASKED_CURSOR_CAPACITY
      /\ changes \in 0..MaxChanges /\ losses \in 0..MaxLosses
  BY ONLY <1>1, <1>6, PagingAssumption
<1>9. rows \subseteq Rows /\ masked \in BOOLEAN /\ DOMAIN readers = Sessions
  BY <1>1
<1>10. \A s \in Sessions : readers[s].status = "idle"
  BY <1>1, <1>4
<1> QED
  BY ONLY <1>1, <1>5, <1>6, <1>7, <1>8, <1>9, <1>10 DEF PagingInv, SessionInv

LEMMA SessionAlways == Spec => []SessionInv
BY SessionInit, SessionStep, PTL DEF Spec

\* A traversal that comes to its end without a truncation has delivered every row that was
\* there all the time, once and in order (the pages of every adapter, enforce_result_limits,
\* the loop of the catalog search, MaskedCursorRegistry), for every table, all limits and
\* policies, and any number of sessions.
THEOREM TraversalsComplete == Spec => []PagesComplete
<1>1. SessionInv => PagesComplete
  BY DEF SessionInv, PagingInv, ReaderOK, Complete, Increasing, PagesComplete
<1> QED
  BY <1>1, SessionAlways, PTL

\* No answer is longer than max_rows and max_bytes allow (enforce_result_limits_and_masking,
\* enforce_catalog_limits), whatever the adapters answer.
THEOREM AnswersBounded == Spec => AnswersWithinLimits
<1>1. SessionInv /\ [Next]_vars =>
        [\A s \in Sessions :
           LET bytes == AnswerBytes(readers[s], readers'[s]) IN
           /\ Len(Answer(readers[s], readers'[s])) <= MaxRows
           /\ \/ bytes <= MaxBytes
              \/ masked /\ readers'[s].token # 0 /\ bytes <= MaxBytes + TokenBytes]_pagingVars
  BY SessionStep DEF AllFit, Fits
<1> QED
  BY <1>1, SessionAlways, PTL DEF Spec, AnswersWithinLimits
-----------------------------------------------------------------------------
(***************************************************************************)
(* Types, and that pages lead on.                                          *)
(***************************************************************************)
LEMMA SetupTypeStep == SetupTypeOK /\ [Next]_vars => SetupTypeOK'
<1> SUFFICES ASSUME SetupTypeOK, [Next]_vars PROVE SetupTypeOK'
  OBVIOUS
<1> USE DEF SetupTypeOK
<1>0. /\ NoLink.status = "none" /\ InUse.status = "in use" /\ Refused.status = "refused"
      /\ \A a, i : Reached(a, i).status = "open"
      /\ \A i : splunk_hec_api_url(i).status = "open"
      /\ \A h : data_url(h).status = "open"
  BY DEF NoLink, InUse, Refused, Reached, splunk_hec_api_url, data_url
<1>1. CASE UNCHANGED setupVars
  BY <1>1 DEF setupVars
<1>2. ASSUME NEW i \in Inputs, Save(i) PROVE SetupTypeOK'
  BY <1>2 DEF Save
<1>3. CASE Test
  BY <1>3 DEF Test
<1>4. CASE Open
  BY <1>0, <1>4 DEF Open
<1>5. CASE OpenHec
  BY <1>0, <1>5 DEF OpenHec
<1>6. CASE OpenIndex
  BY <1>0, <1>6 DEF OpenIndex
<1>7. CASE Use
  BY <1>0, <1>7 DEF Use, SetupDone
<1> QED
  BY <1>1, <1>2, <1>3, <1>4, <1>5, <1>6, <1>7 DEF Next, SetupNext, vars

\* An inspection that describes an entity has one left to describe.
LeftInv ==
    /\ request \in Inspections \cup DataCalls \cup {NoCall}
    /\ left \in [Inspections -> 0..MaxEntities]
    /\ \A p \in Inspections : station[p] = "describing" => left[p] > 0

LEMMA LeftStep == FlagInv /\ LeftInv /\ [Next]_vars => LeftInv'
<1> SUFFICES ASSUME FlagInv, LeftInv, [Next]_vars PROVE LeftInv'
  OBVIOUS
<1>0. DOMAIN station = Inspections \cup DataCalls /\ MaxEntities \in Nat
  BY InspectionAssumption DEF FlagInv
<1> USE DEF LeftInv
<1>1. CASE UNCHANGED inspectVars
  BY <1>1 DEF inspectVars
<1>2. ASSUME NEW p \in Inspections, InspectStep(p) PROVE LeftInv'
  <2>1. ASSUME NEW at, at # "describing", station' = [station EXCEPT ![p] = at],
               left' = left, request' \in {request, p, NoCall}
        PROVE  LeftInv'
    BY <1>0, <2>1
  <2>2. CASE BeginInspection(p)
    BY <2>1, <2>2 DEF BeginInspection, Return
  <2>3. CASE StartSearch(p)
    BY <2>1, <2>3 DEF StartSearch, InspectReturns, Return, Reserve
  <2>4. CASE StartDescribe(p)
    <3>1. CASE InspectReturns(p, "cancelled") /\ UNCHANGED <<request, left>>
      BY <2>1, <3>1 DEF InspectReturns, Return
    <3>2. CASE Reserve(p) /\ station' = [station EXCEPT ![p] = "describing"] /\ left' = left
      BY <1>0, <2>4, <3>2 DEF StartDescribe, Reserve
    <3>3. CASE request # NoCall /\ left' = [left EXCEPT ![p] = @ - 1] /\ UNCHANGED <<station, request>>
      BY <1>0, <2>4, <3>3 DEF StartDescribe
    <3> QED
      BY <2>4, <3>1, <3>2, <3>3 DEF StartDescribe
  <2>5. CASE EndInspection(p)
    BY <2>1, <2>5 DEF EndInspection, InspectReturns, Return
  <2>6. ASSUME NEW end \in Ends, EndSearch(p, end) PROVE LeftInv'
    <3>1. CASE left' = left
      BY <2>1, <2>6, <3>1 DEF EndSearch, InspectReturns, Return, Release
    <3>2. CASE \E n \in 0..MaxEntities : left' = [left EXCEPT ![p] = n]
                                         /\ station' = [station EXCEPT ![p] = "describe"]
      BY <1>0, <2>6, <3>2 DEF EndSearch, Release
    <3> QED
      BY <2>6, <3>1, <3>2 DEF EndSearch
  <2>7. ASSUME NEW end \in Ends, EndDescribe(p, end) PROVE LeftInv'
    <3>1. CASE left' = left
      BY <2>1, <2>7, <3>1 DEF EndDescribe, InspectReturns, Return, Release
    <3>2. CASE left' = [left EXCEPT ![p] = @ - 1] /\ station' = [station EXCEPT ![p] = "describe"]
      BY <1>0, <2>7, <3>2 DEF EndDescribe, Release
    <3> QED
      BY <2>7, <3>1, <3>2 DEF EndDescribe
  <2> QED
    BY <1>2, <2>2, <2>3, <2>4, <2>5, <2>6, <2>7 DEF InspectStep
<1>3. ASSUME NEW d \in DataCalls, DataStep(d) PROVE LeftInv'
  <2>1. /\ left' = left /\ request' \in {request, d, NoCall}
        /\ \E at : station' = [station EXCEPT ![d] = at]
    BY <1>3 DEF DataStep, StartData, EndData, Return, Reserve, Release
  <2>2. \A p \in Inspections : station'[p] = station[p]
    BY <1>0, <2>1, InspectionAssumption
  <2> QED
    BY <2>1, <2>2
<1>4. ASSUME NEW c \in Cancels, StartCancel(c) \/ CancelTurn(c) PROVE LeftInv'
  BY <1>4 DEF StartCancel, CancelTurn
<1> QED
  BY <1>1, <1>2, <1>3, <1>4 DEF Next, InspectNext, Use, vars

LEMMA PagingTypes == SessionInv => PagingTypeOK
<1> SUFFICES ASSUME SessionInv PROVE PagingTypeOK
  OBVIOUS
<1>1. Cardinality(DOMAIN Bytes) = Len(Bytes)
  <2>1. 1 \in Int /\ Len(Bytes) \in Int /\ Len(Bytes) >= 0
    BY RowsAre
  <2>2. Cardinality(1..Len(Bytes)) = IF 1 > Len(Bytes) THEN 0 ELSE Len(Bytes) - 1 + 1
    BY <2>1, FS_Interval
  <2> QED
    BY <2>1, <2>2, RowsAre DEF Rows
<1>2. ASSUME NEW s \in Sessions
      PROVE  /\ readers[s].status \in Statuses
             /\ Elements(readers[s].delivered) \subseteq DOMAIN Bytes
             /\ readers[s].cursor.at \in -1..Cardinality(DOMAIN Bytes)
  <2>1. readers[s] \in ReaderType
    BY DEF SessionInv, PagingInv, ReaderOK
  <2>2. /\ readers[s].status \in Statuses /\ readers[s].delivered \in Seq(Rows)
        /\ readers[s].cursor.at \in -1..Len(Bytes)
    BY <2>1 DEF ReaderType, CursorType
  <2> QED
    BY <1>1, <2>2 DEF Elements, Rows
<1> QED
  BY <1>2 DEF SessionInv, PagingInv, PagingTypeOK, Rows

LEMMA PagesLeadOn == SessionInv => PagesAdvance
<1> SUFFICES ASSUME SessionInv, NEW s \in Sessions, NEW n \in Limits,
                    readers[s].status = "reading", readers[s].kind \in {"read", "catalog"},
                    ~Stalls(readers[s])
             PROVE  LET r == readers[s]
                        page == IF r.kind = "read"
                                THEN ReadPageOf(rows, r.cursor, effective_row_limit(n), r.sorted)
                                ELSE search_catalog_page(rows, r.match, r.cursor,
                                                         effective_row_limit(n))
                    IN  page.error \/ page.next = End \/ Beyond(page.next, r.cursor)
  BY DEF PagesAdvance
<1> DEFINE r == readers[s]
           limit == effective_row_limit(n)
<1>1. rows \subseteq Rows /\ adapter \in AllNames /\ ReaderOK(rows, r)
  BY DEF SessionInv, PagingInv
<1>2. r.cursor \in CursorType /\ r.cursor.at >= 0 /\ (r.kind = "read" => adapter \in Pageable)
  BY <1>1 DEF ReaderOK, UnderWay, ReaderType
<1>3. limit \in Nat \ {0}
  BY LimitIs
<1> HIDE DEF limit
<1>4. CASE r.kind = "read"
  <2> DEFINE p == ReadPageOf(rows, r.cursor, limit, r.sorted)
  <2> SUFFICES ASSUME ~p.error PROVE p.next = End \/ Beyond(p.next, r.cursor)
    BY <1>4 DEF limit
  <2>1. Advances(rows, r.cursor, p)
    BY <1>1, <1>2, <1>3, <1>4, ReadPages
  <2> HIDE DEF p
  <2>2. ~(adapter = "mongodb" /\ Size(Window(InOrder(rows), r.cursor.at, 1)) > MaxBytes)
    BY <1>4 DEF Stalls
  <2> QED
    BY <2>1, <2>2 DEF Advances
<1>5. CASE r.kind = "catalog"
  <2> DEFINE p == search_catalog_page(rows, r.match, r.cursor, limit)
  <2> SUFFICES ASSUME ~p.error PROVE p.next = End \/ Beyond(p.next, r.cursor)
    BY <1>5 DEF limit
  <2>1. CatalogContract(rows, r.match, r.cursor, limit, p)
    BY <1>1, <1>2, <1>3, CatalogPages
  <2> HIDE DEF p
  <2> QED
    BY <2>1 DEF CatalogContract
<1> QED
  BY <1>4, <1>5

\* Every variable has its type, the registry of masked cursors stays within its capacity
\* (MaskedCursorRegistry::insert), and no page of any adapter, whatever the limit, hands out
\* a cursor that is not beyond the one it was asked with, but for MongoDB's document that
\* does not fit.
THEOREM CursorsLeadOn == Spec => []CursorsWellFormed
<1> DEFINE Inv == SetupTypeOK /\ FlagInv /\ LeftInv /\ SessionInv
<1>1. Init => Inv
  <2> SUFFICES ASSUME Init PROVE Inv
    OBVIOUS
  <2>1. SetupTypeOK
    BY DEF Init, SetupInit, SetupTypeOK, NoLink
  <2>2. FlagInv
    BY DEF Init, InspectInit, FlagInv, CancelType
  <2>3. LeftInv
    BY InspectionAssumption DEF Init, InspectInit, LeftInv
  <2> QED
    BY <2>1, <2>2, <2>3, SessionInit
<1>2. Inv /\ [Next]_vars => Inv'
  BY SetupTypeStep, FlagStep, LeftStep, SessionStep
<1>3. Inv => CursorsWellFormed
  <2> SUFFICES ASSUME Inv PROVE CursorsWellFormed
    OBVIOUS
  <2>1. InspectTypeOK
    BY DEF FlagInv, LeftInv, CancelType, InspectTypeOK
  <2> QED
    BY <2>1, PagingTypes, PagesLeadOn DEF CursorsWellFormed, TypeOK
<1> QED
  BY <1>1, <1>2, <1>3, PTL DEF Spec
=============================================================================
