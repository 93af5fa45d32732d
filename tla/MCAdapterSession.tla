-------------------------- MODULE MCAdapterSession --------------------------
(***************************************************************************)
(* An instance of AdapterSession for TLC.                                  *)
(***************************************************************************)
EXTENDS AdapterSession

CONSTANTS s1, s2, p1, p2, d1, c1

AllAdapters ==
    SqlAdapterNames \cup DocumentAdapterNames \cup SearchAdapterNames
    \cup TimeSeriesAdapterNames

PlainString ==
    [hosts |-> {"here"}, way |-> "tcp", ports |-> {}, database |-> "mine", tls |-> "unsaid"]

\* Every credential, with every way to use TLS.
CredentialInputs ==
    [auth : AuthKinds,
     secret : {"complete", "other kind", "incomplete", "no pem", "bad pem", "bad key"},
     scheme : {"plain", "secure", "srv"}, port : {0}, parses : BOOLEAN, tls : BOOLEAN,
     verify : BOOLEAN, ca : BOOLEAN, client : BOOLEAN, serverName : {"none", "same", "other"},
     filled : {TRUE}, string : {PlainString}, hec : {"none"}, aside : {"none"}]

\* Every connection string, beside every endpoint.
StringInputs ==
    [auth : {"ConnectionString"}, secret : {"complete"}, scheme : {"plain", "secure", "srv"},
     port : {0, UsualPort, ChosenPort}, parses : {TRUE}, tls : BOOLEAN, verify : {TRUE},
     ca : {FALSE}, client : {FALSE}, serverName : {"none"}, filled : BOOLEAN, string : Strings,
     hec : {"none"}, aside : {"none"}]

\* Every endpoint without a string.
EndpointInputs ==
    [auth : AuthKinds \ {"ConnectionString"}, secret : {"complete"},
     scheme : {"plain", "secure", "srv"}, port : {0, UsualPort, ChosenPort}, parses : {TRUE},
     tls : BOOLEAN, verify : {TRUE}, ca : {FALSE}, client : BOOLEAN, serverName : {"none"},
     filled : BOOLEAN, string : {PlainString}, hec : {"none"}, aside : {"none"}]

\* Every second host, with every token for it.
SecondHostInputs ==
    [auth : {"UsernamePassword", "BearerToken", "ApiKey"}, secret : {"complete"},
     scheme : {"plain", "secure"}, port : {0, UsualPort}, parses : {TRUE}, tls : BOOLEAN,
     verify : {TRUE}, ca : {FALSE}, client : {FALSE}, serverName : {"none"}, filled : {TRUE},
     string : {PlainString}, hec : {"none", "shared", "own", "unusable"},
     aside : {"none", "plain", "secure", "invalid"}]

AllInputs == CredentialInputs \cup StringInputs \cup EndpointInputs \cup SecondHostInputs

\* Four rows of which some pairs fit in a page and others do not, and one that no page and no
\* answer has room for.
RowBytes == <<2, 3, 4, 2, 30>>

SomeRows == {1..4, {2, 3}, 1..5}

\* No pattern, and one that leaves an entry out.
SomePatterns == {1..5, {1, 3}}

SomeIds == {<<1>>, <<2, 3>>, <<1, 2, 5>>}
=============================================================================
