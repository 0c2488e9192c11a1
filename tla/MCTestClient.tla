---------------------------- MODULE MCTestClient ----------------------------
EXTENDS TestClient

\* Two entries of client.Services with the group "g" (main has four, all
\* "group1"); the brokers configure the group "g".
MCServices == <<<<103>>, <<103>>>>
MCGroups == {<<103>>}
=============================================================================
