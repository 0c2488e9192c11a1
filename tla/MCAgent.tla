------------------------------- MODULE MCAgent -------------------------------
EXTENDS Agent

\* Two JSON objects, "{}" and "{ }" (json.Unmarshal into a map accepts
\* only an object or null).
MCEvents == {<<123, 125>>, <<123, 32, 125>>}
\* A value of CMD_AGENT that is not one of config.go's commands.
MCCmdAgent == 7
\* The group "a".
MCAgentGroup == <<97>>
=============================================================================
