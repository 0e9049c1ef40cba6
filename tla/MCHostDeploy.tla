---------------------------- MODULE MCHostDeploy ----------------------------
EXTENDS HostDeploy

CONSTANTS absent, torn, edited, notCopied

MCPaths == <<"conf.d", "sites-enabled", "default">>

\* The second commit brings a newer Kratos.
MCKratos == <<1, 2>>
=============================================================================
