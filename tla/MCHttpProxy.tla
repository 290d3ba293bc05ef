---------------------------- MODULE MCHttpProxy ----------------------------
EXTENDS HttpProxy

\* --route /a=... --route /a/b=... --route /a=...
MCRoutes == << <<"a">>, <<"a", "b">>, <<"a">> >>
MCPaths == { <<"a", "b">>, <<"d">> }
=============================================================================
