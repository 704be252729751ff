--------------------------- MODULE MCProvisioning ---------------------------
(* TLC instances of Provisioning.                                          *)
EXTENDS Provisioning

\* The instance's password and the role's for one service each, API keys for
\* the server and a client of it, and the administrator of one server.
MCCopies == {<<"db", "server">>, <<"role", "server">>, <<"keys", "server">>,
             <<"keys", "client">>, <<"admin", "server">>}
=============================================================================
