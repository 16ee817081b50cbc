---------------------------- MODULE MCHttpServer ----------------------------
\* Instances of HttpServer for TLC.
EXTENDS HttpServer

CONSTANT k

\* No server, one with a token over HTTPS, one without either.
ThreeConfigs == {NoConfig, [on |-> TRUE, token |-> k, https |-> TRUE],
                 [on |-> TRUE, token |-> NoToken, https |-> FALSE]}
=============================================================================
