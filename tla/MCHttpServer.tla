---------------------------- MODULE MCHttpServer ----------------------------
(* Small instances of HttpServer. *)
EXTENDS HttpServer, MCHttpSessions

\* One identity; requests that have to wait for each other.  All that is posted
\* to a session takes the same way through its lock; a response is the one that
\* the session answers in a branch of its own.
FewRequests ==
    {Post(ana, "initialize", NoId), Post(ana, "response", s1), End(ana, s1)}
===========================================================================
