---------------------------- MODULE MCHttpServer -----------------------------
(* Small instances of HttpServer for TLC. *)
EXTENDS HttpServer, TLC

Request(m, p, i, v, e) == [method |-> m, path |-> p, id |-> i, value |-> v, empty |-> e]

(* An update that is made, one that is refused, and the page. *)
MCUpdates == { Request("PUT", "led", 1, 1, FALSE), Request("PUT", "led", 1, 2, FALSE),
               Request("GET", "root", 0, 0, TRUE) }

(* The other requests that the handler tells apart, and the page. *)
MCQueries == { Request("GET", "led", 1, 0, TRUE), Request("GET", "other", 0, 0, TRUE),
               Request("OTHER", "root", 0, 0, TRUE), Request("GET", "root", 0, 0, TRUE) }

MCPages == { Request("GET", "root", 0, 0, TRUE) }

MCFds == 0..4

Symmetry == Permutations(Conns)
================================================================================
