------------------------------ MODULE ConnService ------------------------------
(***************************************************************************)
(* What the HTTP server of application/network_http.c promises about       *)
(* connections, whatever descriptors, slots and threads it uses for it:    *)
(* a connection that arrived is either given to a worker that is free or,  *)
(* only when every worker is busy, refused; a connection is answered and   *)
(* closed by the one worker that serves it; a worker is available again    *)
(* only after the connection it served was closed; a service that stopped  *)
(* accepting never accepts again.                                          *)
(***************************************************************************)
CONSTANTS Conns,    (* the connection attempts of the clients        *)
          Workers,  (* the workers, MAX_CLIENT_QUEUE of them         *)
          NoConn    (* what a worker serves when it serves nothing   *)

VARIABLES phase,     (* "closed", then "open", then perhaps "stopped" *)
          conn,      (* where each connection is in its life          *)
          busy,      (* the workers that are not available            *)
          serves,    (* the connection each worker serves             *)
          answered   (* connections that received part of an answer   *)

vars == <<phase, conn, busy, serves, answered>>

TypeOK == /\ phase \in {"closed", "open", "stopped"}
          /\ conn \in [Conns -> {"new", "waiting", "served", "refused", "closed"}]
          /\ busy \subseteq Workers
          /\ serves \in [Workers -> Conns \cup {NoConn}]
          /\ answered \subseteq Conns

Move(c, from, to) == /\ conn[c] = from
                     /\ conn' = [conn EXCEPT ![c] = to]

Init == /\ phase = "closed"
        /\ conn = [c \in Conns |-> "new"]
        /\ busy = {}
        /\ serves = [w \in Workers |-> NoConn]
        /\ answered = {}

Open == /\ phase = "closed"
        /\ phase' = "open"
        /\ UNCHANGED <<conn, busy, serves, answered>>

(* The service fails to open, or gives up after it had opened. *)
Stop == /\ phase # "stopped"
        /\ phase' = "stopped"
        /\ UNCHANGED <<conn, busy, serves, answered>>

Arrive(c) == /\ phase # "closed"
             /\ Move(c, "new", "waiting")
             /\ UNCHANGED <<phase, busy, serves, answered>>

Admit(c, w) == /\ phase = "open"
               /\ w \notin busy
               /\ Move(c, "waiting", "served")
               /\ busy' = busy \cup {w}
               /\ serves' = [serves EXCEPT ![w] = c]
               /\ UNCHANGED <<phase, answered>>

Refuse(c) == /\ phase = "open"
             /\ busy = Workers
             /\ Move(c, "waiting", "refused")
             /\ UNCHANGED <<phase, busy, serves, answered>>

Answer(w) == /\ serves[w] # NoConn
             /\ answered' = answered \cup {serves[w]}
             /\ UNCHANGED <<phase, conn, busy, serves>>

Finish(w) == /\ serves[w] # NoConn
             /\ Move(serves[w], "served", "closed")
             /\ serves' = [serves EXCEPT ![w] = NoConn]
             /\ UNCHANGED <<phase, busy, answered>>

Dismiss(c) == /\ Move(c, "refused", "closed")
              /\ UNCHANGED <<phase, busy, serves, answered>>

Release(w) == /\ w \in busy
              /\ serves[w] = NoConn
              /\ busy' = busy \ {w}
              /\ UNCHANGED <<phase, conn, serves, answered>>

Next == \/ Open \/ Stop
        \/ \E c \in Conns : Arrive(c) \/ Refuse(c) \/ Dismiss(c)
        \/ \E c \in Conns, w \in Workers : Admit(c, w)
        \/ \E w \in Workers : Answer(w) \/ Finish(w) \/ Release(w)

Spec == Init /\ [][Next]_vars
================================================================================
