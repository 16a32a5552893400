------------------------------ MODULE MCRouter ------------------------------
(***************************************************************************)
(* Router for model checking: three situations, each of which is large     *)
(* enough for what it is about and leaves the other requests out.  The     *)
(* routes are given where they are used: m3 has three Providers.           *)
(***************************************************************************)
EXTENDS Router, TLC

CONSTANTS p1, p2, p3, m1, m2, m3, r1, r2

OneProvider == [m \in Models |-> <<p1>>]

\* Who takes part, with which model:
\* one request and its failover; two requests, of which one finds the queue full;
\* two requests for two models of one Provider.  In the last the router has been
\* running: entries of the Provider have run out.
Situations ==
    {[live |-> {r1},     model |-> (r1 :> m3 @@ r2 :> m3), old |-> {}],
     [live |-> {r1, r2}, model |-> (r1 :> m1 @@ r2 :> m1), old |-> {}],
     [live |-> {r1, r2}, model |-> (r1 :> m1 @@ r2 :> m2), old |-> {<<p1, m1>>, <<p1, Whole>>}]}

MCInit ==
    /\ \E s \in Situations :
         /\ req = [r \in Requests |-> [Fresh(s.model[r]) EXCEPT
                                         !.pc = IF r \in s.live THEN "idle" ELSE "done"]]
         /\ blacklist = [e \in Providers \X Scopes |-> IF e \in s.old THEN 0 ELSE None]
    /\ row = [r \in Requests |-> None]
    /\ waiting = [r \in Requests |-> None]
    /\ resting = [e \in Providers \X Models |-> 0]
    /\ exit = "running" /\ doomed = {}
=============================================================================
