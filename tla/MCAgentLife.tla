---------------------------- MODULE MCAgentLife ----------------------------
(* Constants of AgentLife for model checking.                              *)
EXTENDS AgentLife

CONSTANTS p1, p2, nginx, fpm, mysql, mariadb, web1, php1, db1

MCKinds ==
  {[p \in {p1, p2} |-> IF p = p1 THEN pair[1] ELSE pair[2]] :
     pair \in {<<"code", "code">>, <<"legacy", "pair">>,
               <<"string", "register">>}}

\* mysql is another name of mariadb.
MCIdOf ==
  [n \in {nginx, fpm, mysql, mariadb} |->
     CASE n = nginx -> web1 [] n = fpm -> php1 [] OTHER -> db1]

\* Nothing; everything; a web port that somebody else serves, and a database
\* that is stopped.
MCFirstFacts == {{}, Facts, {Loaded(web1), Loaded(db1), Open("80")}}
=============================================================================
