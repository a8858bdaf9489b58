---------------------------- MODULE ServiceChecks ----------------------------
(***************************************************************************)
(* One cycle of the monitor mode's service checks                          *)
(* (internal/servicecheck/servicecheck.go): the web server, PHP-FPM, the   *)
(* databases and the configured units, each asked of systemctl or dialled  *)
(* in a call of its own, while the services go up and down.                *)
(*                                                                         *)
(* Several names may stand for one service (mysql for mariadb): systemd's  *)
(* Id tells.  The host's state is a set of facts; a history remembers      *)
(* which held at some moment of the cycle and which at all of them.  Names *)
(* of a group are asked in any order: the code's is one of them.  The      *)
(* thresholds of disk, CPU and memory are left out.                        *)
(***************************************************************************)
EXTENDS Naturals, FiniteSets

CONSTANTS
  WebNames, PhpNames, DbNames, \* unit names the checks know
  CustomNames,                 \* unit names the operator configured
  Ids,                         \* services, by the Id systemd gives
  IdOf,                        \* function: the service a name stands for
  FirstFacts,                  \* bound: what a cycle may find at first
  MaxFlips                     \* bound: changes of the host during a cycle

Names == WebNames \cup PhpNames \cup DbNames \cup CustomNames
WebPorts == {"80", "443"}

Loaded(i) == <<"loaded", i>>
Active(i) == <<"active", i>>
Open(p) == <<"open", p>>    \* a web port, or the port of a database
Facts == {Loaded(i) : i \in Ids} \cup {Active(i) : i \in Ids}
           \cup {Open(IdOf[n]) : n \in DbNames} \cup {Open(p) : p \in WebPorts}
Consistent(f) == \A i \in Ids : Active(i) \in f => Loaded(i) \in f

ASSUME CheckAssumption ==
  /\ IdOf \in [Names -> Ids] /\ MaxFlips \in Nat
  /\ \A m, n \in PhpNames : IdOf[m] = IdOf[n] => m = n \* they come of a listing
  /\ FirstFacts \subseteq SUBSET Facts /\ \A f \in FirstFacts : Consistent(f)

VARIABLES
  facts,   \* external: what is the case on the host
  ever,    \* history: what has been the case during the cycle
  always,  \* history: what has been so all along
  flips,   \* external: changes so far
  turn,    \* the group being checked
  left,    \* names of it not yet asked
  seen,    \* Ids of it already reported
  webUp,   \* listening: what the dials at its beginning found
  dialled, \* the database whose port is being dialled, or none
  checks,  \* the report
  silent   \* history: services systemctl did not answer for in time

hostFacts == <<facts, ever, always, flips>>
checkVars == <<hostFacts, turn, left, seen, webUp, dialled, checks, silent>>

Groups == {"web", "php", "db", "custom"}
NamesOf(g) == CASE g = "web" -> WebNames [] g = "php" -> PhpNames
                [] g = "db" -> DbNames [] g = "custom" -> CustomNames

CheckTypeOK ==
  /\ {facts, ever, always} \subseteq SUBSET Facts /\ flips \in 0..MaxFlips
  /\ turn \in Groups \cup WebPorts \cup {"end"}
  /\ left \subseteq Names /\ seen \subseteq Ids /\ webUp \in BOOLEAN
  /\ dialled \subseteq Names
  /\ checks \subseteq [id : Ids \cup {"web"}, name : Names \cup {"web"},
                       group : Groups,
                       status : {"up", "down", "degraded", "unknown"}]
  /\ silent \subseteq Groups \X Ids

CheckInit ==
  /\ facts \in FirstFacts
  /\ ever = facts /\ always = facts /\ flips = 0
  /\ turn = "80" /\ left = {} /\ seen = {} /\ webUp = FALSE
  /\ dialled = {} /\ checks = {} /\ silent = {}

\* A service goes up or down, a port opens or closes, a package is installed
\* or removed.
HostFlips ==
  /\ flips < MaxFlips /\ flips' = flips + 1
  /\ \E f \in Facts :
       /\ facts' = (facts \ {f}) \cup ({f} \ facts)
       /\ ever' = ever \cup {f} /\ always' = always \ {f}
  /\ Consistent(facts')
  /\ UNCHANGED <<turn, left, seen, webUp, dialled, checks, silent>>

Begin(g) ==
  turn' = g /\ left' = NamesOf(g) /\ seen' = {} /\ UNCHANGED webUp

\* Port 80 is dialled before any unit is asked for, and 443 if that fails.
DialWeb ==
  /\ turn \in WebPorts
  /\ webUp' = (Open(turn) \in facts)
  /\ IF turn = "80" /\ ~webUp'
     THEN turn' = "443" /\ UNCHANGED left
     ELSE turn' = "web" /\ left' = WebNames
  /\ UNCHANGED <<hostFacts, seen, dialled, checks, silent>>

Check(i, n, s) == [id |-> i, name |-> n, group |-> turn, status |-> s]
Told(n, s) == checks' = checks \cup {Check(IdOf[n], n, s)}

\* A unit that is not loaded, or has been reported under another name, is
\* passed over; one the operator asked for is neither.
Fresh(n) == turn = "custom" \/ IdOf[n] \notin seen

\* systemctl show; what is done with the answer depends on the group.
AskUnit(n) ==
  /\ n \in left /\ dialled = {} /\ turn # "php"
  /\ left' = left \ {n}
  /\ IF Loaded(IdOf[n]) \in facts /\ Fresh(n)
     THEN /\ seen' = seen \cup {IdOf[n]}
          /\ \/ turn = "web" /\ UNCHANGED dialled
                /\ Told(n, IF Active(IdOf[n]) \in facts \/ webUp
                           THEN "up" ELSE "down")
             \/ turn = "db" /\ Active(IdOf[n]) \in facts
                /\ dialled' = {n} /\ UNCHANGED checks
             \/ (turn = "custom" \/ (turn = "db" /\ Active(IdOf[n]) \notin facts))
                /\ Told(n, IF Active(IdOf[n]) \in facts THEN "up" ELSE "down")
                /\ UNCHANGED dialled
     ELSE /\ UNCHANGED <<seen, dialled>>
          /\ IF turn = "custom" THEN Told(n, "unknown") ELSE UNCHANGED checks
  /\ UNCHANGED <<hostFacts, turn, webUp, silent>>

\* systemctl does not answer in time: as if the unit did not exist.
AskTimesOut(n) ==
  /\ n \in left /\ dialled = {} /\ turn # "php"
  /\ left' = left \ {n} /\ silent' = silent \cup {<<turn, IdOf[n]>>}
  /\ IF turn = "custom" THEN Told(n, "unknown") ELSE UNCHANGED checks
  /\ UNCHANGED <<hostFacts, turn, seen, webUp, dialled>>

\* phpFPM: one listing of all of them, which may fail.
ListPhp ==
  LET listed == {n \in PhpNames : Loaded(IdOf[n]) \in facts} IN
  /\ turn = "php" /\ left = PhpNames /\ left # {} /\ left' = {}
  /\ \/ checks' = checks \cup
          {Check(IdOf[n], n, IF Active(IdOf[n]) \in facts THEN "up" ELSE "down") :
             n \in listed}
        /\ UNCHANGED silent
     \/ silent' = silent \cup {<<turn, IdOf[n]>> : n \in PhpNames}
        /\ UNCHANGED checks
  /\ UNCHANGED <<hostFacts, turn, seen, webUp, dialled>>

\* An active database's port is dialled.
DialDatabase(n) ==
  /\ n \in dialled /\ dialled' = {}
  /\ Told(n, IF Open(IdOf[n]) \in facts THEN "up" ELSE "degraded")
  /\ UNCHANGED <<hostFacts, turn, left, seen, webUp, silent>>

\* A web server nobody knows the unit of is reported by its port.
NextGroup ==
  /\ turn \in Groups /\ left = {} /\ dialled = {}
  /\ \/ /\ turn = "web" /\ Begin("php")
        /\ checks' = checks \cup {c \in {Check("web", "web", "up")} :
                                  checks = {} /\ webUp}
     \/ turn = "php" /\ Begin("db") /\ UNCHANGED checks
     \/ turn = "db" /\ Begin("custom") /\ UNCHANGED checks
     \/ turn = "custom" /\ turn' = "end" /\ UNCHANGED <<left, seen, webUp, checks>>
  /\ UNCHANGED <<hostFacts, dialled, silent>>

CheckNext ==
  \/ HostFlips \/ DialWeb \/ ListPhp \/ NextGroup
  \/ \E n \in Names : AskUnit(n) \/ AskTimesOut(n) \/ DialDatabase(n)

-----------------------------------------------------------------------------
\* What a check says was the case at some moment of the cycle, although its
\* evidence is gathered call by call while services come and go.
Witnessed(c) ==
  CASE c.status = "up" -> Active(c.id) \in ever
                          \/ (c.group = "web" /\ \E p \in WebPorts : Open(p) \in ever)
    [] c.status = "down" -> Active(c.id) \notin always
                            /\ (c.group = "web" => \A p \in WebPorts : Open(p) \notin always)
    [] c.status = "degraded" -> Active(c.id) \in ever /\ Open(c.id) \notin always
    [] c.status = "unknown" -> Loaded(c.id) \notin always
                               \/ <<c.group, c.id>> \in silent

\* Every check was true at some moment of the cycle; no service is reported
\* twice in a group under two names; and one that was installed all along is
\* reported, unless systemctl kept silent about it.
ChecksTell ==
  /\ \A c \in checks : Witnessed(c)
  /\ \A c, d \in checks :
       c.group = d.group /\ c.id = d.id /\ c.group # "custom" => c = d
  /\ turn = "end" =>
       \A g \in Groups : \A n \in NamesOf(g) :
         \/ \E c \in checks : c.group = g /\ c.id = IdOf[n]
         \/ Loaded(IdOf[n]) \notin always \/ <<g, IdOf[n]>> \in silent

\* The inductive form.  Name n of group g is settled: reported, or excused.
Settled(g, n) ==
  \/ \E c \in checks : c.group = g /\ c.id = IdOf[n]
  \/ Loaded(IdOf[n]) \notin always \/ <<g, IdOf[n]>> \in silent

\* The groups that are over.
Over(g) == \/ turn = "end"
           \/ turn = "custom" /\ g # "custom"
           \/ turn = "db" /\ g \in {"web", "php"}
           \/ turn = "php" /\ g = "web"

ChecksInv ==
  /\ CheckTypeOK /\ ChecksTell
  /\ always \subseteq facts /\ facts \subseteq ever
  \* What the dials found.
  /\ webUp => \E p \in WebPorts : Open(p) \in ever
  /\ turn = "443" => Open("80") \notin always
  /\ turn \in Groups /\ ~webUp => \A p \in WebPorts : Open(p) \notin always
  \* Where the group under way stands.
  /\ turn \in Groups => left \subseteq NamesOf(turn)
  /\ turn \notin Groups => left = {} /\ dialled = {}
  /\ turn \in WebPorts => checks = {} /\ seen = {}
  /\ turn = "php" /\ left # {} =>
       left = PhpNames /\ \A c \in checks : c.group # "php"
  /\ \A n \in dialled : /\ turn = "db" /\ n \in DbNames \ left
                         /\ IdOf[n] \in seen /\ Active(IdOf[n]) \in ever
                         /\ dialled = {n}
  \* What has been reported.
  /\ \A c \in checks : c.group = turn \/ Over(c.group)
  /\ turn \in {"web", "db"} =>
       /\ \A c \in checks : c.group = turn =>
            c.id \in seen /\ \A n \in dialled : IdOf[n] # c.id
       /\ \A i \in seen : \/ \E c \in checks : c.group = turn /\ c.id = i
                          \/ \E n \in dialled : IdOf[n] = i
  /\ \A g \in Groups : \A n \in NamesOf(g) :
       Over(g) \/ (g = turn /\ n \notin left \cup dialled) => Settled(g, n)
=============================================================================
