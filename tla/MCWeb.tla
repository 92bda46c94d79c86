--------------------------------- MODULE MCWeb ---------------------------------
(***************************************************************************)
(* The four models of what the web application does between the engine and *)
(* the browser, side by side: the dashboard's cache, the log page, the     *)
(* update check and the instance forms.  They share no variable, so a      *)
(* behaviour takes one of them ("part") and leaves the others at rest.     *)
(***************************************************************************)
EXTENDS Dashboard, LogFeed, UpdateCheck, InstanceForms

VARIABLE part
webVars == <<part, dashVars, logVars, updateVars, formVars>>

(* Two cycles that interleave, one of which may skip, and a system row.     *)
TwoCycles ==
  {[inst |-> 1, cycle |-> "a", trigger |-> "scheduled", action |-> "searched"],
   [inst |-> 1, cycle |-> "b", trigger |-> "run_now", action |-> "skipped"],
   [inst |-> NoInst, cycle |-> NoCycle, trigger |-> "system", action |-> "info"]}
TwoFilters ==
  {[inst |-> NoInst, skipped |-> FALSE, system |-> TRUE],
   [inst |-> 1, skipped |-> TRUE, system |-> FALSE]}

(* A plain form, forms with another key, type or retry window, and forms a  *)
(* validator refuses.                                                       *)
PlainForm ==
  [type |-> "sonarr", url |-> [scheme |-> "http", host |-> "arr", slashes |-> 1], key |-> 1,
   verified |-> TRUE, spec |-> <<[shape |-> "HH:MM-HH:MM", from |-> 1320, to |-> 360]>>,
   cutoff |-> [batch |-> 1, cooldown |-> 0, cap |-> 0],
   upgrade |-> [batch |-> 1, cooldown |-> 7, cap |-> 0],
   hot |-> [window |-> 0, interval |-> 0], include |-> <<"kids", "", "kids">>, exclude |-> <<>>,
   modes |-> [sonarr |-> "episode", lidarr |-> "", readarr |-> "", whisparr_v2 |-> ""],
   order |-> "random"]
SampleForms ==
  {[PlainForm EXCEPT !.key = k] : k \in {1, 2, Unchanged}}
  \cup {[PlainForm EXCEPT !.type = "whisparr_v2", !.modes.whisparr_v2 = "episode"],
        [PlainForm EXCEPT !.hot = [window |-> 6, interval |-> 1], !.key = Unchanged],
        [PlainForm EXCEPT !.hot = [window |-> 6, interval |-> 0]],
        [PlainForm EXCEPT !.upgrade.cooldown = 6],
        [PlainForm EXCEPT !.cutoff.batch = 0],
        [PlainForm EXCEPT !.spec = @ \o @],
        [PlainForm EXCEPT !.include = <<"long">>],
        [PlainForm EXCEPT !.url.host = "localhost"],
        [PlainForm EXCEPT !.order = "newest"]}
SampleRemotes ==
  {[up |-> TRUE, key |-> k, app |-> a, major |-> 3] : k \in {1, 2}, a \in {"sonarr", "whisparr"}}
  \cup {[up |-> TRUE, key |-> 1, app |-> "whisparr", major |-> 2],
        [up |-> FALSE, key |-> 1, app |-> "sonarr", major |-> 3]}

-----------------------------------------------------------------------------
FormRest ==
  /\ table = [i \in Ids |-> NoRow] /\ nextId = 1
  /\ remote = [h \in Hosts |-> CHOOSE r \in Remotes : TRUE] /\ request = [q \in Requests |-> Free] /\ submits = 0

WebInit ==
  /\ part \in {"dashboard", "log", "update", "forms"}
  /\ DashInit /\ LogInit /\ UpdateInit
  /\ IF part = "forms" THEN FormInit ELSE FormRest

OnDashboard == part = "dashboard" /\ DashNext /\ UNCHANGED <<part, logVars, updateVars, formVars>>
OnLog == part = "log" /\ LogNext /\ UNCHANGED <<part, dashVars, updateVars, formVars>>
OnUpdate == part = "update" /\ UpdateNext /\ UNCHANGED <<part, dashVars, logVars, formVars>>
OnForms == part = "forms" /\ FormNext /\ UNCHANGED <<part, dashVars, logVars, updateVars>>

WebSpec == WebInit /\ [][OnDashboard \/ OnLog \/ OnUpdate \/ OnForms]_webVars
=============================================================================
