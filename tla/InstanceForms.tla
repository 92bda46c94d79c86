----------------------------- MODULE InstanceForms -----------------------------
(***************************************************************************)
(* The settings forms of an instance: adding, editing, testing the         *)
(* connection, toggling and deleting (services/instance_submit.py,         *)
(* services/instance_validation.py, services/instances.py,                 *)
(* repositories/instances.py, routes/settings/instances.py), several       *)
(* requests at once, while the *arr behind an address changes.             *)
(*                                                                         *)
(* What a save does to running loops is the subject of Supervisor, and its *)
(* offsets of UpgradeRotation; here it is the columns.                     *)
(***************************************************************************)
EXTENDS Integers, Sequences, SequencesExt, FiniteSetsExt

CONSTANTS
  Requests,     \* requests being handled
  Ids,          \* ids AUTOINCREMENT may give, 1, 2, ...
  Forms,        \* what a form may carry, valid or not
  Remotes,      \* what may answer at an address: up, key, app, major
  Hosts,        \* hosts of the addresses
  BlockedHosts, \* hosts that are, or resolve to, a blocked address
  NoHost,       \* an address without a host
  Unchanged,    \* API_KEY_UNCHANGED
  LongLabels,   \* labels above _TAG_LABEL_MAX_LENGTH
  MaxTags,      \* _TAG_LIST_MAX_ENTRIES
  MaxRanges,    \* _MAX_RANGES
  MaxSubmits    \* bound: requests

ASSUME InstanceFormsAssumption ==
  MaxTags \in Nat /\ MaxRanges \in Nat /\ MaxSubmits \in Nat /\ Unchanged \notin {r.key : r \in Remotes}

VARIABLES
  table,    \* [Ids -> the row, or NoRow]
  nextId,   \* AUTOINCREMENT
  remote,   \* [Hosts -> what answers there]
  request,  \* [Requests -> what the handler holds]
  submits
formVars == <<table, nextId, remote, request, submits>>

-----------------------------------------------------------------------------
(* Static validation.                                                       *)

ValidUrl(url) ==
  url.scheme \in {"http", "https"} /\ url.host # NoHost /\ url.host \notin BlockedHosts
Cleaned(url) == [url EXCEPT !.slashes = 0]

(* An allowed time window: pieces between commas; a blank text has none.    *)
ValidWindow(spec) ==
  /\ Len(spec) <= MaxRanges
  /\ \A p \in Range(spec) : /\ p.shape = "HH:MM-HH:MM"
                            /\ {p.from, p.to} \subseteq 0..(24 * 60 - 1)
                            /\ p.from # p.to
Ranges(spec) == [n \in DOMAIN spec |-> <<spec[n].from, spec[n].to>>]

ValidCutoff(c) == c.batch >= 1 /\ c.cooldown >= 0 /\ c.cap >= 0
ValidUpgrade(u) == u.batch >= 1 /\ u.cooldown >= 7 /\ u.cap >= 0
ValidHotRetry(h) == h.window >= 0 /\ (h.window > 0 => h.interval >= 1)

(* Tag labels: blanks and repetitions go, the order stays.                  *)
Labels(raw) ==
  FoldLeft(LAMBDA seen, label : IF label = "" \/ label \in Range(seen) THEN seen
                                ELSE Append(seen, label), <<>>, raw)
ValidTags(raw) == Range(raw) \cap LongLabels = {} /\ Len(Labels(raw)) <= MaxTags

ValidForm(f) ==
  /\ ValidUrl(f.url) /\ ValidWindow(f.spec)
  /\ ValidCutoff(f.cutoff) /\ ValidHotRetry(f.hot) /\ ValidUpgrade(f.upgrade)
  /\ ValidTags(f.include) /\ ValidTags(f.exclude)

(* A mode is read only for the type it belongs to; the modes of a search    *)
(* and those of an upgrade, checked alike, are one field here.              *)
ModesOf == [sonarr |-> {"episode", "season_context", "show_batch"},
            lidarr |-> {"album", "artist_context"},
            readarr |-> {"book", "author_context"},
            whisparr_v2 |-> {"episode", "season_context"}]
DefaultModes == [sonarr |-> "episode", lidarr |-> "album", readarr |-> "book",
                 whisparr_v2 |-> "episode"]
ModesFit(f) == f.type \in DOMAIN ModesOf => f.modes[f.type] \in ModesOf[f.type]
Modes(f) == [t \in DOMAIN ModesOf |-> IF t = f.type THEN f.modes[t] ELSE DefaultModes[t]]
InstanceTypes == (DOMAIN ModesOf) \cup {"radarr", "whisparr_v3"}
Orders == {"chronological", "random"}

(* The columns a save writes besides name and connection.                   *)
Policy(f) ==
  [window |-> Ranges(f.spec), cutoff |-> f.cutoff, hot |-> f.hot, upgrade |-> f.upgrade,
   include |-> Labels(f.include), exclude |-> Labels(f.exclude), modes |-> Modes(f),
   order |-> f.order]

-----------------------------------------------------------------------------
(* The probe.                                                               *)

Answers(r, key) == r.up /\ r.key = key

(* What the app calls itself, if it does, against the type chosen; the two  *)
(* Whisparrs share a name and differ by major version, and an app that is   *)
(* not known, or says nothing, is taken for what the form says.             *)
KnownApps == {"radarr", "sonarr", "lidarr", "readarr"}
Mismatch(r, type) ==
  \/ r.app = "whisparr" /\ r.major >= 3 /\ type = "whisparr_v2"
  \/ r.app = "whisparr" /\ r.major \in 1..2 /\ type = "whisparr_v3"
  \/ r.app \in KnownApps /\ r.app # type

-----------------------------------------------------------------------------
NoRow == [kind |-> "none"]
Row(id) == table[id].kind = "row"
Free == [pc |-> "idle"]
Tried(q) == [type |-> q.form.type, url |-> Cleaned(q.form.url), key |-> q.key]
Connection(row) == [type |-> row.type, url |-> row.url, key |-> row.key]

FormInit ==
  /\ table = [i \in Ids |-> NoRow] /\ nextId = 1
  /\ remote \in [Hosts -> Remotes]
  /\ request = [q \in Requests |-> Free] /\ submits = 0

Begin(q, held) ==
  /\ request[q].pc = "idle" /\ submits < MaxSubmits /\ submits' = submits + 1
  /\ request' = [request EXCEPT ![q] = held]

(* submit_create up to the probe; the key is taken as it is.                *)
StartCreate(q, f) ==
  /\ f.type \in InstanceTypes /\ ValidForm(f) /\ f.verified
  /\ Begin(q, [pc |-> "probe", op |-> "create", id |-> 0, form |-> f, key |-> f.key,
               enabled |-> TRUE])
  /\ UNCHANGED <<table, nextId, remote>>

(* An unchanged key is the one the row has now.                             *)
Resolved(id, f) == IF f.key = Unchanged THEN table[id].key ELSE f.key

(* submit_update up to the probe.                                           *)
StartUpdate(q, id, f) ==
  /\ Row(id)
  /\ f.type \in InstanceTypes /\ ValidForm(f) /\ f.verified
  /\ Begin(q, [pc |-> "probe", op |-> "update", id |-> id, form |-> f, key |-> Resolved(id, f),
               enabled |-> table[id].enabled])
  /\ UNCHANGED <<table, nextId, remote>>

(* run_connection_test; only the address is validated.                      *)
StartTest(q, id, f) ==
  /\ f.type \in InstanceTypes /\ ValidUrl(f.url)
  /\ f.key = Unchanged => Row(id)
  /\ Begin(q, [pc |-> "probe", op |-> "test", id |-> id, form |-> f,
               key |-> IF Row(id) THEN Resolved(id, f) ELSE f.key, enabled |-> TRUE])
  /\ UNCHANGED <<table, nextId, remote>>

Passes(q) ==
  LET held == request[q]
      r == remote[held.form.url.host]
  IN Answers(r, held.key) /\ ~Mismatch(r, held.form.type)

ProbePasses(q) ==
  /\ request[q].pc = "probe" /\ Passes(q)
  /\ IF request[q].op = "test" \/ ~ModesFit(request[q].form) \/ request[q].form.order \notin Orders
     THEN request' = [request EXCEPT ![q] = Free]
     ELSE request' = [request EXCEPT ![q].pc = "write"]
  /\ UNCHANGED <<table, nextId, remote, submits>>

ProbeFails(q) ==
  /\ request[q].pc = "probe" /\ ~Passes(q)
  /\ request' = [request EXCEPT ![q] = Free]
  /\ UNCHANGED <<table, nextId, remote, submits>>

(* Mutant: an unchanged key is left as it is in the row.                    *)
KeyLeftAlone(held, row) ==
  [kind |-> "row", type |-> held.form.type, url |-> Cleaned(held.form.url),
   key |-> IF held.form.key = Unchanged THEN row.key ELSE held.key,
   enabled |-> held.enabled, policy |-> Policy(held.form)]
Written(held, row) ==
  [kind |-> "row", type |-> held.form.type, url |-> Cleaned(held.form.url), key |-> held.key,
   enabled |-> held.enabled, policy |-> Policy(held.form)]

Insert(q) ==
  /\ request[q].pc = "write" /\ request[q].op = "create"
  /\ nextId \in Ids
  /\ table' = [table EXCEPT ![nextId] = Written(request[q], NoRow)]
  /\ nextId' = nextId + 1
  /\ request' = [request EXCEPT ![q] = Free]
  /\ UNCHANGED <<remote, submits>>

(* A row that is gone by now is not written; the handler answers 404.       *)
Update(q) ==
  LET id == request[q].id IN
  /\ request[q].pc = "write" /\ request[q].op = "update"
  /\ table' = IF Row(id) THEN [table EXCEPT ![id] = Written(request[q], table[id])] ELSE table
  /\ request' = [request EXCEPT ![q] = Free]
  /\ UNCHANGED <<nextId, remote, submits>>

(* The toggle writes one column, with the value it read an await before.    *)
ToggleReads(q, id) ==
  /\ Row(id)
  /\ Begin(q, [pc |-> "toggle", id |-> id, enabled |-> ~table[id].enabled])
  /\ UNCHANGED <<table, nextId, remote>>

ToggleWrites(q) ==
  LET id == request[q].id IN
  /\ request[q].pc = "toggle"
  /\ table' = IF Row(id) THEN [table EXCEPT ![id].enabled = request[q].enabled] ELSE table
  /\ request' = [request EXCEPT ![q] = Free]
  /\ UNCHANGED <<nextId, remote, submits>>

Delete(id) ==
  /\ Row(id)
  /\ table' = [table EXCEPT ![id] = NoRow]
  /\ UNCHANGED <<nextId, remote, request, submits>>

(* The *arr at an address stops, comes back, gets another key, or makes     *)
(* way for another app.                                                     *)
RemoteChanges(h, r) ==
  /\ remote[h] # r /\ remote' = [remote EXCEPT ![h] = r]
  /\ UNCHANGED <<table, nextId, request, submits>>

FormNext ==
  \/ \E q \in Requests :
       \/ ProbePasses(q) \/ ProbeFails(q) \/ Insert(q) \/ Update(q) \/ ToggleWrites(q)
       \/ \E f \in Forms : \/ StartCreate(q, f)
                           \/ \E id \in Ids : StartUpdate(q, id, f) \/ StartTest(q, id, f)
       \/ \E id \in Ids : ToggleReads(q, id)
  \/ \E id \in Ids : Delete(id)
  \/ \E h \in Hosts, r \in Remotes : RemoteChanges(h, r)

FormSpec == FormInit /\ [][FormNext]_formVars

-----------------------------------------------------------------------------
FormTypeOK ==
  /\ \A i \in Ids : Row(i) => i < nextId /\ table[i].key # Unchanged
  /\ remote \in [Hosts -> Remotes]
  /\ \A q \in Requests : request[q].pc \in {"idle", "probe", "write", "toggle"}
  /\ submits \in 0..MaxSubmits

(* Whatever other saves, toggles and deletes run meanwhile, and although an *)
(* unchanged key is looked up before a probe that takes seconds: type,      *)
(* address and key enter the table as one combination that an *arr answered *)
(* to with the app the type names, together with controls that passed the   *)
(* validation as a whole (instance_submit.py:428-526).                      *)
VerifiedPair ==
  [][\A i \in Ids :
       (table'[i].kind = "row" /\ (Row(i) => [table[i] EXCEPT !.enabled = TRUE] #
                                              [table'[i] EXCEPT !.enabled = TRUE]))
       => \E q \in Requests : /\ request[q].pc = "write"
                              /\ Tried(request[q]) = Connection(table'[i])
                              /\ ValidForm(request[q].form)
                              /\ table'[i].policy = Policy(request[q].form)]_formVars
=============================================================================
