---- MODULE Watchlists ----
(***************************************************************************)
(* Watchlists, their items and the user preferences:                       *)
(* app/api/watchlist_routes.py, app/api/preferences_routes.py and their    *)
(* repositories, on the two databases the program runs on.  A request      *)
(* loads what it needs, then writes and commits; PostgreSQL checks foreign *)
(* keys and never gives an id twice, the SQLite connection has foreign     *)
(* keys off, one writer at a time and hands a freed last id out again.     *)
(***************************************************************************)
EXTENDS Integers, FiniteSets

CONSTANTS
  Owners,        \* users
  Names,         \* watchlist names
  Stocks,        \* rows of stocks
  Memos,         \* memos of an item
  Sessions,      \* request threads
  Backends,      \* subset of {"postgres", "sqlite"}
  MaxListId      \* bound of the exploration

ASSUME WatchlistAssumption == Backends \subseteq {"postgres", "sqlite"} /\ MaxListId \in Nat

VARIABLES
  lists,         \* watchlists: id |-> [owner, name, default]
  items,         \* watchlist_items: [list, sym, memo]
  prefs,         \* user_preferences: owner |-> default_watchlist_id, 0 for NULL, -1 no row
  lastId,        \* the id sequence of PostgreSQL
  work,          \* what each request has loaded
  backend

watchVars == <<lists, items, prefs, lastId, work, backend>>

Resting == [op |-> "none", pc |-> "rest"]
ListIds == DOMAIN lists
\* Mutant: the query does not filter by user.
OwnedByAnyone(u) == ListIds

OwnedBy(u) == {i \in ListIds : lists[i].owner = u}
DefaultsOf(u) == {i \in OwnedBy(u) : lists[i].default}
ItemsOf(i) == {x \in items : x.list = i}

WatchInit ==
  /\ lists = <<>> /\ items = {} /\ lastId = 0
  /\ prefs = [u \in Owners |-> -1]
  /\ work = [s \in Sessions |-> Resting]
  /\ backend \in Backends

\* INTEGER PRIMARY KEY without AUTOINCREMENT: one more than the largest in use.
NextId == IF backend = "postgres" THEN lastId + 1
          ELSE IF ListIds = {} THEN 1
          ELSE 1 + (CHOOSE i \in ListIds : \A j \in ListIds : j <= i)

----
\* What the first statements of a request leave in hand: _load_owned_watchlist
\* answers 404 for a list of another user; set_default looks at the loaded row,
\* a delete at the loaded items, the preferences at their row.
Incoming(u, op, list) ==
  [op |-> op, user |-> u, list |-> list, name |-> "-", default |-> FALSE, sym |-> "-",
   memo |-> "-", loaded |-> {}, seen |-> 0, demoted |-> {}, pc |-> "write"]

Promoting(r) == [r EXCEPT !.default = TRUE, !.pc = "demote"]

Creations(u) ==
  LET plain == {[Incoming(u, "create", 0) EXCEPT !.name = n] : n \in Names}
  IN  plain \cup {Promoting(r) : r \in plain}

Patches(u) ==
  LET other == {r \in {[Incoming(u, "patch", i) EXCEPT !.name = n] :
                         i \in OwnedBy(u), n \in {"-"} \cup Names} : r.name # lists[r.list].name}
  IN  {r \in other : r.name # "-"} \cup
      {Promoting(r) : r \in {q \in other : ~lists[q.list].default}}

Deletions(u) == {[Incoming(u, "delete", i) EXCEPT !.loaded = ItemsOf(i)] : i \in OwnedBy(u)}

ForItem(r, x) == [r EXCEPT !.sym = x.sym, !.memo = x.memo]
ItemChanges(u) ==
  {ForItem(Incoming(u, op, x.list), x) :
     op \in {"add", "remove", "memo"}, x \in [list : OwnedBy(u), sym : Stocks, memo : Memos]}

PreferenceCalls(u) ==
  {[r EXCEPT !.seen = prefs[u]] :
     r \in {Incoming(u, "get_prefs", 0)} \cup
           {Incoming(u, "put_prefs", i) : i \in OwnedBy(u) \cup {0}}}

RequestsOf(u) ==
  Creations(u) \cup Patches(u) \cup Deletions(u) \cup ItemChanges(u) \cup PreferenceCalls(u)

Receive(s, u) ==
  /\ work[s] = Resting
  /\ \E r \in RequestsOf(u) : work' = [work EXCEPT ![s] = r]
  /\ UNCHANGED <<lists, items, prefs, lastId, backend>>

\* SQLite admits one transaction that has written.
Writable == backend = "sqlite" => \A s \in Sessions : work[s].pc # "demoted"

\* _clear_default_for_user: the default rows that are committed by now.
Demote(s) ==
  /\ work[s].pc = "demote" /\ Writable
  /\ work' = [work EXCEPT ![s].pc = "demoted", ![s].demoted = DefaultsOf(work[s].user)]
  /\ UNCHANGED <<lists, items, prefs, lastId, backend>>

----
\* The rest of the request up to its commit, or the refusal that rolls back.
Completes(s, ops) ==
  /\ work[s].op \in ops
  /\ work[s].pc \in {"write", "demoted"} /\ (work[s].pc = "write" => Writable)
  /\ work' = [work EXCEPT ![s] = Resting]
  /\ UNCHANGED backend

\* Foreign keys hold of what is written in PostgreSQL.
RefersTo(i) == backend = "postgres" => i \in ListIds
Taken(u, name) == \E i \in OwnedBy(u) : lists[i].name = name

Demoted(s) == [i \in ListIds |-> IF i \in work[s].demoted
                                 THEN [lists[i] EXCEPT !.default = FALSE] ELSE lists[i]]

Refuse == UNCHANGED <<lists, items, prefs, lastId>>

CreateList(s) ==
  /\ Completes(s, {"create"})
  /\ LET w == work[s] IN
     IF Taken(w.user, w.name) THEN Refuse
     ELSE /\ NextId <= MaxListId
          /\ lists' = [i \in ListIds \cup {NextId} |->
                         IF i = NextId
                         THEN [owner |-> w.user, name |-> w.name, default |-> w.default]
                         ELSE Demoted(s)[i]]
          /\ lastId' = NextId
          /\ UNCHANGED <<items, prefs>>

\* The update goes by the id alone; the row may be gone (500) or, where ids
\* come back, be another one.
PatchList(s) ==
  /\ Completes(s, {"patch"})
  /\ LET w == work[s]
         i == w.list
     IN IF i \notin ListIds THEN Refuse
        ELSE IF w.name \notin {"-", lists[i].name} /\ Taken(lists[i].owner, w.name) THEN Refuse
        ELSE /\ lists' = [Demoted(s) EXCEPT
                            ![i].name = IF w.name = "-" THEN @ ELSE w.name,
                            ![i].default = IF w.default THEN TRUE ELSE @]
             /\ UNCHANGED <<items, prefs, lastId>>

\* Mutant: only the items that were loaded are deleted.
DeleteListLoaded(s) ==
  /\ Completes(s, {"delete"})
  /\ LET i == work[s].list IN
     /\ lists' = [j \in ListIds \ {i} |-> lists[j]]
     /\ IF backend = "postgres"
        THEN /\ items' = items \ work[s].loaded
             /\ prefs' = [u \in Owners |-> IF prefs[u] = i THEN 0 ELSE prefs[u]]
        ELSE /\ items' = items \ work[s].loaded
             /\ UNCHANGED prefs
     /\ UNCHANGED lastId

\* The ORM deletes the items it has loaded; the database the others, and it
\* clears the preferences, where foreign keys are on.
DeleteList(s) ==
  /\ Completes(s, {"delete"})
  /\ LET i == work[s].list IN
     /\ lists' = [j \in ListIds \ {i} |-> lists[j]]
     /\ IF backend = "postgres"
        THEN /\ items' = items \ ItemsOf(i)
             /\ prefs' = [u \in Owners |-> IF prefs[u] = i THEN 0 ELSE prefs[u]]
        ELSE /\ items' = items \ work[s].loaded
             /\ UNCHANGED prefs
     /\ UNCHANGED lastId

\* add_item, remove_item and update_memo.
ChangeItem(s) ==
  /\ Completes(s, {"add", "remove", "memo"})
  /\ LET w == work[s]
         same == {x \in ItemsOf(w.list) : x.sym = w.sym}
         new == {[list |-> w.list, sym |-> w.sym, memo |-> w.memo]}
     IN items' = CASE w.op = "add" /\ same = {} /\ RefersTo(w.list) -> items \cup new
                   [] w.op = "remove" -> items \ same
                   [] w.op = "memo" /\ same # {} -> (items \ same) \cup new
                   [] OTHER -> items
  /\ UNCHANGED <<lists, prefs, lastId>>

\* get_or_create_for_user, and the update of a put, which writes only what
\* differs from the loaded row.  Who finds the row inserted by another meanwhile
\* fails on the unique user_id.
ChangePrefs(s) ==
  /\ Completes(s, {"get_prefs", "put_prefs"})
  /\ LET w == work[s]
         late == w.seen = -1 /\ prefs[w.user] # -1
         same == w.seen # -1 /\ (w.op = "get_prefs" \/ w.seen = w.list)
     IN IF same \/ late \/ (w.list # 0 /\ ~RefersTo(w.list)) THEN Refuse
        ELSE /\ prefs' = [prefs EXCEPT ![w.user] = w.list]
             /\ UNCHANGED <<lists, items, lastId>>

WatchNext ==
  \E s \in Sessions :
    \/ \E u \in Owners : Receive(s, u)
    \/ Demote(s)
    \/ CreateList(s) \/ PatchList(s) \/ DeleteList(s) \/ ChangeItem(s) \/ ChangePrefs(s)

WatchSpec == WatchInit /\ [][WatchNext]_watchVars

----
WatchTypeOK ==
  /\ ListIds \subseteq 1..MaxListId /\ lastId \in 0..MaxListId
  /\ \A i \in ListIds : lists[i] \in [owner : Owners, name : Names, default : BOOLEAN]
  /\ items \subseteq [list : 1..MaxListId, sym : Stocks, memo : Memos]
  /\ prefs \in [Owners -> -1..MaxListId]

(***************************************************************************)
(* "At most one watchlist per user has is_default=True" (watchlists.py).   *)
(* A second one appears only where two promotions overlap under row locks: *)
(* the clearing UPDATE does not see the default that another transaction   *)
(* is about to commit.  On SQLite, where the write lock is held from the   *)
(* clearing to the commit, it takes another user's request whose list was  *)
(* deleted meanwhile and whose id has come back.                           *)
(***************************************************************************)
SecondDefaultNeedsARace ==
  [][\A u \in Owners :
       Cardinality(DefaultsOf(u)) <= 1 /\ Cardinality(DefaultsOf(u)') > 1 =>
         \E s \in Sessions : /\ work[s].pc = "demoted" /\ work'[s] = Resting
                             /\ backend = "sqlite" => work[s].user # u]_watchVars

(***************************************************************************)
(* With foreign keys on, whatever the interleaving, the default list of    *)
(* the preferences exists and belongs to the user, and every item has its  *)
(* list.                                                                   *)
(***************************************************************************)
ReferencesHold ==
  backend = "postgres" =>
    /\ \A u \in Owners : prefs[u] > 0 => prefs[u] \in OwnedBy(u)
    /\ \A x \in items : x.list \in ListIds

(***************************************************************************)
(* Cross-user isolation: a watchlist and its items only change by a        *)
(* request of their owner, though the writes go by id and the owner was    *)
(* checked in an earlier statement.  Ids that never come back make it so.  *)
(***************************************************************************)
OnlyOwnersWrite ==
  [][backend = "postgres" =>
       \A i \in ListIds :
         (i \notin DOMAIN lists' \/ lists'[i] # lists[i] \/ {x \in items' : x.list = i} # ItemsOf(i))
           => \E s \in Sessions : work[s].op # "none" /\ work[s].user = lists[i].owner
                                  /\ work'[s] = Resting]_watchVars

\* What a request may do to watchlists that others work on too.
WatchlistsAreKept == OnlyOwnersWrite /\ SecondDefaultNeedsARace
====
