---- MODULE LoginGuard ----
(***************************************************************************)
(* Login and its brute-force guard: the route of app/api/auth_routes.py,   *)
(* the guard's records of app/auth/brute_force.py, AuthService and the     *)
(* tokens of app/auth/security.py, and get_current_user of                 *)
(* app/auth/dependencies.py, which every protected route depends on.       *)
(* Requests run in threads of one process; the guard is in its memory.     *)
(***************************************************************************)
EXTENDS Integers, Sequences, FiniteSets

CONSTANTS
  Users,           \* usernames that have a row
  Strangers,       \* usernames that have none
  Clients,         \* source addresses, hashed
  Requesters,      \* request threads
  MaxFailures, FailureWindow, Lockout,   \* auth_bruteforce_*
  TokenLife,       \* jwt_expires_minutes
  Auths,           \* settings to start from: [enabled, secret, guard]
  MaxTime, MaxLoginRestarts, MaxTokens   \* bounds of the exploration

ASSUME LoginAssumption ==
  /\ MaxFailures \in Nat \ {0} /\ FailureWindow \in Nat /\ Lockout \in Nat /\ TokenLife \in Nat
  /\ MaxTime \in Nat /\ MaxLoginRestarts \in Nat
  \* validate_auth_settings: with auth enabled there is a secret.
  /\ \A a \in Auths : a.enabled => a.secret

VARIABLES
  now,             \* time.monotonic(), and the wall clock
  rec,             \* _records: key |-> [count, start, until]
  req,             \* what each thread has in hand
  active,          \* users.is_active of the committed rows
  tokens,          \* tokens handed out
  auth, epoch,     \* settings; the process that holds the ephemeral secret
  auditLog,        \* committed rows of login_audit_logs
  fails, inLock, deactivated   \* history

loginVars == <<now, rec, req, active, tokens, auth, epoch, auditLog,
               fails, inLock, deactivated>>

GuardKeys == (Users \cup Strangers) \X Clients
Fresh == [count |-> 0, start |-> 0, until |-> 0]
Free == [pc |-> "free"]

LoginInit ==
  /\ now = 0 /\ epoch = 0
  /\ rec = [k \in GuardKeys |-> Fresh]
  /\ req = [t \in Requesters |-> Free]
  /\ active = Users
  /\ tokens = {}
  /\ auth \in Auths
  /\ auditLog = <<>>
  /\ deactivated = [u \in Users |-> -1]
  /\ fails = [k \in GuardKeys |-> <<>>]
  /\ inLock = [k \in GuardKeys |-> 0]

----
\* The clock readings of the guard are one line above its lock and taken with
\* it here; "at" is when the user's row was read.
Arrive(t, key, right) ==
  /\ req[t].pc = "free"
  /\ right => Cardinality(tokens) < MaxTokens
  /\ req' = [req EXCEPT ![t] =
       [pc |-> IF auth.guard THEN "check" ELSE "lookup", key |-> key, right |-> right,
        at |-> 0, rows |-> <<>>]]
  /\ UNCHANGED <<now, rec, active, tokens, auth, epoch, auditLog, fails,
                 inLock, deactivated>>

Goes(t, pc, row) ==
  req' = [req EXCEPT ![t].pc = pc, ![t].at = IF pc = "issue" THEN now ELSE 0,
                     ![t].rows = IF row = "-" THEN @ ELSE Append(@, row)]
OnlyRequest == UNCHANGED <<now, rec, active, tokens, auth, epoch, auditLog,
                           fails, inLock, deactivated>>

\* check_allowed: a locked key is answered without a look at the database.
CheckAllowed(t) ==
  /\ req[t].pc = "check"
  /\ IF rec[req[t].key].until > now
     THEN Goes(t, "answer", "LOCKOUT_REJECTED") ELSE Goes(t, "lookup", "-")
  /\ OnlyRequest

\* Mutant: is_active is not looked at.
LookupInactive(t) ==
  /\ req[t].pc = "lookup"
  /\ IF req[t].key[1] \in Users /\ req[t].right
     THEN Goes(t, "issue", "-") ELSE Goes(t, "failed", "LOGIN_FAILED")
  /\ OnlyRequest

\* AuthService.login: the row is read, then the password verified.
Lookup(t) ==
  /\ req[t].pc = "lookup"
  /\ IF req[t].key[1] \in active /\ req[t].right
     THEN Goes(t, "issue", "-") ELSE Goes(t, "failed", "LOGIN_FAILED")
  /\ OnlyRequest

Issue(t) ==
  /\ req[t].pc = "issue"
  /\ tokens' = tokens \cup {[user |-> req[t].key[1], exp |-> now + TokenLife,
                             epoch |-> IF auth.secret THEN -1 ELSE epoch,
                             looked |-> req[t].at]}
  /\ Goes(t, "succeeded", "LOGIN_SUCCESS")
  /\ UNCHANGED <<now, rec, active, auth, epoch, auditLog, fails, inLock,
                 deactivated>>

\* record_failure: the window starts again when it is over and no lock holds.
AfterFailure(r, at) ==
  LET over == r.until <= at /\ at - r.start > FailureWindow
      n == (IF over THEN 0 ELSE r.count) + 1
  IN [count |-> n, start |-> IF over THEN at ELSE r.start,
      until |-> IF n >= MaxFailures THEN at + Lockout ELSE r.until]

RecordFailure(t) ==
  /\ req[t].pc = "failed"
  /\ LET k == req[t].key IN
     IF auth.guard
     THEN /\ rec' = [rec EXCEPT ![k] = AfterFailure(@, now)]
          /\ fails' = [fails EXCEPT ![k] = Append(@, now)]
          /\ inLock' = [inLock EXCEPT ![k] = IF rec[k].until > now THEN @ + 1 ELSE 0]
     ELSE UNCHANGED <<rec, fails, inLock>>
  /\ Goes(t, "answer", "-")
  /\ UNCHANGED <<now, active, tokens, auth, epoch, auditLog, deactivated>>

\* Mutant: the count survives a success.
RecordSuccessKeeping(t) ==
  /\ req[t].pc = "succeeded"
  /\ LET k == req[t].key IN
     IF auth.guard
     THEN /\ rec' = rec
          /\ fails' = [fails EXCEPT ![k] = <<>>]
          /\ inLock' = [inLock EXCEPT ![k] = 0]
     ELSE UNCHANGED <<rec, fails, inLock>>
  /\ Goes(t, "answer", "-")
  /\ UNCHANGED <<now, active, tokens, auth, epoch, auditLog, deactivated>>

\* record_success: the key's record goes, a lock that others caused included.
RecordSuccess(t) ==
  /\ req[t].pc = "succeeded"
  /\ LET k == req[t].key IN
     IF auth.guard
     THEN /\ rec' = [rec EXCEPT ![k] = Fresh]
          /\ fails' = [fails EXCEPT ![k] = <<>>]
          /\ inLock' = [inLock EXCEPT ![k] = 0]
     ELSE UNCHANGED <<rec, fails, inLock>>
  /\ Goes(t, "answer", "-")
  /\ UNCHANGED <<now, active, tokens, auth, epoch, auditLog, deactivated>>

\* The response is sent and get_session closes the session: nothing on this
\* path commits, and closing rolls the audit rows back.
Answer(t) ==
  /\ req[t].pc = "answer"
  /\ req' = [req EXCEPT ![t] = Free]
  /\ UNCHANGED <<now, rec, active, tokens, auth, epoch, auditLog, fails, inLock,
                 deactivated>>

----
\* JwtIssuer.decode: signed by this process's secret and not expired.
Decodes(tk) == tk.epoch \in {-1, epoch} /\ tk.exp > now

\* get_current_user: without auth everybody is user 1, with it the token says.
Identity(tk) == IF auth.enabled THEN [user |-> tk.user, via |-> "token"]
                ELSE [user |-> 1, via |-> "auth_disabled_fallback"]
Allowed(tk) == auth.enabled => Decodes(tk)

\* /api/auth/me alone looks the user up again.
MeAllowed(tk) == Allowed(tk) /\ (auth.enabled => Identity(tk).user \in active)

\* /api/auth/logout: a row that is not committed either; the token stays good.
Logout(t, tk) ==
  /\ req[t].pc = "free" /\ Allowed(tk)
  /\ req' = [req EXCEPT ![t] = [pc |-> "answer", key |-> <<tk.user, "-">>, right |-> TRUE,
                                at |-> 0, rows |-> <<"LOGOUT">>]]
  /\ OnlyRequest

\* UserRepository.deactivate, from an operator's shell.
Deactivate(u) ==
  /\ u \in active
  /\ active' = active \ {u}
  /\ deactivated' = [deactivated EXCEPT ![u] = now]
  /\ UNCHANGED <<now, rec, req, tokens, auth, epoch, auditLog, fails, inLock>>

\* Another process: no records, no requests, another ephemeral secret.
LoginRestart ==
  /\ epoch < MaxLoginRestarts /\ epoch' = epoch + 1
  /\ rec' = [k \in GuardKeys |-> Fresh]
  /\ req' = [t \in Requesters |-> Free]
  /\ fails' = [k \in GuardKeys |-> <<>>]
  /\ inLock' = [k \in GuardKeys |-> 0]
  /\ UNCHANGED <<now, active, tokens, auth, auditLog, deactivated>>

Tick == /\ now < MaxTime /\ now' = now + 1
        /\ UNCHANGED <<rec, req, active, tokens, auth, epoch, auditLog,
                       fails, inLock, deactivated>>

Serve(t) == \/ CheckAllowed(t) \/ Lookup(t) \/ Issue(t)
            \/ RecordFailure(t) \/ RecordSuccess(t) \/ Answer(t)

LoginNext ==
  \/ \E t \in Requesters :
       Serve(t) \/ \E key \in GuardKeys, right \in BOOLEAN : Arrive(t, key, right)
  \/ \E t \in Requesters, tk \in tokens : Logout(t, tk)
  \/ \E u \in Users : Deactivate(u)
  \/ LoginRestart \/ Tick

LoginSpec == LoginInit /\ [][LoginNext]_loginVars

----
LoginTypeOK ==
  /\ now \in 0..MaxTime /\ epoch \in 0..MaxLoginRestarts
  /\ rec \in [GuardKeys -> [count : Nat, start : Nat, until : Nat]]
  /\ active \subseteq Users
  /\ \A tk \in tokens : tk.user \in Users /\ tk.exp <= now + TokenLife
  /\ \A t \in Requesters : req[t].pc \in {"free", "check", "lookup", "issue", "failed",
                                          "succeeded", "answer"}

(***************************************************************************)
(* How many wrong passwords a key gets to try within any FailureWindow     *)
(* seconds, however its threads interleave: one short of the threshold at  *)
(* the end of a counting window, the threshold at the start of the next,   *)
(* and the requests that had passed the check when the lock closed.  For a *)
(* lockout that outlasts the window (by default 900 and 300 seconds): the  *)
(* end of a shorter one lets the next requests in with the count still at  *)
(* the threshold, and each of them may fail once more.                     *)
(***************************************************************************)
GuessesBounded ==
  \A k \in GuardKeys : \A i \in DOMAIN fails[k] :
    Cardinality({j \in DOMAIN fails[k] : /\ fails[k][j] >= fails[k][i]
                                         /\ fails[k][j] <= fails[k][i] + FailureWindow})
      <= 2 * (MaxFailures - 1) + Cardinality(Requesters)

(***************************************************************************)
(* While a key is locked only the requests that were past the check can    *)
(* still fail, and so prolong the lock; the lock itself does not let new   *)
(* ones in.                                                                *)
(***************************************************************************)
LockAdmitsNobody == \A k \in GuardKeys : inLock[k] <= Cardinality(Requesters) - 1

(***************************************************************************)
(* Nobody is locked out who has not failed often enough since the last     *)
(* success, and no lock lasts longer than Lockout from now.                *)
(***************************************************************************)
LockIsDeserved ==
  \A k \in GuardKeys : rec[k].until > now =>
    /\ Len(fails[k]) >= MaxFailures
    /\ rec[k].until <= now + Lockout

\* The guard does what it is for, and no more: guesses are few, a lock is a
\* lock, and only who has failed is locked out.
GuardHolds == GuessesBounded /\ LockAdmitsNobody /\ LockIsDeserved

(***************************************************************************)
(* A deactivated user is served at most until the tokens expire that were  *)
(* asked for while the account was active: get_current_user never looks    *)
(* at the row, so that this is all that ends the access.                   *)
(***************************************************************************)
AccessEndsWithTheToken ==
  \A tk \in tokens :
    auth.enabled /\ Allowed(tk) /\ tk.user \notin active =>
      tk.looked <= deactivated[tk.user] /\ ~MeAllowed(tk)

(***************************************************************************)
(* "Every attempt is recorded in LoginAuditLog" (API_SPEC.md): when a      *)
(* request is answered its row is committed.                               *)
(***************************************************************************)
AttemptsAreRecorded ==
  [][\A t \in Requesters :
       Answer(t) => Len(auditLog') = Len(auditLog) + Len(req[t].rows)]_loginVars
====
