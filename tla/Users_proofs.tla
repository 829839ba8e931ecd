---- MODULE Users_proofs ----
(***************************************************************************)
(* Proofs about what the users of the API meet: LoginGuard, for every set  *)
(* of users, clients and request threads, every threshold, window and      *)
(* lockout, and any number of restarts; and Watchlists, for every set of   *)
(* users, names, stocks and request threads, and any number of lists.  The *)
(* two modules share no variable.                                          *)
(***************************************************************************)
EXTENDS LoginGuard, Watchlists, SumTheorems, FiniteSetTheorems, TLAPS

----
(* LoginGuard. *)

Records == [count : Nat, start : Nat, until : Nat]
ServingStages == {"check", "lookup", "issue", "failed", "succeeded"}
AuditRows == {"LOCKOUT_REJECTED", "LOGIN_FAILED", "LOGIN_SUCCESS", "LOGOUT"}
LogoutKeys == Users \X {"-"}
GuardRequests == [pc : ServingStages, key : GuardKeys, right : BOOLEAN, at : Nat, rows : Seq(AuditRows)]
GuardAnswers == [pc : {"answer"}, key : GuardKeys \cup LogoutKeys, right : BOOLEAN, at : Nat,
            rows : Seq(AuditRows)]

GuardTypeInv ==
  /\ now \in Nat
  /\ rec \in [GuardKeys -> Records]
  /\ req \in [Requesters -> {Free} \cup GuardRequests \cup GuardAnswers]
  /\ active \subseteq Users
  /\ deactivated \in [Users -> Nat \cup {-1}]
  /\ fails \in [GuardKeys -> Seq(Nat)]
  /\ inLock \in [GuardKeys -> Nat]

----
LEMMA GuardTypeInit == LoginInit => GuardTypeInv
BY DEF LoginInit, GuardTypeInv, Fresh, Records, Free

\* A request moves on, and keeps its key.
LEMMA GoesOn ==
  ASSUME GuardTypeInv, NEW t \in Requesters, req[t].pc \in ServingStages,
         NEW pc \in ServingStages \cup {"answer"}, NEW row \in AuditRows \cup {"-"}, Goes(t, pc, row)
  PROVE  /\ req' \in [Requesters -> {Free} \cup GuardRequests \cup GuardAnswers]
         /\ req[t] \in GuardRequests
         /\ req'[t].pc = pc /\ req'[t].key = req[t].key
         /\ req'[t].at = IF pc = "issue" THEN now ELSE 0
         /\ \A u \in Requesters \ {t} : req'[u] = req[u]
<1>1. req[t] \in GuardRequests
  <2>1. req[t] \in {Free} \cup GuardRequests \cup GuardAnswers
    BY DEF GuardTypeInv
  <2>2. Free.pc = "free" /\ \A r \in GuardAnswers : r.pc = "answer"
    BY DEF Free, GuardAnswers
  <2>. QED BY <2>1, <2>2 DEF ServingStages
<1>. DEFINE rows == IF row = "-" THEN req[t].rows ELSE Append(req[t].rows, row)
            at == IF pc = "issue" THEN now ELSE 0
            moved == [req[t] EXCEPT !.pc = pc, !.at = at, !.rows = rows]
<1>2. rows \in Seq(AuditRows) /\ at \in Nat
  <2>1. row # "-" => row \in AuditRows
    OBVIOUS
  <2>2. req[t].rows \in Seq(AuditRows)
    BY <1>1 DEF GuardRequests
  <2>. QED BY <2>1, <2>2 DEF GuardTypeInv
<1>3. req' = [req EXCEPT ![t] = moved]
  BY DEF Goes
<1>4. moved \in GuardRequests \cup GuardAnswers /\ moved.pc = pc /\ moved.key = req[t].key /\ moved.at = at
  <2>. HIDE DEF rows, at
  <2>. QED BY <1>1, <1>2 DEF GuardRequests, GuardAnswers
<1>. HIDE DEF moved
<1>. QED BY <1>1, <1>3, <1>4 DEF GuardTypeInv

\* The record of a key after one more failure.
LEMMA FailureTyped ==
  ASSUME NEW r \in Records, NEW at \in Nat
  PROVE  AfterFailure(r, at) \in Records
BY LoginAssumption DEF AfterFailure, Records

LEMMA ServeTyped ==
  ASSUME GuardTypeInv, NEW t \in Requesters, Serve(t)
  PROVE  /\ GuardTypeInv'
         /\ \A u \in Requesters \ {t} : req'[u] = req[u]
         /\ req[t] \in GuardRequests \cup GuardAnswers
<1>. DEFINE Typed == req' \in [Requesters -> {Free} \cup GuardRequests \cup GuardAnswers]
            Alone == \A u \in Requesters \ {t} : req'[u] = req[u]
<1>1. CASE CheckAllowed(t)
  <2>1. Goes(t, "answer", "LOCKOUT_REJECTED") \/ Goes(t, "lookup", "-")
    BY <1>1 DEF CheckAllowed
  <2>2. Typed /\ Alone /\ req[t] \in GuardRequests
    BY <1>1, <2>1, GoesOn DEF CheckAllowed, ServingStages, AuditRows
  <2>. QED BY <1>1, <2>2 DEF CheckAllowed, OnlyRequest, GuardTypeInv
<1>2. CASE Lookup(t)
  <2>1. Goes(t, "issue", "-") \/ Goes(t, "failed", "LOGIN_FAILED")
    BY <1>2 DEF Lookup
  <2>2. Typed /\ Alone /\ req[t] \in GuardRequests
    BY <1>2, <2>1, GoesOn DEF Lookup, ServingStages, AuditRows
  <2>. QED BY <1>2, <2>2 DEF Lookup, OnlyRequest, GuardTypeInv
<1>3. CASE Issue(t)
  <2>1. Typed /\ Alone /\ req[t] \in GuardRequests
    BY <1>3, GoesOn DEF Issue, ServingStages, AuditRows
  <2>. QED BY <1>3, <2>1 DEF Issue, GuardTypeInv
<1>4. CASE RecordFailure(t)
  <2>1. Typed /\ Alone /\ req[t] \in GuardRequests
    BY <1>4, GoesOn DEF RecordFailure, ServingStages, AuditRows
  <2>2. req[t].key \in GuardKeys
    BY <2>1 DEF GuardRequests
  <2>3. rec[req[t].key] \in Records /\ AfterFailure(rec[req[t].key], now) \in Records
    BY <2>2, FailureTyped DEF GuardTypeInv
  <2>4. rec' \in [GuardKeys -> Records]
    BY <1>4, <2>2, <2>3 DEF RecordFailure, GuardTypeInv
  <2>5. fails' \in [GuardKeys -> Seq(Nat)] /\ inLock' \in [GuardKeys -> Nat]
    <3>. DEFINE k == req[t].key
    <3>1. Append(fails[k], now) \in Seq(Nat) /\ inLock[k] + 1 \in Nat
      BY <2>2 DEF GuardTypeInv
    <3>2. \/ UNCHANGED <<fails, inLock>>
          \/ /\ fails' = [fails EXCEPT ![k] = Append(fails[k], now)]
             /\ inLock' = [inLock EXCEPT ![k] = inLock[k] + 1]
          \/ /\ fails' = [fails EXCEPT ![k] = Append(fails[k], now)]
             /\ inLock' = [inLock EXCEPT ![k] = 0]
      BY <1>4 DEF RecordFailure
    <3>3. fails \in [GuardKeys -> Seq(Nat)] /\ inLock \in [GuardKeys -> Nat]
      BY DEF GuardTypeInv
    <3>4. CASE UNCHANGED <<fails, inLock>>
      BY <3>3, <3>4
    <3>5. CASE fails' = [fails EXCEPT ![k] = Append(fails[k], now)]
      <4>1. fails' \in [GuardKeys -> Seq(Nat)]
        BY <3>1, <3>3, <3>5
      <4>2. inLock' \in [GuardKeys -> Nat]
        BY <3>1, <3>2, <3>3
      <4>. QED BY <4>1, <4>2
    <3>. QED BY <3>2, <3>4, <3>5
  <2>. QED BY <1>4, <2>1, <2>4, <2>5 DEF RecordFailure, GuardTypeInv
<1>5. CASE RecordSuccess(t)
  <2>1. Typed /\ Alone /\ req[t] \in GuardRequests
    BY <1>5, GoesOn DEF RecordSuccess, ServingStages, AuditRows
  <2>2. Fresh \in Records /\ <<>> \in Seq(Nat)
    BY DEF Fresh, Records
  <2>3. rec' \in [GuardKeys -> Records]
    BY <1>5, <2>2 DEF RecordSuccess, GuardTypeInv
  <2>4. fails' \in [GuardKeys -> Seq(Nat)] /\ inLock' \in [GuardKeys -> Nat]
    <3>. DEFINE k == req[t].key
    <3>1. \/ UNCHANGED <<fails, inLock>>
          \/ fails' = [fails EXCEPT ![k] = <<>>] /\ inLock' = [inLock EXCEPT ![k] = 0]
      BY <1>5 DEF RecordSuccess
    <3>2. fails \in [GuardKeys -> Seq(Nat)] /\ inLock \in [GuardKeys -> Nat]
      BY DEF GuardTypeInv
    <3>3. fails' \in [GuardKeys -> Seq(Nat)]
      BY <2>2, <3>1, <3>2
    <3>4. inLock' = inLock \/ inLock' = [inLock EXCEPT ![k] = 0]
      BY <3>1
    <3>5. inLock' \in [GuardKeys -> Nat]
      BY <3>2, <3>4
    <3>. QED BY <3>3, <3>5
  <2>. QED BY <1>5, <2>1, <2>3, <2>4 DEF RecordSuccess, GuardTypeInv
<1>6. CASE Answer(t)
  <2>1. Typed /\ Alone /\ req[t] \in GuardRequests \cup GuardAnswers
    BY <1>6 DEF Answer, GuardTypeInv, Free
  <2>. QED BY <1>6, <2>1 DEF Answer, GuardTypeInv
<1>. QED BY <1>1, <1>2, <1>3, <1>4, <1>5, <1>6 DEF Serve

\* The other steps, which serve no request.
LEMMA ElseTyped ==
  ASSUME GuardTypeInv, \A tk \in tokens : tk.user \in Users,
         LoginNext, ~\E t \in Requesters : Serve(t)
  PROVE  GuardTypeInv'
<1>1. ASSUME NEW t \in Requesters, NEW key \in GuardKeys, NEW right \in BOOLEAN,
             Arrive(t, key, right)
      PROVE  GuardTypeInv'
  <2>1. [pc |-> IF auth.guard THEN "check" ELSE "lookup", key |-> key, right |-> right,
         at |-> 0, rows |-> <<>>] \in GuardRequests
    BY DEF GuardRequests, ServingStages
  <2>. QED BY <1>1, <2>1 DEF Arrive, GuardTypeInv
<1>2. ASSUME NEW t \in Requesters, NEW tk \in tokens, Logout(t, tk), tk.user \in Users
      PROVE  GuardTypeInv'
  <2>1. <<tk.user, "-">> \in LogoutKeys
    BY <1>2 DEF LogoutKeys
  <2>2. [pc |-> "answer", key |-> <<tk.user, "-">>, right |-> TRUE, at |-> 0,
         rows |-> <<"LOGOUT">>] \in GuardAnswers
    BY <2>1 DEF GuardAnswers, AuditRows
  <2>. QED BY <1>2, <2>2 DEF Logout, OnlyRequest, GuardTypeInv
<1>3. ASSUME NEW u \in Users, Deactivate(u)
      PROVE  GuardTypeInv'
  BY <1>3 DEF Deactivate, GuardTypeInv
<1>4. ASSUME LoginRestart
      PROVE  GuardTypeInv'
  BY <1>4 DEF LoginRestart, GuardTypeInv, Fresh, Records
<1>5. ASSUME Tick
      PROVE  GuardTypeInv'
  BY <1>5 DEF Tick, GuardTypeInv
<1>. QED BY <1>1, <1>2, <1>3, <1>4, <1>5 DEF LoginNext

----
(***************************************************************************)
(* Tokens of a deactivated user were asked for while the account was       *)
(* active, and so were those about to be issued.                           *)
(***************************************************************************)
Read(u, at) == /\ u \in Users /\ at \in Nat /\ at <= now
               /\ u \notin active => at <= deactivated[u]
StillRead(u, at) == /\ u \in Users /\ at \in Nat /\ at <= now'
                    /\ u \notin active' => at <= deactivated'[u]

AccessInv ==
  /\ GuardTypeInv
  /\ \A t \in Requesters : req[t].pc = "issue" => Read(req[t].key[1], req[t].at)
  /\ \A tk \in tokens : Read(tk.user, tk.looked)

LEMMA AccessInvInit == LoginInit => AccessInv
BY GuardTypeInit DEF LoginInit, AccessInv, Free

\* What was read stays read: a deactivation comes later than what it finds.
LEMMA ReadStays ==
  ASSUME AccessInv, LoginNext
  PROVE  \A u \in Users, at \in Nat : Read(u, at) => StillRead(u, at)
<1>1. CASE UNCHANGED <<now, active, deactivated>>
  BY <1>1 DEF Read, StillRead
<1>2. CASE Tick
  BY <1>2 DEF Tick, Read, StillRead, AccessInv, GuardTypeInv
<1>3. CASE \E v \in Users : Deactivate(v)
  <2>1. PICK v \in Users : Deactivate(v)
    BY <1>3
  <2>2. /\ active' = active \ {v} /\ now' = now
        /\ deactivated' = [deactivated EXCEPT ![v] = now]
    BY <2>1 DEF Deactivate
  <2>. QED BY <2>2 DEF Read, StillRead, AccessInv, GuardTypeInv
<1>. QED BY <1>1, <1>2, <1>3 DEF LoginNext, Serve, CheckAllowed, Lookup, Issue, RecordFailure,
       RecordSuccess, Answer, Arrive, Logout, LoginRestart, OnlyRequest

LEMMA AccessInvNext == AccessInv /\ [LoginNext]_loginVars => AccessInv'
<1>. SUFFICES ASSUME AccessInv, [LoginNext]_loginVars PROVE AccessInv'
  OBVIOUS
<1>1. CASE UNCHANGED loginVars
  BY <1>1 DEF loginVars, AccessInv, GuardTypeInv, Read
<1>2. CASE \E t \in Requesters : Serve(t)
  <2>1. PICK t \in Requesters : Serve(t)
    BY <1>2
  <2>2. /\ GuardTypeInv'
        /\ \A u \in Requesters \ {t} : req'[u] = req[u]
    BY <2>1, ServeTyped DEF AccessInv
  <2>3. LoginNext
    BY <1>2 DEF LoginNext
  <2>4. req'[t].pc = "issue" => StillRead(req[t].key[1], req'[t].at) /\ req'[t].key = req[t].key
    <3>1. CASE Lookup(t)
      <4>1. Goes(t, "issue", "-") \/ Goes(t, "failed", "LOGIN_FAILED")
        BY <3>1 DEF Lookup
      <4>2. /\ req'[t].pc = "issue" => req'[t].at = now
            /\ req'[t].pc \in {"issue", "failed"} /\ req'[t].key = req[t].key
        BY <3>1, <4>1, GoesOn DEF Lookup, ServingStages, AuditRows, AccessInv
      <4>3. req'[t].pc = "issue" => req[t].key[1] \in active
        BY <3>1, <4>1, GoesOn DEF Lookup, ServingStages, AuditRows, AccessInv
      <4>4. UNCHANGED <<now, active, deactivated>>
        BY <3>1 DEF Lookup, OnlyRequest
      <4>. QED BY <4>2, <4>3, <4>4 DEF StillRead, AccessInv, GuardTypeInv
    <3>2. CASE CheckAllowed(t)
      BY <3>2, GoesOn DEF CheckAllowed, ServingStages, AuditRows, AccessInv
    <3>3. CASE Issue(t) \/ RecordFailure(t) \/ RecordSuccess(t)
      BY <3>3, GoesOn DEF Issue, RecordFailure, RecordSuccess, ServingStages, AuditRows, AccessInv
    <3>4. CASE Answer(t)
      BY <3>4 DEF Answer, Free, AccessInv, GuardTypeInv
    <3>. QED BY <2>1, <3>1, <3>2, <3>3, <3>4 DEF Serve
  <2>5. \A u \in Requesters : req'[u].pc = "issue" => StillRead(req'[u].key[1], req'[u].at)
    <3>1. ASSUME NEW u \in Requesters \ {t}, req'[u].pc = "issue"
          PROVE  StillRead(req'[u].key[1], req'[u].at)
      <4>1. req'[u] = req[u] /\ Read(req[u].key[1], req[u].at)
        BY <2>2, <3>1 DEF AccessInv
      <4>. QED BY <2>3, <4>1, ReadStays DEF Read
    <3>. QED BY <2>4, <3>1
  <2>6. \A tk \in tokens' : StillRead(tk.user, tk.looked)
    <3>1. \A tk \in tokens : StillRead(tk.user, tk.looked)
      BY <2>3, ReadStays DEF AccessInv, Read
    <3>2. CASE Issue(t)
      <4>1. StillRead(req[t].key[1], req[t].at)
        BY <2>3, <3>2, ReadStays DEF Issue, AccessInv, Read
      <4>2. tokens' = tokens \cup {[user |-> req[t].key[1], exp |-> now + TokenLife,
                                    epoch |-> IF auth.secret THEN -1 ELSE epoch,
                                    looked |-> req[t].at]}
        BY <3>2 DEF Issue
      <4>. QED BY <3>1, <4>1, <4>2
    <3>3. CASE ~Issue(t)
      <4>1. tokens' = tokens
        BY <2>1, <3>3 DEF Serve, CheckAllowed, Lookup, RecordFailure, RecordSuccess, Answer,
          OnlyRequest
      <4>. QED BY <3>1, <4>1
    <3>. QED BY <3>2, <3>3
  <2>. QED BY <2>2, <2>5, <2>6 DEF AccessInv, Read, StillRead
<1>3. CASE LoginNext /\ ~\E t \in Requesters : Serve(t)
  <2>1. GuardTypeInv'
    BY <1>3, ElseTyped DEF AccessInv, Read
  <2>2. tokens' = tokens
    BY <1>3 DEF LoginNext, Arrive, Logout, Deactivate, LoginRestart, Tick, OnlyRequest
  <2>3. \A u \in Requesters : req'[u].pc = "issue" => req'[u] = req[u]
    <3>1. GuardTypeInv
      BY DEF AccessInv
    <3>. QED BY <1>3, <3>1 DEF LoginNext, Arrive, Logout, Deactivate, LoginRestart, Tick, OnlyRequest,
           GuardTypeInv, Free
  <2>. QED BY <1>3, <2>1, <2>2, <2>3, ReadStays DEF AccessInv, Read, StillRead
<1>. QED BY <1>1, <1>2, <1>3

\* A deactivated user is served only on tokens asked for before, though no route
\* but /api/auth/me looks at the user's row again.
THEOREM AccessEnds == LoginSpec => []AccessEndsWithTheToken
<1>1. AccessInv => AccessEndsWithTheToken
  BY DEF AccessInv, Read, AccessEndsWithTheToken, MeAllowed, Identity
<1>. QED BY <1>1, AccessInvInit, AccessInvNext, PTL DEF LoginSpec

----
(***************************************************************************)
(* A lock counts the failures that led to it, and the requests that passed *)
(* the check before it closed are all that can still fail behind it.       *)
(***************************************************************************)
Locked(k) == rec[k].until > now
Past(k) == {t \in Requesters : req[t].pc \in {"lookup", "failed"} /\ req[t].key = k}
Others == Cardinality(Requesters) - 1

LockInv ==
  /\ GuardTypeInv
  /\ ~auth.guard => \A k \in GuardKeys : rec[k] = Fresh
  /\ \A k \in GuardKeys : rec[k].count <= Len(fails[k])
  /\ LockIsDeserved
  /\ \A k \in GuardKeys : inLock[k] <= Others
  /\ \A k \in GuardKeys : Locked(k) => inLock[k] + Cardinality(Past(k)) <= Others

\* Threads behind the check are threads.
LEMMA PastFinite ==
  ASSUME IsFiniteSet(Requesters), Requesters # {}
  PROVE  /\ Others \in Nat
         /\ \A k : IsFiniteSet(Past(k)) /\ Cardinality(Past(k)) \in Nat
         /\ \A k : \A T \in SUBSET Past(k) : IsFiniteSet(T) /\ Cardinality(T) <= Cardinality(Past(k))
                                             /\ Cardinality(T) \in Nat
         /\ \A t \in Requesters : Cardinality(Requesters \ {t}) = Others
<1>1. Cardinality(Requesters) \in Nat /\ Cardinality(Requesters) # 0
  BY FS_CardinalityType, FS_EmptySet
<1>2. \A k : IsFiniteSet(Past(k)) /\ Cardinality(Past(k)) \in Nat
  <2>1. \A k : Past(k) \in SUBSET Requesters
    BY DEF Past
  <2>. QED BY <2>1, FS_Subset, FS_CardinalityType
<1>3. \A k : \A T \in SUBSET Past(k) : IsFiniteSet(T) /\ Cardinality(T) <= Cardinality(Past(k))
                                       /\ Cardinality(T) \in Nat
  BY <1>2, FS_Subset, FS_CardinalityType
<1>4. \A t \in Requesters : Cardinality(Requesters \ {t}) = Cardinality(Requesters) - 1
  BY FS_RemoveElement
<1>. QED BY <1>1, <1>2, <1>3, <1>4 DEF Others

LEMMA LockInvInit ==
  ASSUME IsFiniteSet(Requesters), Requesters # {}, LoginInit
  PROVE  LockInv
<1>1. GuardTypeInv
  BY GuardTypeInit
<1>2. \A k \in GuardKeys : /\ rec[k] = Fresh /\ fails[k] = <<>> /\ inLock[k] = 0
                           /\ ~Locked(k)
  BY DEF LoginInit, Fresh, Locked
<1>. QED BY <1>1, <1>2, PastFinite DEF LockInv, LockIsDeserved, Locked, Fresh

\* Steps that leave the records alone, and bring nobody with a locked key past
\* the check.
LEMMA QuietStep ==
  ASSUME IsFiniteSet(Requesters), Requesters # {}, LockInv, GuardTypeInv',
         UNCHANGED <<rec, fails, inLock, auth>>, now' = now \/ now' = now + 1,
         \A k \in GuardKeys : Locked(k) => Past(k)' \subseteq Past(k)
  PROVE  /\ ~auth'.guard => \A k \in GuardKeys : rec'[k] = Fresh
         /\ \A k \in GuardKeys : rec'[k].count <= Len(fails'[k])
         /\ LockIsDeserved'
         /\ \A k \in GuardKeys : inLock'[k] <= Others
         /\ \A k \in GuardKeys : Locked(k)' => inLock'[k] + Cardinality(Past(k)') <= Others
<1>1. \A k \in GuardKeys : Locked(k)' => Locked(k)
  BY DEF Locked, LockInv, GuardTypeInv, Records
<1>2. LockIsDeserved'
  <2>1. \A k \in GuardKeys : rec[k].until \in Nat
    BY DEF LockInv, GuardTypeInv, Records
  <2>2. now \in Nat /\ now' \in Nat
    BY DEF LockInv, GuardTypeInv
  <2>. QED BY <2>1, <2>2, LoginAssumption DEF LockIsDeserved, LockInv
<1>3. ASSUME NEW k \in GuardKeys, Locked(k)'
      PROVE  inLock'[k] + Cardinality(Past(k)') <= Others
  <2>1. Past(k)' \in SUBSET Past(k) /\ inLock[k] + Cardinality(Past(k)) <= Others
    BY <1>1, <1>3 DEF LockInv
  <2>2. Cardinality(Past(k)') <= Cardinality(Past(k)) /\ Cardinality(Past(k)') \in Nat
        /\ Cardinality(Past(k)) \in Nat
    BY <2>1, PastFinite
  <2>3. inLock[k] \in Nat /\ Others \in Nat
    BY PastFinite DEF LockInv, GuardTypeInv
  <2>. QED BY <2>1, <2>2, <2>3
<1>. QED BY <1>2, <1>3 DEF LockInv

\* A failure behind a lock uses up one of the requests past the check; a failure
\* that locks leaves at most the other threads there.
LEMMA FailureKeeps ==
  ASSUME IsFiniteSet(Requesters), Requesters # {}, LockInv, GuardTypeInv', auth.guard,
         NEW t \in Requesters, RecordFailure(t)
  PROVE  /\ \A k \in GuardKeys : rec'[k].count <= Len(fails'[k])
         /\ LockIsDeserved'
         /\ \A k \in GuardKeys : inLock'[k] <= Others
         /\ \A k \in GuardKeys : Locked(k)' => inLock'[k] + Cardinality(Past(k)') <= Others
<1>1. /\ req[t] \in GuardRequests /\ req'[t].pc = "answer"
      /\ \A u \in Requesters \ {t} : req'[u] = req[u]
  BY GoesOn DEF RecordFailure, ServingStages, AuditRows, LockInv
<1>. PICK key \in GuardKeys : key = req[t].key
  BY <1>1 DEF GuardRequests
<1>2. key \in GuardKeys /\ t \in Past(key) /\ req[t].pc = "failed"
  BY DEF Past, RecordFailure
<1>3. /\ rec' = [rec EXCEPT ![key] = AfterFailure(rec[key], now)]
      /\ fails' = [fails EXCEPT ![key] = Append(fails[key], now)]
      /\ inLock' = [inLock EXCEPT ![key] = IF Locked(key) THEN inLock[key] + 1 ELSE 0]
      /\ now' = now
  BY DEF RecordFailure, Locked
<1>4. /\ rec \in [GuardKeys -> Records] /\ fails \in [GuardKeys -> Seq(Nat)]
      /\ inLock \in [GuardKeys -> Nat] /\ now \in Nat
  BY DEF LockInv, GuardTypeInv
<1>5. ASSUME NEW k \in GuardKeys, k # key
      PROVE  /\ rec'[k] = rec[k] /\ fails'[k] = fails[k] /\ inLock'[k] = inLock[k]
             /\ Past(k)' = Past(k)
  <2>1. rec'[k] = rec[k] /\ fails'[k] = fails[k] /\ inLock'[k] = inLock[k]
    BY <1>3, <1>4, <1>5
  <2>2. \A u \in Requesters : u \in Past(k)' <=> u \in Past(k)
    BY <1>1, <1>2, <1>5 DEF Past
  <2>. QED BY <2>1, <2>2 DEF Past
<1>6. Past(key)' \subseteq Past(key) \ {t}
  BY <1>1 DEF Past
<1>7. /\ rec'[key] = AfterFailure(rec[key], now)
      /\ fails'[key] = Append(fails[key], now)
      /\ inLock'[key] = IF Locked(key) THEN inLock[key] + 1 ELSE 0
  BY <1>2, <1>3, <1>4
<1>8. Len(fails'[key]) = Len(fails[key]) + 1 /\ Len(fails[key]) \in Nat
  <2>1. fails[key] \in Seq(Nat)
    BY <1>2, <1>4
  <2>. QED BY <1>4, <1>7, <2>1
<1>9. /\ rec[key].count \in Nat /\ rec[key].until \in Nat /\ rec[key].count <= Len(fails[key])
      /\ Locked(key) => Len(fails[key]) >= MaxFailures /\ rec[key].until <= now + Lockout
  <2>1. rec[key] \in Records
    BY <1>2, <1>4
  <2>. QED BY <1>2, <2>1 DEF Records, LockInv, LockIsDeserved, Locked
<1>10. /\ rec'[key].count <= Len(fails'[key])
       /\ Locked(key)' => Len(fails'[key]) >= MaxFailures /\ rec'[key].until <= now + Lockout
  <2>1. /\ rec'[key].count <= rec[key].count + 1 /\ rec'[key].count \in Nat
        /\ \/ rec'[key].until = now + Lockout /\ rec'[key].count >= MaxFailures
           \/ rec'[key].until = rec[key].until
    BY <1>7, <1>9, LoginAssumption DEF AfterFailure
  <2>2. MaxFailures \in Nat /\ Lockout \in Nat
    BY LoginAssumption
  <2>. QED BY <1>3, <1>4, <1>8, <1>9, <2>1, <2>2 DEF Locked
<1>11. /\ inLock'[key] <= Others
       /\ inLock'[key] + Cardinality(Past(key)') <= Others
  <2>1. /\ inLock[key] \in Nat /\ Others \in Nat
        /\ IsFiniteSet(Past(key)) /\ Cardinality(Past(key)) \in Nat
    BY <1>2, <1>4, PastFinite
  <2>2. Past(key) \ {t} \in SUBSET Past(key) /\ IsFiniteSet(Past(key) \ {t})
        /\ Cardinality(Past(key) \ {t}) = Cardinality(Past(key)) - 1
    BY <1>2, <2>1, FS_RemoveElement
  <2>3. /\ Past(key)' \in SUBSET Past(key) /\ Cardinality(Past(key)') \in Nat
        /\ Cardinality(Past(key)') <= Cardinality(Past(key) \ {t})
    <3>1. Past(key)' \in SUBSET (Past(key) \ {t})
      BY <1>6
    <3>. QED BY <2>2, <3>1, FS_Subset, PastFinite
  <2>4. CASE Locked(key)
    <3>1. inLock[key] + Cardinality(Past(key)) <= Others
      BY <1>2, <2>4 DEF LockInv
    <3>. QED BY <1>7, <2>1, <2>2, <2>3, <2>4, <3>1
  <2>5. CASE ~Locked(key)
    <3>1. Past(key) \ {t} \in SUBSET (Requesters \ {t}) /\ IsFiniteSet(Requesters \ {t})
      BY FS_RemoveElement DEF Past
    <3>2. Cardinality(Past(key) \ {t}) <= Others /\ Cardinality(Past(key) \ {t}) \in Nat
      BY <2>2, <3>1, FS_Subset, PastFinite
    <3>. QED BY <1>7, <2>1, <2>3, <2>5, <3>2
  <2>. QED BY <2>4, <2>5
<1>12. \A k \in GuardKeys : rec'[k].count <= Len(fails'[k])
  BY <1>5, <1>10 DEF LockInv
<1>13. LockIsDeserved'
  <2>1. ASSUME NEW k \in GuardKeys, rec'[k].until > now'
        PROVE  Len(fails'[k]) >= MaxFailures /\ rec'[k].until <= now' + Lockout
    <3>1. CASE k = key
      BY <1>3, <1>10, <2>1, <3>1 DEF Locked
    <3>2. CASE k # key
      BY <1>3, <1>5, <2>1, <3>2 DEF LockInv, LockIsDeserved
    <3>. QED BY <3>1, <3>2
  <2>. QED BY <2>1 DEF LockIsDeserved
<1>14. \A k \in GuardKeys : inLock'[k] <= Others
  BY <1>5, <1>11 DEF LockInv
<1>15. ASSUME NEW k \in GuardKeys, Locked(k)'
       PROVE  inLock'[k] + Cardinality(Past(k)') <= Others
  <2>1. CASE k = key
    BY <1>11, <2>1
  <2>2. CASE k # key
    BY <1>3, <1>5, <1>15, <2>2 DEF LockInv, Locked
  <2>. QED BY <2>1, <2>2
<1>. QED BY <1>12, <1>13, <1>14, <1>15

\* A success clears the key's record, a restart clears every record.
LEMMA ClearedKeeps ==
  ASSUME IsFiniteSet(Requesters), Requesters # {}, LockInv, GuardTypeInv', NEW K \in SUBSET GuardKeys,
         now' = now,
         \A k \in K : rec'[k] = Fresh /\ fails'[k] = <<>> /\ inLock'[k] = 0,
         \A k \in GuardKeys \ K : /\ rec'[k] = rec[k] /\ fails'[k] = fails[k]
                                  /\ inLock'[k] = inLock[k] /\ Past(k)' = Past(k)
  PROVE  /\ \A k \in GuardKeys : rec'[k].count <= Len(fails'[k])
         /\ LockIsDeserved'
         /\ \A k \in GuardKeys : inLock'[k] <= Others
         /\ \A k \in GuardKeys : Locked(k)' => inLock'[k] + Cardinality(Past(k)') <= Others
<1>1. \A k \in K : ~Locked(k)' /\ ~(rec'[k].until > now') /\ rec'[k].count = 0 /\ Len(fails'[k]) = 0
  BY DEF Locked, Fresh, LockInv, GuardTypeInv
<1>2. Others \in Nat
  BY PastFinite
<1>3. LockIsDeserved'
  BY <1>1 DEF LockIsDeserved, LockInv
<1>4. \A k \in GuardKeys : Locked(k)' => inLock'[k] + Cardinality(Past(k)') <= Others
  BY <1>1 DEF LockInv, Locked
<1>. QED BY <1>1, <1>2, <1>3, <1>4 DEF LockInv

LEMMA LockInvNext ==
  ASSUME IsFiniteSet(Requesters), Requesters # {}, LockInv, AccessInv, AccessInv',
         [LoginNext]_loginVars
  PROVE  LockInv'
<1>. DEFINE Kept == /\ ~auth'.guard => \A k \in GuardKeys : rec'[k] = Fresh
                    /\ \A k \in GuardKeys : rec'[k].count <= Len(fails'[k])
                    /\ LockIsDeserved'
                    /\ \A k \in GuardKeys : inLock'[k] <= Others
                    /\ \A k \in GuardKeys : Locked(k)' => inLock'[k] + Cardinality(Past(k)') <= Others
<1>. SUFFICES Kept
  BY DEF LockInv, AccessInv
<1>0. GuardTypeInv' /\ GuardTypeInv
  BY DEF AccessInv
<1>1. CASE UNCHANGED loginVars
  <2>1. \A k \in GuardKeys : Past(k)' = Past(k)
    BY <1>1 DEF loginVars, Past
  <2>. QED BY <1>0, <1>1, <2>1, QuietStep DEF loginVars
<1>2. ASSUME NEW t \in Requesters, CheckAllowed(t)
      PROVE  Kept
  <2>1. \/ Goes(t, "answer", "LOCKOUT_REJECTED")
        \/ Goes(t, "lookup", "-") /\ ~Locked(req[t].key)
    BY <1>2 DEF CheckAllowed, Locked
  <2>2. /\ \A u \in Requesters \ {t} : req'[u] = req[u]
        /\ req'[t].pc = "answer" \/ (req'[t].key = req[t].key /\ ~Locked(req[t].key))
    BY <1>0, <1>2, <2>1, GoesOn DEF CheckAllowed, ServingStages, AuditRows
  <2>3. \A k \in GuardKeys : Locked(k) => Past(k)' \subseteq Past(k)
    BY <2>2 DEF Past
  <2>. QED BY <1>0, <1>2, <2>3, QuietStep DEF CheckAllowed, OnlyRequest
<1>3. ASSUME NEW t \in Requesters, Lookup(t) \/ Issue(t)
      PROVE  Kept
  <2>1. \/ Lookup(t) /\ (Goes(t, "issue", "-") \/ Goes(t, "failed", "LOGIN_FAILED"))
        \/ Issue(t) /\ Goes(t, "succeeded", "LOGIN_SUCCESS")
    BY <1>3 DEF Lookup, Issue
  <2>2. /\ \A u \in Requesters \ {t} : req'[u] = req[u]
        /\ req'[t].key = req[t].key
        /\ req'[t].pc \in {"lookup", "failed"} => req[t].pc = "lookup"
    BY <1>0, <2>1, GoesOn DEF Lookup, Issue, ServingStages, AuditRows
  <2>3. \A k \in GuardKeys : Past(k)' \subseteq Past(k)
    BY <2>2 DEF Past
  <2>4. UNCHANGED <<rec, fails, inLock, auth, now>>
    BY <1>3 DEF Lookup, Issue, OnlyRequest
  <2>. QED BY <1>0, <2>3, <2>4, QuietStep
<1>4. ASSUME NEW t \in Requesters, RecordFailure(t) \/ RecordSuccess(t) \/ Answer(t), ~auth.guard
      PROVE  Kept
  <2>1. /\ UNCHANGED <<rec, fails, inLock, auth, now>>
        /\ \A u \in Requesters \ {t} : req'[u] = req[u]
        /\ req'[t].pc \in {"answer", "free"}
    BY <1>0, <1>4, GoesOn DEF RecordFailure, RecordSuccess, Answer, ServingStages, AuditRows, GuardTypeInv, Free
  <2>2. \A k \in GuardKeys : Past(k)' \subseteq Past(k)
    BY <2>1 DEF Past
  <2>. QED BY <1>0, <2>1, <2>2, QuietStep
<1>5. ASSUME NEW t \in Requesters, RecordFailure(t), auth.guard
      PROVE  Kept
  <2>1. auth' = auth
    BY <1>5 DEF RecordFailure
  <2>. QED BY <1>0, <1>5, <2>1, FailureKeeps
<1>6. ASSUME NEW t \in Requesters, RecordSuccess(t), auth.guard
      PROVE  Kept
  <2>1. /\ req[t] \in GuardRequests /\ req'[t].pc = "answer"
        /\ \A u \in Requesters \ {t} : req'[u] = req[u]
    BY <1>0, <1>6, GoesOn DEF RecordSuccess, ServingStages, AuditRows
  <2>. PICK key \in GuardKeys : key = req[t].key
    BY <2>1 DEF GuardRequests
  <2>2. \A k \in GuardKeys : Past(k)' = Past(k)
    <3>1. req[t].pc = "succeeded"
      BY <1>6 DEF RecordSuccess
    <3>. QED BY <2>1, <3>1 DEF Past
  <2>3. /\ rec' = [rec EXCEPT ![key] = Fresh] /\ fails' = [fails EXCEPT ![key] = <<>>]
        /\ inLock' = [inLock EXCEPT ![key] = 0] /\ now' = now /\ auth' = auth
    BY <1>6 DEF RecordSuccess
  <2>4. /\ \A k \in {key} : rec'[k] = Fresh /\ fails'[k] = <<>> /\ inLock'[k] = 0
        /\ \A k \in GuardKeys \ {key} : rec'[k] = rec[k] /\ fails'[k] = fails[k]
                                        /\ inLock'[k] = inLock[k]
    BY <1>0, <2>3 DEF GuardTypeInv
  <2>5. {key} \in SUBSET GuardKeys
    OBVIOUS
  <2>6. auth'.guard
    BY <1>6, <2>3
  <2>7. /\ \A k \in GuardKeys : rec'[k].count <= Len(fails'[k])
        /\ LockIsDeserved'
        /\ \A k \in GuardKeys : inLock'[k] <= Others
        /\ \A k \in GuardKeys : Locked(k)' => inLock'[k] + Cardinality(Past(k)') <= Others
    BY <1>0, <2>2, <2>3, <2>4, <2>5, ClearedKeeps
  <2>. QED BY <2>6, <2>7
<1>7. ASSUME NEW t \in Requesters, Answer(t)
      PROVE  Kept
  <2>1. /\ UNCHANGED <<rec, fails, inLock, auth, now>>
        /\ \A u \in Requesters \ {t} : req'[u] = req[u]
        /\ req'[t].pc = "free"
    BY <1>0, <1>7 DEF Answer, GuardTypeInv, Free
  <2>2. \A k \in GuardKeys : Past(k)' \subseteq Past(k)
    BY <2>1 DEF Past
  <2>. QED BY <1>0, <2>1, <2>2, QuietStep
<1>8. ASSUME NEW t \in Requesters, NEW key \in GuardKeys, NEW right \in BOOLEAN,
             Arrive(t, key, right)
      PROVE  Kept
  <2>1. /\ UNCHANGED <<rec, fails, inLock, auth, now>>
        /\ \A u \in Requesters \ {t} : req'[u] = req[u]
        /\ auth.guard => req'[t].pc = "check"
    BY <1>0, <1>8 DEF Arrive, GuardTypeInv
  <2>2. ~auth.guard => \A k \in GuardKeys : ~Locked(k)
    BY <1>0 DEF LockInv, Locked, Fresh, GuardTypeInv
  <2>3. \A k \in GuardKeys : Locked(k) => Past(k)' \subseteq Past(k)
    BY <2>1, <2>2 DEF Past
  <2>. QED BY <1>0, <2>1, <2>3, QuietStep
<1>9. ASSUME NEW t \in Requesters, NEW tk \in tokens, Logout(t, tk)
      PROVE  Kept
  <2>1. /\ UNCHANGED <<rec, fails, inLock, auth, now>>
        /\ \A u \in Requesters \ {t} : req'[u] = req[u]
        /\ req'[t].pc = "answer"
    BY <1>0, <1>9 DEF Logout, OnlyRequest, GuardTypeInv
  <2>2. \A k \in GuardKeys : Past(k)' \subseteq Past(k)
    BY <2>1 DEF Past
  <2>. QED BY <1>0, <2>1, <2>2, QuietStep
<1>10. ASSUME Tick \/ \E u \in Users : Deactivate(u)
       PROVE  Kept
  <2>1. /\ UNCHANGED <<rec, fails, inLock, auth, req>> /\ now' \in {now, now + 1}
    BY <1>10 DEF Tick, Deactivate
  <2>2. \A k \in GuardKeys : Past(k)' \subseteq Past(k)
    BY <2>1 DEF Past
  <2>. QED BY <1>0, <2>1, <2>2, QuietStep
<1>11. ASSUME LoginRestart
       PROVE  Kept
  <2>1. \A k \in GuardKeys : rec'[k] = Fresh /\ fails'[k] = <<>> /\ inLock'[k] = 0
    BY <1>11 DEF LoginRestart
  <2>2. now' = now
    BY <1>11 DEF LoginRestart
  <2>. QED BY <1>0, <2>1, <2>2, ClearedKeeps
<1>. QED BY <1>1, <1>2, <1>3, <1>4, <1>5, <1>6, <1>7, <1>8, <1>9, <1>10, <1>11
     DEF LoginNext, Serve

\* With finitely many threads, a lock is deserved, and behind it at most the
\* threads that had passed the check before it closed still fail: a locked key
\* lets nobody in, though check_allowed and record_failure are two critical
\* sections.
THEOREM LocksHold ==
  ASSUME IsFiniteSet(Requesters), Requesters # {}
  PROVE  LoginSpec => [](LockAdmitsNobody /\ LockIsDeserved)
<1>1. LoginInit => AccessInv /\ LockInv
  BY AccessInvInit, LockInvInit
<1>2. AccessInv /\ LockInv /\ [LoginNext]_loginVars => (AccessInv /\ LockInv)'
  BY AccessInvNext, LockInvNext
<1>3. LockInv => LockAdmitsNobody /\ LockIsDeserved
  BY DEF LockInv, LockAdmitsNobody, Others
<1>. QED BY <1>1, <1>2, <1>3, PTL DEF LoginSpec

----
(***************************************************************************)
(* Guesses.  The failures of a key come in rounds, one for each time that  *)
(* the count started again.  Those of earlier rounds that are within a     *)
(* window of the start of this one had not locked the key, so that they    *)
(* are fewer than the threshold; those of this round are fewer, too, or    *)
(* the threshold and the failures behind its lock.  Where a lock lasts     *)
(* longer than the window, a window meets the end of one round and the     *)
(* beginning of the next, and no third.                                    *)
(***************************************************************************)
Earlier(r, f) == {j \in DOMAIN f : j <= Len(f) - r.count /\ f[j] + FailureWindow >= r.start}

Rounds(r, f, m, at) ==
  /\ r.count <= Len(f) /\ r.start <= at
  /\ \A j \in DOMAIN f : f[j] <= at
  /\ \A j \in DOMAIN f : j <= Len(f) - r.count => f[j] <= r.start
  /\ Cardinality(Earlier(r, f)) <= MaxFailures - 1
  /\ r.count < MaxFailures => r.until <= at
  /\ r.count >= MaxFailures => /\ m = r.count - MaxFailures /\ r.start + Lockout <= r.until
                               /\ \A j \in DOMAIN f : f[j] + Lockout <= r.until

WindowFrom(f, a) == {j \in DOMAIN f : f[j] >= a /\ f[j] <= a + FailureWindow}
Guesses == 2 * (MaxFailures - 1) + Cardinality(Requesters)
FewGuesses(f) == \A i \in DOMAIN f : Cardinality(WindowFrom(f, f[i])) <= Guesses

GuessInv == \A k \in GuardKeys : Rounds(rec[k], fails[k], inLock[k], now) /\ FewGuesses(fails[k])

LEMMA SomeFailures ==
  ASSUME NEW f \in Seq(Nat), NEW S, S \subseteq DOMAIN f
  PROVE  IsFiniteSet(S) /\ Cardinality(S) \in Nat
<1>1. DOMAIN f = 1 .. Len(f) /\ Len(f) \in Nat
  OBVIOUS
<1>2. IsFiniteSet(DOMAIN f)
  BY <1>1, FS_Interval
<1>3. IsFiniteSet(S)
  BY <1>2, FS_Subset
<1>. QED BY <1>3, FS_CardinalityType

\* Nobody has failed, and nothing happens.
LEMMA RoundsBegin ==
  ASSUME NEW at \in Nat
  PROVE  Rounds(Fresh, <<>>, 0, at) /\ FewGuesses(<<>>)
<1>1. Earlier(Fresh, <<>>) = {}
  BY DEF Earlier
<1>2. Cardinality({}) = 0
  BY FS_EmptySet
<1>3. Fresh.count = 0 /\ Fresh.start = 0 /\ Fresh.until = 0
  BY DEF Fresh
<1>4. DOMAIN <<>> = {} /\ Len(<<>>) = 0
  OBVIOUS
<1>5. FewGuesses(<<>>)
  BY <1>4 DEF FewGuesses
<1>6. Cardinality(Earlier(Fresh, <<>>)) <= MaxFailures - 1
  <2>1. MaxFailures \in Nat \ {0}
    BY LoginAssumption
  <2>. QED BY <1>1, <1>2, <2>1
<1>7. ~(Fresh.count >= MaxFailures) /\ Fresh.until <= at /\ Fresh.start <= at
  <2>1. MaxFailures \in Nat \ {0}
    BY LoginAssumption
  <2>. QED BY <1>3, <2>1
<1>8. Rounds(Fresh, <<>>, 0, at)
  BY <1>3, <1>4, <1>6, <1>7 DEF Rounds
<1>. QED BY <1>5, <1>8

LEMMA RoundsWait ==
  ASSUME NEW r \in Records, NEW f \in Seq(Nat), NEW m \in Nat, NEW at \in Nat, NEW then \in Nat,
         at <= then, Rounds(r, f, m, at)
  PROVE  Rounds(r, f, m, then)
<1>1. r.start \in Nat /\ r.until \in Nat /\ \A j \in DOMAIN f : f[j] \in Nat
  BY DEF Records
<1>. QED BY <1>1 DEF Rounds

\* A window that reaches the start of the round holds only earlier failures
\* near it and failures of the round.
LEMMA WindowMeetsTwoRounds ==
  ASSUME NEW r \in Records, NEW f \in Seq(Nat), NEW m, NEW at, Rounds(r, f, m, at),
         NEW a \in Nat, a + FailureWindow >= r.start
  PROVE  Cardinality(WindowFrom(f, a)) <= (MaxFailures - 1) + r.count
<1>. DEFINE E == Earlier(r, f)
            n == Len(f)
            c == r.count
            T == (n - c) + 1 .. n
            V == WindowFrom(f, a)
<1>1. /\ n \in Nat /\ c \in Nat /\ DOMAIN f = 1 .. n /\ c <= n /\ r.start \in Nat
      /\ \A j \in DOMAIN f : f[j] \in Nat
  BY DEF Records, Rounds
<1>2. V \subseteq E \cup T
  <2>1. ASSUME NEW j \in V, j <= n - c
        PROVE  j \in E
    <3>1. j \in DOMAIN f /\ f[j] \in Nat /\ f[j] >= a
      BY <1>1 DEF WindowFrom
    <3>2. f[j] + FailureWindow >= r.start
      BY <1>1, <3>1, LoginAssumption
    <3>. QED BY <2>1, <3>1, <3>2 DEF Earlier
  <2>2. ASSUME NEW j \in V, ~(j <= n - c)
        PROVE  j \in T
    <3>1. j \in 1 .. n
      BY <1>1 DEF WindowFrom
    <3>. QED BY <1>1, <2>2, <3>1
  <2>. QED BY <2>1, <2>2
<1>3. IsFiniteSet(E) /\ Cardinality(E) \in Nat /\ Cardinality(E) <= MaxFailures - 1
  BY SomeFailures DEF Earlier, Rounds
<1>. HIDE DEF E, n, c, V
<1>4. IsFiniteSet(T) /\ Cardinality(T) = c
  <2>1. /\ (n - c) + 1 \in Int /\ n \in Int
        /\ (IF (n - c) + 1 > n THEN 0 ELSE (n - ((n - c) + 1)) + 1) = c
    BY <1>1
  <2>. HIDE DEF T
  <2>2. IsFiniteSet(T) /\ Cardinality(T) = IF (n - c) + 1 > n THEN 0 ELSE (n - ((n - c) + 1)) + 1
    BY <2>1, FS_Interval DEF T
  <2>. QED BY <2>1, <2>2
<1>. HIDE DEF T
<1>5. /\ IsFiniteSet(E \cup T) /\ Cardinality(E \cap T) \in Nat
      /\ Cardinality(E \cup T) = Cardinality(E) + Cardinality(T) - Cardinality(E \cap T)
  <2>1. IsFiniteSet(E \cap T)
    BY <1>3, FS_Intersection
  <2>. QED BY <1>3, <1>4, <2>1, FS_Union, FS_CardinalityType
<1>6. Cardinality(V) <= Cardinality(E \cup T) /\ IsFiniteSet(V)
  BY <1>2, <1>5, FS_Subset
<1>7. Cardinality(V) \in Nat
  BY <1>6, FS_CardinalityType
<1>8. Cardinality(V) <= (MaxFailures - 1) + c
  BY <1>1, <1>3, <1>4, <1>5, <1>6, <1>7, LoginAssumption
<1>. QED BY <1>8 DEF V, c

\* A failure opens a round or joins the one that is open, and it finds the round
\* locked only behind a lock that still holds.
LEMMA RoundsFail ==
  ASSUME Lockout > FailureWindow, NEW r \in Records, NEW f \in Seq(Nat), NEW m \in Nat,
         NEW at \in Nat, Rounds(r, f, m, at),
         NEW s, s = AfterFailure(r, at), NEW g, g = Append(f, at),
         NEW k, k = IF r.until > at THEN m + 1 ELSE 0
  PROVE  Rounds(s, g, k, at)
<1>. DEFINE n == Len(f)
            c == r.count
            over == r.until <= at /\ at - r.start > FailureWindow
<1>1. /\ n \in Nat /\ c \in Nat /\ r.start \in Nat /\ r.until \in Nat
      /\ MaxFailures \in Nat \ {0} /\ FailureWindow \in Nat /\ Lockout \in Nat
      /\ DOMAIN f = 1 .. n /\ \A j \in DOMAIN f : f[j] \in Nat
  BY LoginAssumption DEF Records
<1>2. /\ c <= n /\ r.start <= at /\ \A j \in DOMAIN f : f[j] <= at
      /\ \A j \in DOMAIN f : j <= n - c => f[j] <= r.start
      /\ Cardinality(Earlier(r, f)) <= MaxFailures - 1
      /\ c < MaxFailures => r.until <= at
      /\ c >= MaxFailures => /\ m = c - MaxFailures /\ r.start + Lockout <= r.until
                             /\ \A j \in DOMAIN f : f[j] + Lockout <= r.until
  BY DEF Rounds
<1>3. /\ DOMAIN g = 1 .. n + 1 /\ Len(g) = n + 1 /\ g[n + 1] = at
      /\ \A j \in DOMAIN f : g[j] = f[j]
  OBVIOUS
<1>4. /\ s.count = (IF over THEN 0 ELSE c) + 1
      /\ s.start = IF over THEN at ELSE r.start
      /\ s.until = IF s.count >= MaxFailures THEN at + Lockout ELSE r.until
  BY DEF AfterFailure
<1>. HIDE DEF n, c, over
<1>5. \A j \in DOMAIN g : g[j] <= at /\ g[j] \in Nat /\ (j \in DOMAIN f \/ j = n + 1)
  BY <1>1, <1>2, <1>3
<1>6. CASE over
  <2>1. /\ s.count = 1 /\ s.start = at /\ Len(g) - s.count = n
        /\ r.until <= at /\ at - r.start > FailureWindow
    BY <1>1, <1>3, <1>4, <1>6 DEF over
  <2>2. Cardinality(Earlier(s, g)) <= MaxFailures - 1
    <3>. DEFINE E == Earlier(s, g)
    <3>1. \A j \in E : j \in 1 .. n /\ f[j] \in Nat /\ f[j] + FailureWindow >= at
      <4>1. \A j \in E : j \in 1 .. n + 1 /\ j <= n /\ g[j] + FailureWindow >= at
        BY <1>3, <2>1 DEF Earlier
      <4>2. \A j \in E : j \in 1 .. n
        BY <1>1, <4>1
      <4>. QED BY <1>1, <1>3, <4>1, <4>2
    <3>2. CASE c >= MaxFailures
      <4>1. \A j \in 1 .. n : f[j] + Lockout <= r.until
        BY <1>1, <1>2, <3>2
      <4>2. ASSUME NEW j \in E PROVE FALSE
        <5>1. f[j] \in Nat /\ f[j] + FailureWindow >= at /\ f[j] + Lockout <= r.until
          BY <3>1, <4>1
        <5>. QED BY <1>1, <2>1, <5>1
      <4>3. E = {}
        BY <4>2
      <4>. QED BY <1>1, <4>3, FS_EmptySet
    <3>3. CASE c < MaxFailures
      <4>. DEFINE T == (n - c) + 1 .. n
      <4>1. E \subseteq T
        <5>1. \A j \in E : ~(j <= n - c)
          BY <1>1, <1>2, <2>1, <3>1
        <5>. QED BY <1>1, <3>1, <5>1
      <4>2. IsFiniteSet(T) /\ Cardinality(T) = c
        <5>1. /\ (n - c) + 1 \in Int /\ n \in Int
              /\ (IF (n - c) + 1 > n THEN 0 ELSE (n - ((n - c) + 1)) + 1) = c
          BY <1>1
        <5>. HIDE DEF T
        <5>2. /\ IsFiniteSet(T)
              /\ Cardinality(T) = IF (n - c) + 1 > n THEN 0 ELSE (n - ((n - c) + 1)) + 1
          BY <5>1, FS_Interval DEF T
        <5>. QED BY <5>1, <5>2
      <4>. HIDE DEF T, E
      <4>3. Cardinality(E) <= c /\ IsFiniteSet(E)
        BY <4>1, <4>2, FS_Subset
      <4>4. Cardinality(E) \in Nat
        BY <4>3, FS_CardinalityType
      <4>5. Cardinality(E) <= MaxFailures - 1
        BY <1>1, <3>3, <4>3, <4>4
      <4>. QED BY <4>5 DEF E
    <3>. QED BY <1>1, <3>2, <3>3
  <2>3. \A j \in DOMAIN g : j <= Len(g) - s.count => g[j] <= s.start
    BY <1>5, <2>1
  <2>4. s.count < MaxFailures => s.until <= at
    BY <1>1, <1>4, <2>1
  <2>5. s.count >= MaxFailures => /\ k = s.count - MaxFailures /\ s.start + Lockout <= s.until
                                  /\ \A j \in DOMAIN g : g[j] + Lockout <= s.until
    BY <1>1, <1>4, <1>5, <2>1
  <2>. QED BY <1>1, <1>3, <1>5, <2>1, <2>2, <2>3, <2>4, <2>5 DEF Rounds
<1>7. CASE ~over
  <2>1. /\ s.count = c + 1 /\ s.start = r.start /\ Len(g) - s.count = n - c
        /\ r.until > at \/ ~(at - r.start > FailureWindow)
    BY <1>1, <1>3, <1>4, <1>7 DEF over
  <2>2. \A j \in DOMAIN g : j <= n - c => j \in DOMAIN f /\ g[j] = f[j]
    <3>1. ~(n + 1 <= n - c)
      BY <1>1
    <3>. QED BY <1>3, <1>5, <3>1
  <2>3. Earlier(s, g) = Earlier(r, f)
    <3>1. DOMAIN f \subseteq DOMAIN g
      BY <1>1, <1>3
    <3>. QED BY <1>3, <2>1, <2>2, <3>1 DEF Earlier, n, c
  <2>4. \A j \in DOMAIN g : j <= Len(g) - s.count => g[j] <= s.start
    BY <1>2, <2>1, <2>2
  <2>5. s.count < MaxFailures => s.until <= at
    BY <1>1, <1>2, <1>4, <2>1
  <2>6. s.count >= MaxFailures => k = s.count - MaxFailures
    <3>1. CASE r.until > at
      BY <1>1, <1>2, <2>1, <3>1
    <3>2. CASE ~(r.until > at)
      <4>1. c < MaxFailures
        BY <1>1, <1>2, <2>1, <3>2
      <4>. QED BY <1>1, <2>1, <3>2, <4>1
    <3>. QED BY <3>1, <3>2
  <2>7. s.count >= MaxFailures => /\ s.start + Lockout <= s.until
                                  /\ \A j \in DOMAIN g : g[j] + Lockout <= s.until
    <3>1. s.count >= MaxFailures => s.until = at + Lockout
      BY <1>4
    <3>2. r.start + Lockout <= at + Lockout /\ \A j \in DOMAIN g : g[j] + Lockout <= at + Lockout
      BY <1>1, <1>2, <1>5
    <3>. QED BY <2>1, <3>1, <3>2
  <2>8. s.count <= Len(g) /\ s.start <= at
    BY <1>1, <1>2, <1>3, <2>1
  <2>. QED BY <1>2, <1>5, <2>3, <2>4, <2>5, <2>6, <2>7, <2>8 DEF Rounds
<1>. QED BY <1>6, <1>7

\* One more failure: the windows that it falls into meet its round; the others
\* stay as they are.
LEMMA GuessesFail ==
  ASSUME IsFiniteSet(Requesters), NEW f \in Seq(Nat), NEW at \in Nat, FewGuesses(f),
         NEW g, g = Append(f, at), NEW s \in Records, NEW k \in Nat, Rounds(s, g, k, at),
         k <= Cardinality(Requesters) - 1
  PROVE  FewGuesses(g)
<1>. DEFINE n == Len(f)
            R == Cardinality(Requesters)
<1>1. /\ n \in Nat /\ R \in Nat /\ s.start \in Nat /\ s.count \in Nat
      /\ MaxFailures \in Nat \ {0} /\ FailureWindow \in Nat
      /\ DOMAIN f = 1 .. n /\ \A j \in DOMAIN f : f[j] \in Nat
  BY LoginAssumption, FS_CardinalityType DEF Records
<1>2. /\ g \in Seq(Nat) /\ DOMAIN g = 1 .. n + 1 /\ g[n + 1] = at
      /\ \A j \in DOMAIN f : g[j] = f[j]
      /\ \A j \in DOMAIN g : g[j] \in Nat
  OBVIOUS
<1>. HIDE DEF n, R
<1>3. s.count <= MaxFailures + (R - 1) /\ s.start <= at
  <2>1. s.start <= at /\ (s.count >= MaxFailures => k = s.count - MaxFailures) /\ k <= R - 1
    BY DEF Rounds, R
  <2>2. s.count < MaxFailures => s.count <= MaxFailures + (R - 1)
    BY <1>1
  <2>. QED BY <1>1, <2>1, <2>2
<1>4. ASSUME NEW i \in DOMAIN g
      PROVE  Cardinality(WindowFrom(g, g[i])) <= Guesses
  <2>1. g[i] \in Nat
    BY <1>2
  <2>2. CASE g[i] + FailureWindow >= s.start
    <3>1. Cardinality(WindowFrom(g, g[i])) <= (MaxFailures - 1) + s.count
      BY <1>2, <2>1, <2>2, WindowMeetsTwoRounds
    <3>2. IsFiniteSet(WindowFrom(g, g[i])) /\ Cardinality(WindowFrom(g, g[i])) \in Nat
      BY <1>2, SomeFailures DEF WindowFrom
    <3>3. Guesses = 2 * (MaxFailures - 1) + R
      BY DEF Guesses, R
    <3>. DEFINE x == Cardinality(WindowFrom(g, g[i]))
                y == s.count
    <3>4. x <= (MaxFailures - 1) + y /\ y <= MaxFailures + (R - 1) /\ x \in Nat /\ y \in Nat
      BY <1>1, <1>3, <3>1, <3>2
    <3>. HIDE DEF x, y
    <3>5. x <= 2 * (MaxFailures - 1) + R
      BY <1>1, <3>4
    <3>. QED BY <3>3, <3>5 DEF x
  <2>3. CASE ~(g[i] + FailureWindow >= s.start)
    <3>1. g[i] + FailureWindow < at
      BY <1>1, <1>3, <2>1, <2>3
    <3>2. i \in DOMAIN f /\ g[i] = f[i]
      <4>1. i # n + 1
        BY <1>1, <1>2, <3>1
      <4>. QED BY <1>1, <1>2, <4>1
    <3>3. WindowFrom(g, g[i]) = WindowFrom(f, f[i])
      <4>1. n + 1 \notin WindowFrom(g, g[i])
        BY <1>1, <1>2, <2>1, <3>1 DEF WindowFrom
      <4>2. DOMAIN g = DOMAIN f \cup {n + 1} /\ n + 1 \notin DOMAIN f
        BY <1>1, <1>2
      <4>. QED BY <1>2, <3>2, <4>1, <4>2 DEF WindowFrom
    <3>. QED BY <3>2, <3>3 DEF FewGuesses
  <2>. QED BY <2>2, <2>3
<1>. QED BY <1>4 DEF FewGuesses

LEMMA GuessInvInit ==
  ASSUME LoginInit
  PROVE  GuessInv
<1>1. /\ now \in Nat
      /\ \A k \in GuardKeys : rec[k] = Fresh /\ fails[k] = <<>> /\ inLock[k] = 0
  BY DEF LoginInit
<1>. QED BY <1>1, RoundsBegin DEF GuessInv

\* Time passes, or nothing happens to the records.
LEMMA QuietGuesses ==
  ASSUME GuessInv, GuardTypeInv, GuardTypeInv', UNCHANGED <<rec, fails, inLock>>, now' = now \/ now' = now + 1
  PROVE  GuessInv'
<1>1. now \in Nat /\ now' \in Nat /\ now <= now'
  BY DEF GuardTypeInv
<1>2. ASSUME NEW k \in GuardKeys
      PROVE  Rounds(rec[k], fails[k], inLock[k], now')
  <2>1. rec[k] \in Records /\ fails[k] \in Seq(Nat) /\ inLock[k] \in Nat
    BY DEF GuardTypeInv
  <2>. QED BY <1>1, <2>1, RoundsWait DEF GuessInv
<1>3. \A k \in GuardKeys : Rounds(rec'[k], fails'[k], inLock'[k], now') /\ FewGuesses(fails'[k])
  BY <1>2 DEF GuessInv
<1>. QED BY <1>3 DEF GuessInv, Rounds, Earlier, FewGuesses, WindowFrom, Guesses

\* The keys of K start afresh.
LEMMA ClearedGuesses ==
  ASSUME GuessInv, GuardTypeInv, NEW K \in SUBSET GuardKeys, now' = now,
         \A k \in K : rec'[k] = Fresh /\ fails'[k] = <<>> /\ inLock'[k] = 0,
         \A k \in GuardKeys \ K : rec'[k] = rec[k] /\ fails'[k] = fails[k] /\ inLock'[k] = inLock[k]
  PROVE  GuessInv'
<1>1. now \in Nat
  BY DEF GuardTypeInv
<1>2. \A k \in GuardKeys : Rounds(rec'[k], fails'[k], inLock'[k], now) /\ FewGuesses(fails'[k])
  BY <1>1, RoundsBegin DEF GuessInv
<1>. QED BY <1>2 DEF GuessInv, Rounds, Earlier, FewGuesses, WindowFrom, Guesses

LEMMA FailureGuesses ==
  ASSUME Lockout > FailureWindow, IsFiniteSet(Requesters), GuessInv, GuardTypeInv, GuardTypeInv',
         LockInv', auth.guard, NEW t \in Requesters, RecordFailure(t)
  PROVE  GuessInv'
<1>1. req[t] \in GuardRequests
  BY GoesOn DEF RecordFailure, ServingStages, AuditRows
<1>. PICK key \in GuardKeys : key = req[t].key
  BY <1>1 DEF GuardRequests
<1>2. /\ rec \in [GuardKeys -> Records] /\ fails \in [GuardKeys -> Seq(Nat)]
      /\ inLock \in [GuardKeys -> Nat] /\ now \in Nat
  BY DEF GuardTypeInv
<1>3. /\ rec' = [rec EXCEPT ![key] = AfterFailure(rec[key], now)]
      /\ fails' = [fails EXCEPT ![key] = Append(fails[key], now)]
      /\ inLock' = [inLock EXCEPT ![key] = IF rec[key].until > now THEN inLock[key] + 1 ELSE 0]
      /\ now' = now
  BY DEF RecordFailure
<1>4. /\ rec'[key] = AfterFailure(rec[key], now) /\ fails'[key] = Append(fails[key], now)
      /\ inLock'[key] = IF rec[key].until > now THEN inLock[key] + 1 ELSE 0
  BY <1>2, <1>3
<1>5. /\ rec[key] \in Records /\ fails[key] \in Seq(Nat) /\ inLock[key] \in Nat
      /\ Rounds(rec[key], fails[key], inLock[key], now) /\ FewGuesses(fails[key])
  BY <1>2 DEF GuessInv
<1>6. Rounds(rec'[key], fails'[key], inLock'[key], now)
  BY <1>2, <1>4, <1>5, RoundsFail
<1>7. rec'[key] \in Records /\ inLock'[key] \in Nat
  BY DEF GuardTypeInv
<1>8. inLock'[key] <= Cardinality(Requesters) - 1
  BY DEF LockInv, Others
<1>9. FewGuesses(fails'[key])
  BY <1>2, <1>4, <1>5, <1>6, <1>7, <1>8, GuessesFail
<1>10. ASSUME NEW k \in GuardKeys, k # key
       PROVE  Rounds(rec'[k], fails'[k], inLock'[k], now) /\ FewGuesses(fails'[k])
  <2>1. rec'[k] = rec[k] /\ fails'[k] = fails[k] /\ inLock'[k] = inLock[k]
    BY <1>2, <1>3, <1>10
  <2>. QED BY <2>1 DEF GuessInv
<1>11. \A k \in GuardKeys : Rounds(rec'[k], fails'[k], inLock'[k], now') /\ FewGuesses(fails'[k])
  BY <1>3, <1>6, <1>9, <1>10
<1>. QED BY <1>11 DEF GuessInv, Rounds, Earlier, FewGuesses, WindowFrom, Guesses

LEMMA GuessInvNext ==
  ASSUME Lockout > FailureWindow, IsFiniteSet(Requesters), GuessInv, AccessInv, AccessInv', LockInv',
         [LoginNext]_loginVars
  PROVE  GuessInv'
<1>0. GuardTypeInv /\ GuardTypeInv'
  BY DEF AccessInv
<1>1. CASE UNCHANGED loginVars
  BY <1>0, <1>1, QuietGuesses DEF loginVars
<1>2. ASSUME NEW t \in Requesters,
             \/ CheckAllowed(t) \/ Lookup(t) \/ Issue(t) \/ Answer(t)
             \/ (RecordFailure(t) \/ RecordSuccess(t)) /\ ~auth.guard
      PROVE  GuessInv'
  <2>1. UNCHANGED <<rec, fails, inLock>> /\ now' = now
    BY <1>2 DEF CheckAllowed, Lookup, Issue, Answer, RecordFailure, RecordSuccess, OnlyRequest
  <2>. QED BY <1>0, <2>1, QuietGuesses
<1>3. ASSUME NEW t \in Requesters, RecordFailure(t), auth.guard
      PROVE  GuessInv'
  BY <1>0, <1>3, FailureGuesses
<1>4. ASSUME NEW t \in Requesters, RecordSuccess(t), auth.guard
      PROVE  GuessInv'
  <2>1. req[t] \in GuardRequests
    BY <1>0, <1>4, GoesOn DEF RecordSuccess, ServingStages, AuditRows
  <2>. PICK key \in GuardKeys : key = req[t].key
    BY <2>1 DEF GuardRequests
  <2>2. /\ rec' = [rec EXCEPT ![key] = Fresh] /\ fails' = [fails EXCEPT ![key] = <<>>]
        /\ inLock' = [inLock EXCEPT ![key] = 0] /\ now' = now
    BY <1>4 DEF RecordSuccess
  <2>3. /\ \A k \in {key} : rec'[k] = Fresh /\ fails'[k] = <<>> /\ inLock'[k] = 0
        /\ \A k \in GuardKeys \ {key} : rec'[k] = rec[k] /\ fails'[k] = fails[k]
                                        /\ inLock'[k] = inLock[k]
    BY <1>0, <2>2 DEF GuardTypeInv
  <2>4. {key} \in SUBSET GuardKeys
    OBVIOUS
  <2>. QED BY <1>0, <2>2, <2>3, <2>4, ClearedGuesses
<1>5. ASSUME \/ \E t \in Requesters, key \in GuardKeys, right \in BOOLEAN : Arrive(t, key, right)
             \/ \E t \in Requesters, tk \in tokens : Logout(t, tk)
             \/ Tick \/ \E u \in Users : Deactivate(u)
      PROVE  GuessInv'
  <2>1. UNCHANGED <<rec, fails, inLock>> /\ (now' = now \/ now' = now + 1)
    BY <1>5 DEF Arrive, Logout, Tick, Deactivate, OnlyRequest
  <2>. QED BY <1>0, <2>1, QuietGuesses
<1>6. ASSUME LoginRestart
      PROVE  GuessInv'
  <2>1. now' = now /\ \A k \in GuardKeys : rec'[k] = Fresh /\ fails'[k] = <<>> /\ inLock'[k] = 0
    BY <1>6 DEF LoginRestart
  <2>2. /\ GuardKeys \in SUBSET GuardKeys
        /\ \A k \in GuardKeys \ GuardKeys : /\ rec'[k] = rec[k] /\ fails'[k] = fails[k]
                                            /\ inLock'[k] = inLock[k]
    OBVIOUS
  <2>. QED BY <1>0, <2>1, <2>2, ClearedGuesses
<1>. QED BY <1>1, <1>2, <1>3, <1>4, <1>5, <1>6 DEF LoginNext, Serve

(***************************************************************************)
(* The guard holds, for every threshold and every finite number of request *)
(* threads, where a lock lasts longer than the window (by default 900 and  *)
(* 300 seconds): within any window a key fails at most twice one short of  *)
(* the threshold and once for each thread, a closed lock lets nobody in,   *)
(* and nobody is locked out who has not earned it.                         *)
(***************************************************************************)
THEOREM GuardAlwaysHolds ==
  ASSUME IsFiniteSet(Requesters), Requesters # {}, Lockout > FailureWindow
  PROVE  LoginSpec => []GuardHolds
<1>1. LoginInit => AccessInv /\ LockInv /\ GuessInv
  BY AccessInvInit, LockInvInit, GuessInvInit
<1>2. AccessInv /\ LockInv /\ GuessInv /\ [LoginNext]_loginVars => (AccessInv /\ LockInv /\ GuessInv)'
  BY AccessInvNext, LockInvNext, GuessInvNext
<1>3. LockInv /\ GuessInv => GuardHolds
  <2>1. ASSUME GuessInv PROVE GuessesBounded
    <3>1. ASSUME NEW k \in GuardKeys, NEW i \in DOMAIN fails[k]
          PROVE  Cardinality(WindowFrom(fails[k], fails[k][i])) <= Guesses
      BY <2>1 DEF GuessInv, FewGuesses
    <3>. QED BY <3>1 DEF GuessesBounded, WindowFrom, Guesses
  <2>2. LockInv => LockAdmitsNobody /\ LockIsDeserved
    BY DEF LockInv, LockAdmitsNobody, Others
  <2>. QED BY <2>1, <2>2 DEF GuardHolds
<1>. QED BY <1>1, <1>2, <1>3, PTL DEF LoginSpec

----
(***************************************************************************)
(* No token outlives its life, and the clock stays within its bounds, for  *)
(* every number of restarts.                                               *)
(***************************************************************************)
\* No token outlives its TokenLife from now, and time and process stay within
\* their bounds.
TokenInv ==
  /\ now \in 0..MaxTime /\ epoch \in 0..MaxLoginRestarts
  /\ \A tk \in tokens : tk.exp \in Nat /\ tk.exp <= now + TokenLife

LEMMA TokenInvInit == LoginInit => TokenInv
BY LoginAssumption DEF LoginInit, TokenInv

LEMMA TokenInvNext == TokenInv /\ [LoginNext]_loginVars => TokenInv'
<1>. SUFFICES ASSUME TokenInv, [LoginNext]_loginVars PROVE TokenInv'
  OBVIOUS
<1>. USE LoginAssumption DEF TokenInv
<1>1. CASE \E t \in Requesters : Issue(t)
  BY <1>1 DEF Issue
<1>2. CASE Tick
  BY <1>2 DEF Tick
<1>3. CASE LoginRestart
  BY <1>3 DEF LoginRestart
<1>4. CASE UNCHANGED <<now, epoch, tokens>>
  BY <1>4
<1>5. \/ \E t \in Requesters : Issue(t)
      \/ Tick \/ LoginRestart \/ UNCHANGED <<now, epoch, tokens>>
  BY DEF LoginNext, loginVars, Serve, CheckAllowed, Lookup, RecordFailure, RecordSuccess, Answer,
     Arrive, Logout, Deactivate, OnlyRequest
<1>. QED BY <1>1, <1>2, <1>3, <1>4, <1>5

\* Records, requests and tokens of the login keep their shape; a token expires
\* within TokenLife and names a user there is.
THEOREM LoginShape == LoginSpec => []LoginTypeOK
<1>1. AccessInv /\ TokenInv => LoginTypeOK
  <2>. SUFFICES ASSUME AccessInv, TokenInv PROVE LoginTypeOK
    OBVIOUS
  <2>1. \A t \in Requesters : req[t].pc \in {"free"} \cup ServingStages \cup {"answer"}
    <3>1. req \in [Requesters -> {Free} \cup GuardRequests \cup GuardAnswers]
      BY DEF AccessInv, GuardTypeInv
    <3>2. Free.pc = "free" /\ (\A r \in GuardRequests : r.pc \in ServingStages) /\ (\A r \in GuardAnswers : r.pc = "answer")
      BY DEF Free, GuardRequests, GuardAnswers
    <3>. QED BY <3>1, <3>2
  <2>2. \A tk \in tokens : tk.user \in Users
    BY DEF AccessInv, Read
  <2>. QED BY <2>1, <2>2 DEF AccessInv, GuardTypeInv, TokenInv, LoginTypeOK, ServingStages, Records
<1>. QED BY <1>1, AccessInvInit, AccessInvNext, TokenInvInit, TokenInvNext, PTL DEF LoginSpec

----
(* Watchlists. *)

\* The fields of a request in hand.
Fields == {"op", "user", "list", "name", "default", "sym", "memo", "loaded", "seen", "demoted",
           "pc"}
IsRequest(r) == DOMAIN r = Fields /\ r = [f \in Fields |-> r[f]]

OfAList == {"patch", "delete", "add", "remove", "memo"}

\* What is read when a request arrives, whatever else it is for: a list of its
\* user's, or none; and it clears the default only to set it.
Fitting(r, u) ==
  /\ IsRequest(r) /\ r.user = u
  /\ r.op \in OfAList \cup {"create", "get_prefs", "put_prefs"}
  /\ r.op \in OfAList => r.list \in OwnedBy(u)
  /\ r.op = "put_prefs" => r.list \in OwnedBy(u) \cup {0}
  /\ r.op \in {"create", "get_prefs"} => r.list = 0
  /\ r.pc \in {"write", "demote"}
  /\ r.pc = "write" => r.default = FALSE
  /\ r.default \in BOOLEAN /\ r.demoted = {}

LEMMA RequestsFit ==
  ASSUME NEW u, NEW r \in RequestsOf(u)
  PROVE  Fitting(r, u)
<1>. DEFINE Plain(q, op, list) == /\ IsRequest(q) /\ q.user = u /\ q.op = op /\ q.list = list
                                  /\ q.pc = "write" /\ q.default = FALSE
                                  /\ q.demoted = {}
<1>1. ASSUME NEW op, NEW list, NEW name, NEW q, q = [Incoming(u, op, list) EXCEPT !.name = name]
      PROVE  Plain(q, op, list)
  BY <1>1 DEF Incoming, IsRequest, Fields
<1>2. ASSUME NEW q, IsRequest(q)
      PROVE  LET p == Promoting(q) IN
             /\ IsRequest(p) /\ p.user = q.user /\ p.op = q.op /\ p.list = q.list
             /\ p.pc = "demote" /\ p.default \in BOOLEAN
             /\ p.demoted = q.demoted
  BY <1>2 DEF IsRequest, Fields, Promoting
<1>3. CASE r \in Creations(u)
  <2>. DEFINE plain == {[Incoming(u, "create", 0) EXCEPT !.name = n] : n \in Names}
  <2>1. ASSUME NEW q \in plain
        PROVE  Fitting(q, u) /\ q.op = "create"
    <3>1. PICK n \in Names : q = [Incoming(u, "create", 0) EXCEPT !.name = n]
      OBVIOUS
    <3>. HIDE DEF plain, Plain
    <3>2. Plain(q, "create", 0)
      BY <1>1, <3>1
    <3>. QED BY <3>2 DEF Plain, Fitting, OfAList
  <2>2. r \in plain \/ \E q \in plain : r = Promoting(q)
    <3>. HIDE DEF plain
    <3>. QED BY <1>3 DEF Creations, plain
  <2>. HIDE DEF plain
  <2>. QED BY <1>2, <2>1, <2>2 DEF Fitting, OfAList
<1>4. CASE r \in Patches(u)
  <2>. DEFINE all == {[Incoming(u, "patch", i) EXCEPT !.name = n] :
                        i \in OwnedBy(u), n \in {"-"} \cup Names}
              other == {q \in all : q.name # lists[q.list].name}
  <2>1. ASSUME NEW q \in all
        PROVE  Fitting(q, u) /\ q.op = "patch"
    <3>1. PICK i \in OwnedBy(u), n \in {"-"} \cup Names :
            q = [Incoming(u, "patch", i) EXCEPT !.name = n]
      OBVIOUS
    <3>. HIDE DEF all, Plain
    <3>2. Plain(q, "patch", i)
      BY <1>1, <3>1
    <3>. QED BY <3>2 DEF Plain, Fitting, OfAList
  <2>2. r \in all \/ \E q \in all : r = Promoting(q)
    <3>. HIDE DEF all
    <3>. QED BY <1>4 DEF Patches, all
  <2>. HIDE DEF all
  <2>. QED BY <1>2, <2>1, <2>2 DEF Fitting, OfAList
<1>5. CASE r \in Deletions(u)
  BY <1>5 DEF Deletions, Incoming, Fitting, IsRequest, Fields, OfAList
<1>6. CASE r \in ItemChanges(u)
  <2>1. PICK op \in {"add", "remove", "memo"}, x \in [list : OwnedBy(u), sym : Stocks, memo : Memos] :
          r = ForItem(Incoming(u, op, x.list), x)
    BY <1>6 DEF ItemChanges
  <2>. QED BY <2>1 DEF ForItem, Incoming, Fitting, IsRequest, Fields, OfAList
<1>7. CASE r \in PreferenceCalls(u)
  <2>1. PICK q \in {Incoming(u, "get_prefs", 0)} \cup
                   {Incoming(u, "put_prefs", i) : i \in OwnedBy(u) \cup {0}} :
          r = [q EXCEPT !.seen = prefs[u]]
    BY <1>7 DEF PreferenceCalls
  <2>2. \/ q = Incoming(u, "get_prefs", 0)
        \/ \E i \in OwnedBy(u) \cup {0} : q = Incoming(u, "put_prefs", i)
    OBVIOUS
  <2>3. Plain(q, "get_prefs", 0) \/ \E i \in OwnedBy(u) \cup {0} : Plain(q, "put_prefs", i)
    <3>1. ASSUME NEW op, NEW i, q = Incoming(u, op, i)
          PROVE  Plain(q, op, i)
      BY <3>1 DEF Incoming, IsRequest, Fields
    <3>. HIDE DEF Plain
    <3>. QED BY <2>2, <3>1
  <2>. QED BY <2>1, <2>3 DEF Fitting, IsRequest, Fields, OfAList
<1>. QED BY <1>3, <1>4, <1>5, <1>6, <1>7 DEF RequestsOf

----
\* What stays true of a request in hand, on either database.
Held(w) ==
  /\ IsRequest(w)
  /\ w.op \in OfAList \cup {"create", "get_prefs", "put_prefs"}
  /\ w.op \in {"create", "get_prefs"} => w.list = 0
  /\ w.pc \in {"write", "demote", "demoted"}
  /\ w.pc # "demoted" => w.demoted = {}
  /\ w.pc = "write" => w.default = FALSE

RowsAndWork ==
  /\ backend \in {"postgres", "sqlite"}
  /\ IsFiniteSet(ListIds)
  /\ \A i \in ListIds : DOMAIN lists[i] = {"owner", "name", "default"}
  /\ work = [s \in Sessions |-> work[s]]
  /\ \A s \in Sessions : work[s] = Resting \/ Held(work[s])

\* Ids that never come back: what a request has loaded is its user's as long
\* as it is there.
Loaded(w) ==
  /\ w.list \in 0..lastId
  /\ w.list \in ListIds => lists[w.list].owner = w.user
  /\ w.demoted \subseteq 1..lastId
  /\ \A i \in w.demoted \cap ListIds : lists[i].owner = w.user

IdsAreFresh ==
  /\ lastId \in Nat /\ ListIds \subseteq 1..lastId
  /\ \A s \in Sessions : work[s] # Resting => Loaded(work[s])

\* SQLite's write lock, and what its holder has cleared.
OneWriter ==
  \A s \in Sessions : work[s].pc = "demoted" =>
    /\ \A t \in Sessions : work[t].pc = "demoted" => t = s
    /\ DefaultsOf(work[s].user) \subseteq work[s].demoted

WatchInvariant ==
  /\ RowsAndWork
  /\ backend = "postgres" => IdsAreFresh
  /\ backend = "sqlite" => OneWriter
  /\ prefs = [u \in Owners |-> prefs[u]]
  /\ ReferencesHold

----
LEMMA WatchInvariantInit == WatchInit => WatchInvariant
<1>. SUFFICES ASSUME WatchInit PROVE WatchInvariant
  OBVIOUS
<1>1. ListIds = {}
  BY DEF WatchInit, ListIds
<1>2. IsFiniteSet(ListIds)
  BY <1>1, FS_EmptySet
<1>3. \A s \in Sessions : work[s] = Resting /\ work[s].pc = "rest"
  BY DEF WatchInit, Resting
<1>4. RowsAndWork
  BY <1>1, <1>2, <1>3, WatchlistAssumption DEF WatchInit, RowsAndWork
<1>5. IdsAreFresh /\ OneWriter
  BY <1>1, <1>3 DEF WatchInit, IdsAreFresh, OneWriter
<1>6. ReferencesHold
  BY DEF WatchInit, ReferencesHold
<1>. QED BY <1>4, <1>5, <1>6 DEF WatchInit, WatchInvariant

\* The rows of a step: those there are, and at most one more.
LEMMA ListsMove ==
  ASSUME RowsAndWork, NEW s \in Sessions,
         CreateList(s) \/ PatchList(s) \/ DeleteList(s)
  PROVE  /\ ListIds' \subseteq ListIds \cup {NextId}
         /\ NextId \in ListIds' => lastId' = NextId \/ NextId \in ListIds
         /\ \A i \in ListIds' : DOMAIN lists'[i] = {"owner", "name", "default"}
         /\ \A i \in ListIds' \ {NextId} : lists'[i].owner = lists[i].owner
         /\ lastId' # lastId => lastId' = NextId
<1>1. \A i \in ListIds : /\ DOMAIN Demoted(s)[i] = {"owner", "name", "default"}
                        /\ Demoted(s)[i].owner = lists[i].owner
  BY DEF RowsAndWork, Demoted
<1>2. DOMAIN Demoted(s) = ListIds
  BY DEF Demoted
<1>3. CASE CreateList(s)
  BY <1>1, <1>3 DEF CreateList, Refuse, ListIds, RowsAndWork
<1>4. CASE PatchList(s)
  BY <1>1, <1>2, <1>4 DEF PatchList, Refuse, ListIds, RowsAndWork
<1>5. CASE DeleteList(s)
  BY <1>5 DEF DeleteList, ListIds, RowsAndWork
<1>. QED BY <1>3, <1>4, <1>5

LEMMA RowsAndWorkStep ==
  ASSUME RowsAndWork, WatchNext
  PROVE  RowsAndWork'
<1>. PICK s \in Sessions :
       \/ \E u \in Owners : Receive(s, u)
       \/ Demote(s)
       \/ CreateList(s) \/ PatchList(s) \/ DeleteList(s) \/ ChangeItem(s) \/ ChangePrefs(s)
  BY DEF WatchNext
<1>1. CASE \E u \in Owners : Receive(s, u)
  <2>. PICK u \in Owners : Receive(s, u)
    BY <1>1
  <2>1. PICK r \in RequestsOf(u) : work' = [work EXCEPT ![s] = r]
    BY DEF Receive
  <2>2. Held(r)
    BY <2>1, RequestsFit DEF Fitting, Held
  <2>. QED BY <1>1, <2>1, <2>2 DEF Receive, RowsAndWork, ListIds
<1>2. CASE Demote(s)
  <2>1. Held(work[s])
    BY <1>2 DEF Demote, RowsAndWork, Resting
  <2>2. Held(work'[s])
    BY <1>2, <2>1 DEF Demote, RowsAndWork, Held, IsRequest, Fields
  <2>. QED BY <1>2, <2>2 DEF Demote, RowsAndWork, ListIds
<1>3. ASSUME ListIds' \subseteq ListIds \cup {NextId},
             \A i \in ListIds' : DOMAIN lists'[i] = {"owner", "name", "default"},
             work' = [work EXCEPT ![s] = Resting], UNCHANGED backend
      PROVE  RowsAndWork'
  <2>1. IsFiniteSet(ListIds \cup {NextId})
    BY FS_AddElement DEF RowsAndWork
  <2>2. IsFiniteSet(ListIds')
    BY <1>3, <2>1, FS_Subset
  <2>. QED BY <1>3, <2>2 DEF RowsAndWork
<1>4. CASE CreateList(s) \/ PatchList(s) \/ DeleteList(s)
  BY <1>3, <1>4, ListsMove DEF CreateList, PatchList, DeleteList, Completes
<1>5. CASE ChangeItem(s)
  BY <1>3, <1>5 DEF ChangeItem, Completes, RowsAndWork, ListIds
<1>6. CASE ChangePrefs(s)
  BY <1>3, <1>6 DEF ChangePrefs, Refuse, Completes, RowsAndWork, ListIds
<1>. QED BY <1>1, <1>2, <1>4, <1>5, <1>6

\* With ids that do not come back a list keeps its owner, and a request what
\* it has loaded of its user's lists.
LEMMA OwnersStay ==
  ASSUME RowsAndWork, IdsAreFresh, backend = "postgres", WatchNext
  PROVE  /\ lastId' \in Nat /\ lastId <= lastId' /\ ListIds' \subseteq 1..lastId'
         /\ \A i \in 1..lastId : i \in ListIds' => i \in ListIds /\ lists'[i].owner = lists[i].owner
<1>. NextId = lastId + 1
  BY DEF NextId
<1>. PICK s \in Sessions :
       \/ \E u \in Owners : Receive(s, u)
       \/ Demote(s)
       \/ CreateList(s) \/ PatchList(s) \/ DeleteList(s) \/ ChangeItem(s) \/ ChangePrefs(s)
  BY DEF WatchNext
<1>1. CASE CreateList(s) \/ PatchList(s) \/ DeleteList(s)
  <2>1. /\ ListIds' \subseteq ListIds \cup {lastId + 1}
        /\ lastId + 1 \in ListIds' => lastId' = lastId + 1 \/ lastId + 1 \in ListIds
        /\ \A i \in ListIds' \ {lastId + 1} : lists'[i].owner = lists[i].owner
        /\ lastId' = lastId \/ lastId' = lastId + 1
    BY <1>1, ListsMove
  <2>2. ASSUME NEW i \in ListIds'
        PROVE  i \in 1..lastId'
    <3>1. CASE i \in ListIds
      BY <2>1, <3>1 DEF IdsAreFresh
    <3>2. CASE i = lastId + 1
      BY <2>1, <3>2 DEF IdsAreFresh
    <3>. QED BY <2>1, <3>1, <3>2
  <2>. QED BY <2>1, <2>2 DEF IdsAreFresh
<1>2. CASE UNCHANGED <<lists, lastId>>
  BY <1>2 DEF IdsAreFresh, ListIds
<1>. QED BY <1>1, <1>2 DEF Receive, Demote, ChangeItem, ChangePrefs, Refuse

LEMMA IdsAreFreshStep ==
  ASSUME RowsAndWork, IdsAreFresh, backend = "postgres", WatchNext
  PROVE  IdsAreFresh'
<1>1. ASSUME NEW w, Loaded(w)
      PROVE  Loaded(w)'
  <2>1. w.list \in 0..lastId' /\ w.demoted \subseteq 1..lastId'
    BY <1>1, OwnersStay DEF Loaded, IdsAreFresh
  <2>. QED BY <1>1, <2>1, OwnersStay DEF Loaded, IdsAreFresh
<1>2. ASSUME NEW s \in Sessions, work'[s] # Resting
      PROVE  \/ work'[s] = work[s]
             \/ \E u \in Owners : work'[s] \in RequestsOf(u)
             \/ /\ work[s] # Resting
                /\ work'[s] = [work[s] EXCEPT !.pc = "demoted", !.demoted = DefaultsOf(work[s].user)]
  <2>. PICK t \in Sessions :
         \/ \E u \in Owners : Receive(t, u)
         \/ Demote(t)
         \/ CreateList(t) \/ PatchList(t) \/ DeleteList(t) \/ ChangeItem(t) \/ ChangePrefs(t)
    BY DEF WatchNext
  <2>1. CASE \E u \in Owners : Receive(t, u)
    BY <2>1 DEF Receive, RowsAndWork
  <2>2. CASE Demote(t)
    <3>1. CASE s = t
      BY <2>2, <3>1 DEF Demote, RowsAndWork, Resting
    <3>2. CASE s # t
      BY <2>2, <3>2 DEF Demote, RowsAndWork
    <3>. QED BY <3>1, <3>2
  <2>3. CASE work' = [work EXCEPT ![t] = Resting]
    BY <1>2, <2>3 DEF RowsAndWork
  <2>. QED BY <2>1, <2>2, <2>3
       DEF CreateList, PatchList, DeleteList, ChangeItem, ChangePrefs, Completes
<1>3. ASSUME NEW s \in Sessions, work'[s] # Resting
      PROVE  Loaded(work[s])'
  <2>. PICK fresh : fresh = work'[s]
    OBVIOUS
  <2>. SUFFICES Loaded(fresh)'
    OBVIOUS
  <2>1. CASE fresh = work[s]
    BY <1>1, <1>3, <2>1 DEF IdsAreFresh
  <2>2. CASE \E u \in Owners : fresh \in RequestsOf(u)
    <3>1. PICK u \in Owners : fresh \in RequestsOf(u)
      BY <2>2
    <3>2. Fitting(fresh, u)
      BY <3>1, RequestsFit
    <3>3. fresh.user = u /\ fresh.list \in OwnedBy(u) \cup {0} /\ fresh.demoted = {}
      BY <3>2 DEF Fitting, OfAList
    <3>4. fresh.list \in 0..lastId /\ (fresh.list \in ListIds => lists[fresh.list].owner = u)
      <4>1. lastId \in Nat /\ ListIds \subseteq 1..lastId
        BY DEF IdsAreFresh
      <4>2. CASE fresh.list = 0
        BY <4>1, <4>2
      <4>3. CASE fresh.list \in ListIds /\ lists[fresh.list].owner = u
        <5>1. fresh.list \in 1..lastId
          BY <4>1, <4>3
        <5>2. fresh.list \in 0..lastId
          BY <4>1, <5>1
        <5>. QED BY <4>3, <5>2
      <4>. QED BY <3>3, <4>2, <4>3 DEF OwnedBy
    <3>5. Loaded(fresh)
      BY <3>3, <3>4 DEF Loaded
    <3>. QED BY <1>1, <3>5
  <2>3. CASE /\ work[s] # Resting
             /\ fresh = [work[s] EXCEPT !.pc = "demoted", !.demoted = DefaultsOf(work[s].user)]
    <3>. DEFINE r == [work[s] EXCEPT !.pc = "demoted", !.demoted = DefaultsOf(work[s].user)]
    <3>1. Loaded(work[s]) /\ Held(work[s])
      BY <2>3 DEF IdsAreFresh, RowsAndWork
    <3>2. r.list = work[s].list /\ r.user = work[s].user /\ r.demoted = DefaultsOf(work[s].user)
      BY <3>1 DEF Held, IsRequest, Fields
    <3>3. Loaded(r)
      <4>. HIDE DEF r
      <4>. QED BY <3>1, <3>2 DEF Loaded, DefaultsOf, OwnedBy, IdsAreFresh
    <3>. QED BY <1>1, <2>3, <3>3
  <2>. QED BY <1>2, <1>3, <2>1, <2>2, <2>3
<1>. QED BY <1>3, OwnersStay DEF IdsAreFresh

\* Foreign keys: what refers to a list is written while the list is there, and
\* goes with it.
LEMMA ReferencesHoldStep ==
  ASSUME WatchInvariant, backend = "postgres", WatchNext
  PROVE  ReferencesHold' /\ prefs' = [u \in Owners |-> prefs'[u]]
<1>. PICK s \in Sessions :
       \/ \E u \in Owners : Receive(s, u)
       \/ Demote(s)
       \/ CreateList(s) \/ PatchList(s) \/ DeleteList(s) \/ ChangeItem(s) \/ ChangePrefs(s)
  BY DEF WatchNext
<1>1. backend' = backend
  BY DEF Receive, Demote, CreateList, PatchList, DeleteList, ChangeItem, ChangePrefs, Completes
<1>2. /\ RowsAndWork /\ IdsAreFresh /\ prefs = [u \in Owners |-> prefs[u]]
      /\ \A u \in Owners : prefs[u] > 0 => prefs[u] \in OwnedBy(u)
      /\ \A x \in items : x.list \in ListIds
  BY DEF WatchInvariant, ReferencesHold
<1>3. ASSUME NEW u, NEW i \in OwnedBy(u), i \in ListIds'
      PROVE  i \in OwnedBy(u)'
  BY <1>2, <1>3, OwnersStay DEF OwnedBy, IdsAreFresh
<1>4. CASE UNCHANGED <<lists, items, prefs>>
  BY <1>1, <1>2, <1>4 DEF ReferencesHold, OwnedBy, ListIds
<1>5. CASE CreateList(s) \/ PatchList(s)
  <2>1. ListIds \subseteq ListIds' /\ UNCHANGED <<items, prefs>>
    BY <1>5 DEF CreateList, PatchList, Refuse, Demoted, ListIds
  <2>2. ASSUME NEW u \in Owners, prefs'[u] > 0
        PROVE  prefs'[u] \in OwnedBy(u)'
    <3>1. prefs'[u] = prefs[u] /\ prefs[u] \in OwnedBy(u)
      BY <1>2, <2>1, <2>2
    <3>2. prefs[u] \in ListIds'
      BY <2>1, <3>1 DEF OwnedBy
    <3>. QED BY <1>3, <3>1, <3>2
  <2>3. \A x \in items' : x.list \in ListIds'
    BY <1>2, <2>1
  <2>. QED BY <1>2, <2>1, <2>2, <2>3 DEF ReferencesHold
<1>6. CASE DeleteList(s)
  <2>. DEFINE i == work[s].list
  <2>1. /\ ListIds' = ListIds \ {i} /\ items' = items \ ItemsOf(i)
        /\ prefs' = [u \in Owners |-> IF prefs[u] = i THEN 0 ELSE prefs[u]]
    BY <1>6 DEF WatchInvariant, DeleteList, ListIds
  <2>. HIDE DEF i
  <2>2. \A x \in items' : x.list \in ListIds'
    BY <1>2, <2>1 DEF ItemsOf
  <2>3. ASSUME NEW u \in Owners, prefs'[u] > 0
        PROVE  prefs'[u] \in OwnedBy(u)'
    <3>1. prefs'[u] = prefs[u] /\ prefs[u] # i /\ prefs[u] \in OwnedBy(u)
      BY <1>2, <2>1, <2>3
    <3>. QED BY <1>3, <2>1, <3>1 DEF OwnedBy
  <2>. QED BY <1>1, <2>1, <2>2, <2>3 DEF ReferencesHold
<1>7. CASE ChangeItem(s)
  <2>1. \A x \in items' : x \in items \/ x.list \in ListIds
    BY <1>2, <1>7 DEF ChangeItem, RefersTo, ItemsOf
  <2>2. UNCHANGED <<lists, prefs>>
    BY <1>7 DEF ChangeItem
  <2>. QED BY <1>1, <1>2, <2>1, <2>2 DEF ReferencesHold, OwnedBy, ListIds
<1>8. CASE ChangePrefs(s) /\ ~Refuse
  <2>. DEFINE w == work[s]
  <2>1. /\ prefs' = [prefs EXCEPT ![w.user] = w.list] /\ UNCHANGED <<lists, items>>
        /\ w.list = 0 \/ RefersTo(w.list)
    BY <1>8 DEF ChangePrefs
  <2>2. w # Resting
    BY <1>8 DEF ChangePrefs, Completes, Resting
  <2>3. w.list = 0 \/ w.list \in OwnedBy(w.user)
    BY <1>2, <2>1, <2>2 DEF RefersTo, IdsAreFresh, Loaded, OwnedBy
  <2>. HIDE DEF w
  <2>4. ASSUME NEW u \in Owners, prefs'[u] > 0
        PROVE  prefs'[u] \in OwnedBy(u)'
    <3>1. prefs'[u] \in OwnedBy(u)
      BY <1>2, <2>1, <2>3, <2>4
    <3>. QED BY <2>1, <3>1 DEF OwnedBy, ListIds
  <2>5. prefs' = [u \in Owners |-> prefs'[u]]
    BY <1>2, <2>1
  <2>. QED BY <1>1, <1>2, <2>1, <2>4, <2>5 DEF ReferencesHold, ListIds
<1>. QED BY <1>4, <1>5, <1>6, <1>7, <1>8 DEF Receive, Demote, ChangePrefs, Refuse

\* On SQLite nobody writes between a clearing of the default and its commit.
LEMMA OneWriterStep ==
  ASSUME WatchInvariant, backend = "sqlite", WatchNext
  PROVE  OneWriter'
<1>. PICK s \in Sessions :
       \/ \E u \in Owners : Receive(s, u)
       \/ Demote(s)
       \/ CreateList(s) \/ PatchList(s) \/ DeleteList(s) \/ ChangeItem(s) \/ ChangePrefs(s)
  BY DEF WatchNext
<1>1. RowsAndWork /\ OneWriter
  BY DEF WatchInvariant
<1>2. CASE \E u \in Owners : Receive(s, u)
  <2>. PICK u \in Owners : Receive(s, u)
    BY <1>2
  <2>1. PICK r \in RequestsOf(u) : work' = [work EXCEPT ![s] = r]
    BY DEF Receive
  <2>2. r.pc # "demoted"
    BY <2>1, RequestsFit DEF Fitting
  <2>3. \A t \in Sessions : work'[t].pc = "demoted" => work'[t] = work[t] /\ work[t].pc = "demoted"
    BY <1>1, <2>1, <2>2 DEF RowsAndWork
  <2>. QED BY <1>1, <2>3 DEF Receive, OneWriter, DefaultsOf, OwnedBy, ListIds
<1>3. CASE Demote(s)
  <2>1. \A t \in Sessions : work[t].pc # "demoted"
    BY <1>3 DEF Demote, Writable
  <2>2. \A t \in Sessions : t # s => work'[t] = work[t]
    BY <1>1, <1>3 DEF Demote, RowsAndWork
  <2>3. Held(work[s])
    BY <1>1, <1>3 DEF Demote, RowsAndWork, Resting
  <2>4. work'[s].user = work[s].user /\ work'[s].demoted = DefaultsOf(work[s].user)
    BY <1>1, <1>3, <2>3 DEF Demote, RowsAndWork, Held, IsRequest, Fields
  <2>5. \A t \in Sessions : work'[t].pc = "demoted" => t = s
    BY <2>1, <2>2
  <2>6. DefaultsOf(work[s].user)' \subseteq work'[s].demoted
    BY <1>3, <2>4 DEF Demote, DefaultsOf, OwnedBy, ListIds
  <2>. QED BY <2>5, <2>6 DEF OneWriter
<1>4. ASSUME NEW ops, Completes(s, ops)
      PROVE  \A t \in Sessions : work'[t].pc # "demoted"
  <2>1. \A t \in Sessions : t # s => work[t].pc # "demoted"
    BY <1>1, <1>4 DEF Completes, Writable, OneWriter
  <2>2. work'[s] = Resting /\ \A t \in Sessions : t # s => work'[t] = work[t]
    BY <1>1, <1>4 DEF Completes, RowsAndWork
  <2>. QED BY <2>1, <2>2 DEF Resting
<1>. QED BY <1>2, <1>3, <1>4
     DEF OneWriter, CreateList, PatchList, DeleteList, ChangeItem, ChangePrefs

LEMMA WatchInvariantStep == WatchInvariant /\ [WatchNext]_watchVars => WatchInvariant'
<1>1. ASSUME WatchInvariant, WatchNext
      PROVE  WatchInvariant'
  <2>1. RowsAndWork' /\ RowsAndWork
    BY <1>1, RowsAndWorkStep DEF WatchInvariant
  <2>2. backend' = backend
    BY <1>1 DEF WatchNext, Receive, Demote, CreateList, PatchList, DeleteList, ChangeItem,
                ChangePrefs, Completes
  <2>3. CASE backend = "postgres"
    BY <1>1, <2>1, <2>2, <2>3, IdsAreFreshStep, ReferencesHoldStep DEF WatchInvariant
  <2>4. CASE backend = "sqlite"
    <3>1. prefs' = [u \in Owners |-> prefs'[u]]
      BY <1>1, <2>4 DEF WatchInvariant, WatchNext, Receive, Demote, CreateList, PatchList,
                        DeleteList, ChangeItem, ChangePrefs, Refuse
    <3>. QED BY <1>1, <2>1, <2>2, <2>4, <3>1, OneWriterStep DEF WatchInvariant, ReferencesHold
  <2>. QED BY <2>1, <2>3, <2>4 DEF RowsAndWork
<1>2. ASSUME WatchInvariant, UNCHANGED watchVars
      PROVE  WatchInvariant'
  BY <1>2 DEF watchVars, WatchInvariant, RowsAndWork, IdsAreFresh, Loaded, OneWriter, DefaultsOf,
              OwnedBy, ListIds, ReferencesHold
<1>. QED BY <1>1, <1>2

LEMMA WatchInvariantHolds == WatchSpec => []WatchInvariant
BY WatchInvariantInit, WatchInvariantStep, PTL DEF WatchSpec

(***************************************************************************)
(* ReferencesHold for every number of users, lists and requests: where     *)
(* foreign keys are enforced (PostgreSQL, app/db/models.py), the default   *)
(* list a preference names exists and is its user's, and every item        *)
(* belongs to a list, however requests interleave between the check of the *)
(* owner and the write.                                                    *)
(***************************************************************************)
THEOREM ReferencesAlwaysHold == WatchSpec => []ReferencesHold
<1>1. WatchInvariant => ReferencesHold
  BY DEF WatchInvariant
<1>. QED BY <1>1, WatchInvariantHolds, PTL

----
LEMMA OnlyOwnersWriteStep ==
  ASSUME WatchInvariant, WatchNext, backend = "postgres", NEW i \in ListIds,
         i \notin DOMAIN lists' \/ lists'[i] # lists[i] \/ {x \in items' : x.list = i} # ItemsOf(i)
  PROVE  \E s \in Sessions : work[s].op # "none" /\ work[s].user = lists[i].owner
                            /\ work'[s] = Resting
<1>. PICK s \in Sessions :
       \/ \E u \in Owners : Receive(s, u)
       \/ Demote(s)
       \/ CreateList(s) \/ PatchList(s) \/ DeleteList(s) \/ ChangeItem(s) \/ ChangePrefs(s)
  BY DEF WatchNext
<1>1. RowsAndWork /\ IdsAreFresh
  BY DEF WatchInvariant
<1>2. ~UNCHANGED <<lists, items>>
  BY DEF ItemsOf, ListIds
<1>3. CreateList(s) \/ PatchList(s) \/ DeleteList(s) \/ ChangeItem(s)
  BY <1>2 DEF Receive, Demote, ChangePrefs, Refuse
<1>4. work'[s] = Resting /\ work[s].op # "none" /\ work[s] # Resting
  BY <1>1, <1>3 DEF CreateList, PatchList, DeleteList, ChangeItem, Completes, RowsAndWork, Resting
<1>5. Loaded(work[s])
  BY <1>1, <1>4 DEF IdsAreFresh
<1>6. i \in work[s].demoted \/ i = work[s].list
  <2>. SUFFICES ASSUME i \notin work[s].demoted, i # work[s].list
                PROVE  FALSE
    OBVIOUS
  <2>1. Demoted(s)[i] = lists[i]
    BY DEF Demoted
  <2>2. DOMAIN Demoted(s) = ListIds
    BY DEF Demoted
  <2>3. CASE CreateList(s)
    <3>1. i # NextId
      BY <1>1 DEF IdsAreFresh, NextId
    <3>. QED BY <2>1, <2>3, <3>1 DEF CreateList, Refuse, ItemsOf, ListIds
  <2>4. CASE PatchList(s)
    BY <2>1, <2>2, <2>4 DEF PatchList, Refuse, ItemsOf, ListIds
  <2>5. CASE DeleteList(s)
    BY <2>5 DEF DeleteList, ItemsOf, ListIds
  <2>6. CASE ChangeItem(s)
    BY <2>6 DEF ChangeItem, ItemsOf, ListIds
  <2>. QED BY <1>3, <2>3, <2>4, <2>5, <2>6
<1>7. work[s].user = lists[i].owner
  BY <1>5, <1>6 DEF Loaded
<1>. QED BY <1>4, <1>7

\* What a commit makes of the rows a request has not named.
LEMMA OtherDefaults ==
  ASSUME RowsAndWork, NEW s \in Sessions, CreateList(s) \/ PatchList(s), NEW u,
         NEW i \in DefaultsOf(u)'
  PROVE  \/ i \in DefaultsOf(u) /\ i \notin work[s].demoted
         \/ /\ i = (IF work[s].op = "create" THEN NextId ELSE work[s].list)
            /\ work[s].default
         \/ i \in DefaultsOf(u) /\ Refuse
<1>. DEFINE w == work[s]
<1>1. /\ i \in DOMAIN lists' /\ lists'[i].owner = u /\ lists'[i].default
  BY DEF DefaultsOf, OwnedBy, ListIds
<1>2. CASE Refuse
  BY <1>1, <1>2 DEF Refuse, DefaultsOf, OwnedBy, ListIds
<1>3. /\ DOMAIN Demoted(s) = ListIds
      /\ \A j \in ListIds : /\ DOMAIN Demoted(s)[j] = {"owner", "name", "default"}
                            /\ Demoted(s)[j].owner = lists[j].owner
                            /\ j \in w.demoted => Demoted(s)[j].default = FALSE
                            /\ j \notin w.demoted => Demoted(s)[j] = lists[j]
  BY DEF RowsAndWork, Demoted
<1>4. CASE CreateList(s) /\ ~Refuse
  <2>1. /\ DOMAIN lists' = ListIds \cup {NextId} /\ w.op = "create"
        /\ lists'[NextId].default = w.default
        /\ \A j \in ListIds \ {NextId} : lists'[j] = Demoted(s)[j]
    BY <1>4 DEF CreateList, Completes
  <2>. HIDE DEF w
  <2>. QED BY <1>1, <1>3, <2>1 DEF DefaultsOf, OwnedBy, w
<1>5. CASE PatchList(s) /\ ~Refuse
  <2>1. /\ w.op = "patch" /\ w.list \in ListIds
        /\ lists' = [Demoted(s) EXCEPT
                       ![w.list].name = IF w.name = "-" THEN @ ELSE w.name,
                       ![w.list].default = IF w.default THEN TRUE ELSE @]
    BY <1>5 DEF PatchList, Completes
  <2>2. /\ DOMAIN lists' = ListIds
        /\ lists'[w.list].owner = Demoted(s)[w.list].owner
        /\ lists'[w.list].default = IF w.default THEN TRUE ELSE Demoted(s)[w.list].default
        /\ \A j \in ListIds \ {w.list} : lists'[j] = Demoted(s)[j]
    BY <1>3, <2>1
  <2>. QED BY <1>1, <1>3, <2>1, <2>2 DEF DefaultsOf, OwnedBy
<1>. QED BY <1>2, <1>4, <1>5

LEMMA SecondDefaultStep ==
  ASSUME WatchInvariant, WatchNext, NEW u \in Owners,
         Cardinality(DefaultsOf(u)) <= 1, Cardinality(DefaultsOf(u)') > 1
  PROVE  \E s \in Sessions : /\ work[s].pc = "demoted" /\ work'[s] = Resting
                             /\ backend = "sqlite" => work[s].user # u
<1>1. RowsAndWork /\ (backend = "sqlite" => OneWriter)
  BY DEF WatchInvariant
<1>2. ~(DefaultsOf(u)' \subseteq DefaultsOf(u))
  <2>1. IsFiniteSet(DefaultsOf(u)) /\ Cardinality(DefaultsOf(u)) \in Nat
    BY <1>1, FS_Subset, FS_CardinalityType DEF RowsAndWork, DefaultsOf, OwnedBy
  <2>2. SUFFICES ASSUME DefaultsOf(u)' \subseteq DefaultsOf(u) PROVE FALSE
    OBVIOUS
  <2>3. /\ Cardinality(DefaultsOf(u)') <= Cardinality(DefaultsOf(u))
        /\ Cardinality(DefaultsOf(u)') \in Nat
    BY <2>1, <2>2, FS_Subset, FS_CardinalityType
  <2>. QED BY <2>1, <2>3
<1>3. ASSUME NEW k PROVE ~(DefaultsOf(u)' \subseteq {k})
  <2>1. IsFiniteSet({k}) /\ Cardinality({k}) = 1
    BY FS_Singleton
  <2>2. SUFFICES ASSUME DefaultsOf(u)' \subseteq {k} PROVE FALSE
    OBVIOUS
  <2>3. /\ Cardinality(DefaultsOf(u)') <= 1
        /\ Cardinality(DefaultsOf(u)') \in Nat
    BY <2>1, <2>2, FS_Subset, FS_CardinalityType
  <2>. QED BY <2>3
<1>. PICK s \in Sessions :
       \/ \E o \in Owners : Receive(s, o)
       \/ Demote(s)
       \/ CreateList(s) \/ PatchList(s) \/ DeleteList(s) \/ ChangeItem(s) \/ ChangePrefs(s)
  BY DEF WatchNext
<1>4. ~UNCHANGED lists
  BY <1>2 DEF DefaultsOf, OwnedBy, ListIds
<1>5. ~DeleteList(s)
  BY <1>2 DEF DeleteList, DefaultsOf, OwnedBy, ListIds
<1>6. CreateList(s) \/ PatchList(s)
  BY <1>4, <1>5 DEF Receive, Demote, ChangeItem, ChangePrefs, Refuse
<1>7. ~Refuse
  BY <1>4 DEF Refuse
<1>8. work'[s] = Resting /\ Held(work[s]) /\ work[s].pc \in {"write", "demoted"}
  BY <1>1, <1>6 DEF CreateList, PatchList, Completes, RowsAndWork, Resting
<1>9. work[s].pc # "write"
  BY <1>1, <1>2, <1>6, <1>8, OtherDefaults DEF Held
<1>10. ASSUME backend = "sqlite", work[s].user = u
       PROVE  FALSE
  <2>. DEFINE k == IF work[s].op = "create" THEN NextId ELSE work[s].list
  <2>1. DefaultsOf(u) \subseteq work[s].demoted
    BY <1>1, <1>8, <1>9, <1>10 DEF OneWriter
  <2>2. DefaultsOf(u)' \subseteq {k}
    BY <1>1, <1>6, <1>7, <2>1, OtherDefaults
  <2>. QED BY <1>3, <2>2
<1>. QED BY <1>8, <1>9, <1>10

(***************************************************************************)
(* WatchlistsAreKept for every number of users, lists and requests.        *)
(* PostgreSQL: a list or its items only change by a request of the list's  *)
(* owner, though the writes of app/api/watchlist_routes.py go by the id    *)
(* alone.  A user gets a second default list only by a promotion that      *)
(* raced another, and on SQLite only by another user's.                    *)
(***************************************************************************)
THEOREM WatchlistsStayKept == WatchSpec => WatchlistsAreKept
<1>1. ASSUME WatchInvariant, [WatchNext]_watchVars
      PROVE  [backend = "postgres" =>
                \A i \in ListIds :
                  (i \notin DOMAIN lists' \/ lists'[i] # lists[i]
                     \/ {x \in items' : x.list = i} # ItemsOf(i))
                    => \E s \in Sessions : work[s].op # "none" /\ work[s].user = lists[i].owner
                                           /\ work'[s] = Resting]_watchVars
  BY <1>1, OnlyOwnersWriteStep
<1>2. ASSUME WatchInvariant, [WatchNext]_watchVars
      PROVE  [\A u \in Owners :
                Cardinality(DefaultsOf(u)) <= 1 /\ Cardinality(DefaultsOf(u)') > 1 =>
                  \E s \in Sessions : /\ work[s].pc = "demoted" /\ work'[s] = Resting
                                      /\ backend = "sqlite" => work[s].user # u]_watchVars
  BY <1>2, SecondDefaultStep
<1>. QED
  BY <1>1, <1>2, WatchInvariantHolds, PTL
  DEF WatchSpec, WatchlistsAreKept, OnlyOwnersWrite, SecondDefaultNeedsARace

----
(***************************************************************************)
(* The shape of the tables: every row names an owner, a list, a name and a *)
(* stock there can be, whatever the requests under way.                    *)
(***************************************************************************)
\* What a request writes names rows there can be: a list id, a user, a name, a
\* stock, a memo.
Naming(w) ==
  /\ IsRequest(w) /\ w.user \in Owners
  /\ w.op \in OfAList => w.list \in 1..MaxListId
  /\ w.list \in 0..MaxListId
  /\ w.op = "create" => w.name \in Names
  /\ w.name \in Names \cup {"-"}
  /\ w.op \in {"add", "remove", "memo"} => w.sym \in Stocks /\ w.memo \in Memos
  /\ w.default \in BOOLEAN

WatchShapeInv ==
  /\ WatchTypeOK
  /\ \A s \in Sessions : work[s] # Resting => Naming(work[s])

LEMMA RequestsNameRows ==
  ASSUME WatchTypeOK, NEW u \in Owners, NEW r \in RequestsOf(u)
  PROVE  Naming(r)
<1>1. /\ IsRequest(r) /\ r.user = u /\ r.default \in BOOLEAN
      /\ r.op \in OfAList => r.list \in OwnedBy(u)
      /\ r.op \in OfAList \cup {"create", "get_prefs", "put_prefs"}
      /\ r.op = "put_prefs" => r.list \in OwnedBy(u) \cup {0}
      /\ r.op \in {"create", "get_prefs"} => r.list = 0
  BY RequestsFit DEF Fitting
<1>2. MaxListId \in Nat /\ OwnedBy(u) \subseteq 1..MaxListId
  BY WatchlistAssumption DEF WatchTypeOK, OwnedBy
<1>3. /\ r.op \in OfAList => r.list \in 1..MaxListId
      /\ r.list \in 0..MaxListId
  <2>1. CASE r.op \in OfAList
    BY <1>1, <1>2, <2>1
  <2>2. CASE r.op \notin OfAList
    BY <1>1, <1>2, <2>2
  <2>. QED BY <2>1, <2>2
<1>4. /\ r.op = "create" => r.name \in Names
      /\ r.name \in Names \cup {"-"}
      /\ r.op \in {"add", "remove", "memo"} => r.sym \in Stocks /\ r.memo \in Memos
  <2>1. CASE r \in Creations(u)
    <3>1. ASSUME NEW q, NEW n \in Names, q = [Incoming(u, "create", 0) EXCEPT !.name = n]
          PROVE  /\ q.name \in Names /\ q.op = "create"
                 /\ Promoting(q).name \in Names /\ Promoting(q).op = "create"
      BY <3>1 DEF Incoming, Promoting
    <3>. DEFINE plain == {[Incoming(u, "create", 0) EXCEPT !.name = n] : n \in Names}
    <3>2. r \in plain \/ \E q \in plain : r = Promoting(q)
      <4>. HIDE DEF plain
      <4>. QED BY <2>1 DEF Creations, plain
    <3>3. \A q \in plain : \E n \in Names : q = [Incoming(u, "create", 0) EXCEPT !.name = n]
      OBVIOUS
    <3>. HIDE DEF plain
    <3>. QED BY <3>1, <3>2, <3>3
  <2>2. CASE r \in Patches(u)
    <3>1. ASSUME NEW q, NEW i, NEW n \in Names \cup {"-"},
                 q = [Incoming(u, "patch", i) EXCEPT !.name = n]
          PROVE  /\ q.name \in Names \cup {"-"} /\ q.op = "patch"
                 /\ Promoting(q).name \in Names \cup {"-"} /\ Promoting(q).op = "patch"
      BY <3>1 DEF Incoming, Promoting
    <3>. DEFINE all == {[Incoming(u, "patch", i) EXCEPT !.name = n] :
                          i \in OwnedBy(u), n \in {"-"} \cup Names}
                other == {q \in all : q.name # lists[q.list].name}
    <3>2. r \in all \/ \E q \in all : r = Promoting(q)
      <4>. HIDE DEF all
      <4>. QED BY <2>2 DEF Patches, all
    <3>3. \A q \in all : \E i \in OwnedBy(u), n \in {"-"} \cup Names :
                           q = [Incoming(u, "patch", i) EXCEPT !.name = n]
      OBVIOUS
    <3>. HIDE DEF all
    <3>. QED BY <3>1, <3>2, <3>3
  <2>3. CASE r \in Deletions(u)
    BY <2>3 DEF Deletions, Incoming
  <2>4. CASE r \in ItemChanges(u)
    <3>1. PICK op \in {"add", "remove", "memo"}, x \in [list : OwnedBy(u), sym : Stocks, memo : Memos] :
            r = ForItem(Incoming(u, op, x.list), x)
      BY <2>4 DEF ItemChanges
    <3>. QED BY <3>1 DEF ForItem, Incoming
  <2>5. CASE r \in PreferenceCalls(u)
    <3>1. PICK q \in {Incoming(u, "get_prefs", 0)} \cup
                     {Incoming(u, "put_prefs", i) : i \in OwnedBy(u) \cup {0}} :
            r = [q EXCEPT !.seen = prefs[u]]
      BY <2>5 DEF PreferenceCalls
    <3>2. q.op \in {"get_prefs", "put_prefs"} /\ q.name = "-" /\ IsRequest(q)
      BY <3>1 DEF Incoming, IsRequest, Fields
    <3>. QED BY <3>1, <3>2 DEF IsRequest, Fields
  <2>. QED BY <2>1, <2>2, <2>3, <2>4, <2>5 DEF RequestsOf
<1>. QED BY <1>1, <1>3, <1>4 DEF Naming

LEMMA NextIdInRange ==
  ASSUME WatchTypeOK, RowsAndWork, NextId <= MaxListId
  PROVE  NextId \in 1..MaxListId
<1>1. MaxListId \in Nat /\ ListIds \subseteq 1..MaxListId /\ lastId \in 0..MaxListId
  BY WatchlistAssumption DEF WatchTypeOK
<1>2. CASE backend = "postgres"
  BY <1>1, <1>2 DEF NextId
<1>3. CASE backend # "postgres" /\ ListIds = {}
  BY <1>1, <1>3 DEF NextId
<1>4. CASE backend # "postgres" /\ ListIds # {}
  <2>. DEFINE last == CHOOSE i \in ListIds : \A j \in ListIds : j <= i
  <2>1. IsFiniteSet(ListIds) /\ ListIds \subseteq Int
    BY <1>1 DEF RowsAndWork
  <2>2. Max(ListIds) \in ListIds /\ \A j \in ListIds : Max(ListIds) >= j
    BY <1>4, <2>1, LargestIsMax
  <2>3. \E i \in ListIds : \A j \in ListIds : j <= i
    BY <2>1, <2>2
  <2>4. last \in ListIds
    BY <2>3
  <2>5. NextId = 1 + last
    BY <1>4 DEF NextId
  <2>. HIDE DEF last
  <2>. QED BY <1>1, <2>4, <2>5
<1>. QED BY <1>2, <1>3, <1>4

ListRows == [owner : Owners, name : Names, default : BOOLEAN]

\* Rows that a step writes are rows, under ids there are.
LEMMA RowsKeepShape ==
  ASSUME WatchShapeInv, RowsAndWork, NEW s \in Sessions,
         CreateList(s) \/ PatchList(s) \/ DeleteList(s)
  PROVE  /\ ListIds' \subseteq 1..MaxListId /\ lastId' \in 0..MaxListId
         /\ \A i \in ListIds' : lists'[i] \in ListRows
<1>1. /\ ListIds \subseteq 1..MaxListId /\ lastId \in 0..MaxListId /\ MaxListId \in Nat
      /\ \A i \in ListIds : lists[i] \in ListRows
  BY WatchlistAssumption DEF WatchShapeInv, WatchTypeOK, ListRows
<1>2. work[s].op # "none" /\ Naming(work[s])
  <2>1. work[s].op # "none"
    BY DEF CreateList, PatchList, DeleteList, Completes
  <2>. QED BY <2>1 DEF Resting, WatchShapeInv
<1>3. \A i \in ListIds : Demoted(s)[i] \in ListRows
  <2>1. ASSUME NEW i \in ListIds PROVE Demoted(s)[i] \in ListRows
    <3>1. lists[i] \in ListRows /\ [lists[i] EXCEPT !.default = FALSE] \in ListRows
      BY <1>1 DEF ListRows
    <3>. QED BY <3>1 DEF Demoted
  <2>. QED BY <2>1
<1>4. DOMAIN Demoted(s) = ListIds
  BY DEF Demoted
<1>5. CASE UNCHANGED <<lists, lastId>>
  BY <1>1, <1>5 DEF ListIds
<1>6. CASE CreateList(s) /\ ~UNCHANGED <<lists, lastId>>
  <2>1. /\ NextId <= MaxListId /\ lastId' = NextId
        /\ lists' = [i \in ListIds \cup {NextId} |->
                       IF i = NextId THEN [owner |-> work[s].user, name |-> work[s].name,
                                           default |-> work[s].default]
                       ELSE Demoted(s)[i]]
    BY <1>6 DEF CreateList, Refuse
  <2>2. NextId \in 1..MaxListId
    BY <2>1, NextIdInRange DEF WatchShapeInv
  <2>3. work[s].op = "create"
    BY <1>6 DEF CreateList, Completes
  <2>4. [owner |-> work[s].user, name |-> work[s].name, default |-> work[s].default] \in ListRows
    BY <1>2, <2>3 DEF Naming, ListRows
  <2>5. ListIds' = ListIds \cup {NextId}
    BY <2>1 DEF ListIds
  <2>. QED BY <1>1, <1>3, <2>1, <2>2, <2>4, <2>5
<1>7. CASE PatchList(s) /\ ~UNCHANGED <<lists, lastId>>
  <2>. DEFINE w == work[s]
              i == w.list
  <2>1. /\ i \in ListIds /\ lastId' = lastId
        /\ lists' = [Demoted(s) EXCEPT ![i].name = IF w.name = "-" THEN @ ELSE w.name,
                                       ![i].default = IF w.default THEN TRUE ELSE @]
    BY <1>7 DEF PatchList, Refuse
  <2>2. w.name \in Names \cup {"-"}
    BY <1>2 DEF Naming
  <2>. HIDE DEF w, i
  <2>3. DOMAIN lists' = ListIds /\ \A j \in ListIds \ {i} : lists'[j] = Demoted(s)[j]
    BY <1>4, <2>1
  <2>4. lists'[i] \in ListRows
    <3>. DEFINE row == Demoted(s)[i]
                name == IF w.name = "-" THEN row.name ELSE w.name
                default == IF w.default THEN TRUE ELSE row.default
    <3>1. row \in ListRows
      BY <1>3, <2>1
    <3>2. name \in Names /\ default \in BOOLEAN
      BY <2>2, <3>1 DEF ListRows
    <3>3. lists'[i] = [row EXCEPT !.name = name, !.default = default]
      BY <1>4, <2>1
    <3>. HIDE DEF row, name, default
    <3>. QED BY <3>1, <3>2, <3>3 DEF ListRows
  <2>. QED BY <1>1, <1>3, <2>1, <2>3, <2>4 DEF ListIds
<1>8. CASE DeleteList(s)
  <2>1. lists' = [j \in ListIds \ {work[s].list} |-> lists[j]] /\ lastId' = lastId
    BY <1>8 DEF DeleteList
  <2>2. ListIds' = ListIds \ {work[s].list}
    BY <2>1 DEF ListIds
  <2>. QED BY <1>1, <2>1, <2>2
<1>. QED BY <1>5, <1>6, <1>7, <1>8

LEMMA WatchShapeStep ==
  ASSUME WatchShapeInv, RowsAndWork, WatchNext
  PROVE  WatchShapeInv'
<1>. PICK s \in Sessions :
       \/ \E u \in Owners : Receive(s, u)
       \/ Demote(s)
       \/ CreateList(s) \/ PatchList(s) \/ DeleteList(s) \/ ChangeItem(s) \/ ChangePrefs(s)
  BY DEF WatchNext
<1>. DEFINE Kept == UNCHANGED <<lists, items, prefs, lastId>>
            Named == \A t \in Sessions : work'[t] # Resting => Naming(work'[t])
<1>1. /\ items \subseteq [list : 1..MaxListId, sym : Stocks, memo : Memos]
      /\ prefs \in [Owners -> -1..MaxListId] /\ MaxListId \in Nat
      /\ ListIds \subseteq 1..MaxListId /\ lastId \in 0..MaxListId
      /\ \A i \in ListIds : lists[i] \in ListRows
      /\ \A t \in Sessions : work[t] # Resting => Naming(work[t])
      /\ work = [t \in Sessions |-> work[t]]
  BY WatchlistAssumption DEF WatchShapeInv, WatchTypeOK, ListRows, RowsAndWork
<1>2. CASE \E u \in Owners : Receive(s, u)
  <2>. PICK u \in Owners : Receive(s, u)
    BY <1>2
  <2>1. PICK r \in RequestsOf(u) : work' = [work EXCEPT ![s] = r]
    BY DEF Receive
  <2>2. Naming(r)
    BY <2>1, RequestsNameRows DEF WatchShapeInv
  <2>. QED BY <1>1, <2>1, <2>2 DEF Receive, WatchShapeInv, WatchTypeOK, ListIds, Naming
<1>3. CASE Demote(s)
  <2>1. Naming(work[s])
    BY <1>1, <1>3 DEF Demote, Resting
  <2>2. Naming(work'[s])
    BY <1>1, <1>3, <2>1 DEF Demote, Naming, IsRequest, Fields
  <2>3. Named
    BY <1>1, <1>3, <2>2 DEF Demote
  <2>4. UNCHANGED <<lists, items, prefs, lastId>>
    BY <1>3 DEF Demote
  <2>. QED BY <1>1, <2>3, <2>4 DEF WatchShapeInv, WatchTypeOK, ListIds, Naming, ListRows
<1>4. ASSUME work' = [work EXCEPT ![s] = Resting]
      PROVE  Named
  BY <1>1, <1>4
<1>5. ASSUME Named, ListIds' \subseteq 1..MaxListId, lastId' \in 0..MaxListId,
             \A i \in ListIds' : lists'[i] \in ListRows,
             items' \subseteq [list : 1..MaxListId, sym : Stocks, memo : Memos],
             prefs' \in [Owners -> -1..MaxListId]
      PROVE  WatchShapeInv'
  BY <1>5 DEF WatchShapeInv, WatchTypeOK, ListRows, Naming
<1>6. CASE CreateList(s) \/ PatchList(s) \/ DeleteList(s)
  <2>1. work' = [work EXCEPT ![s] = Resting]
    BY <1>6 DEF CreateList, PatchList, DeleteList, Completes
  <2>2. items' \subseteq items
    BY <1>6 DEF CreateList, PatchList, DeleteList, Refuse
  <2>3. prefs' \in [Owners -> -1..MaxListId]
    <3>1. prefs' = prefs \/ \E i : prefs' = [u \in Owners |-> IF prefs[u] = i THEN 0 ELSE prefs[u]]
      BY <1>6 DEF CreateList, PatchList, DeleteList, Refuse
    <3>2. 0 \in -1..MaxListId
      BY <1>1
    <3>. QED BY <1>1, <3>1, <3>2
  <2>. QED BY <1>1, <1>4, <1>5, <1>6, <2>1, <2>2, <2>3, RowsKeepShape
<1>7. CASE ChangeItem(s)
  <2>. DEFINE w == work[s]
              new == {[list |-> w.list, sym |-> w.sym, memo |-> w.memo]}
  <2>1. /\ w.op \in {"add", "remove", "memo"} /\ Naming(w)
        /\ work' = [work EXCEPT ![s] = Resting] /\ UNCHANGED <<lists, prefs, lastId>>
    BY <1>1, <1>7 DEF ChangeItem, Completes, Resting
  <2>2. new \subseteq [list : 1..MaxListId, sym : Stocks, memo : Memos]
    BY <2>1 DEF Naming, OfAList
  <2>3. items' \subseteq items \cup new
    BY <1>7 DEF ChangeItem
  <2>. HIDE DEF new, w
  <2>. QED BY <1>1, <1>4, <1>5, <2>1, <2>2, <2>3 DEF ListIds
<1>8. CASE ChangePrefs(s)
  <2>1. /\ Naming(work[s])
        /\ work' = [work EXCEPT ![s] = Resting] /\ UNCHANGED <<lists, items, lastId>>
        /\ prefs' = prefs \/ prefs' = [prefs EXCEPT ![work[s].user] = work[s].list]
    BY <1>1, <1>8 DEF ChangePrefs, Completes, Resting, Refuse
  <2>2. work[s].list \in -1..MaxListId
    BY <1>1, <2>1 DEF Naming
  <2>3. prefs' \in [Owners -> -1..MaxListId]
    BY <1>1, <2>1, <2>2
  <2>. QED BY <1>1, <1>4, <1>5, <2>1, <2>3 DEF ListIds
<1>. QED BY <1>2, <1>3, <1>6, <1>7, <1>8

\* Lists, items and preferences keep their shape, and ids their range, whatever
\* a request finds changed between its read and its write.
THEOREM WatchShape == WatchSpec => []WatchTypeOK
<1>1. WatchInit => WatchShapeInv /\ RowsAndWork
  <2>1. WatchInit => RowsAndWork
    BY WatchInvariantInit DEF WatchInvariant
  <2>2. WatchInit => WatchShapeInv
    BY WatchlistAssumption DEF WatchInit, WatchShapeInv, WatchTypeOK, ListIds
  <2>. QED BY <2>1, <2>2
<1>2. WatchShapeInv /\ RowsAndWork /\ [WatchNext]_watchVars => (WatchShapeInv /\ RowsAndWork)'
  <2>1. ASSUME WatchShapeInv, RowsAndWork, UNCHANGED watchVars
        PROVE  WatchShapeInv' /\ RowsAndWork'
    BY <2>1 DEF watchVars, WatchShapeInv, WatchTypeOK, RowsAndWork, ListIds, Naming
  <2>. QED BY <2>1, WatchShapeStep, RowsAndWorkStep
<1>3. WatchShapeInv => WatchTypeOK
  BY DEF WatchShapeInv
<1>. QED BY <1>1, <1>2, <1>3, PTL DEF WatchSpec
====
