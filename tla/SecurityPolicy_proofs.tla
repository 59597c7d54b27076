------------------------ MODULE SecurityPolicy_proofs ------------------------
(***************************************************************************)
(* The safety properties of SecurityPolicy for any requests, browsers,    *)
(* lifetimes and numbers of statements, with and without faults and the    *)
(* production SQL policy.                                                  *)
(***************************************************************************)
EXTENDS SecurityPolicy, TLAPS

-----------------------------------------------------------------------------
(* The inductive invariant.                                                *)

\* Roles that were not replaced long before time t.
Current(r, t) ==
    r # NoRoles => /\ r <= epoch
                   /\ r # epoch => superseded[r] + RoleBudget >= t

\* A snapshot was not captured before its roles had been replaced for longer
\* than the caches may hide it.
Dated ==
    /\ \A e \in Epochs : superseded[e] <= now
    /\ \A b \in Browsers : session[b] # NoSnapshot =>
          Current(session[b].roles, session[b].captured) /\ session[b].captured <= now
    /\ \A q \in Requests : mine[q] # NoSnapshot =>
          Current(mine[q].roles, mine[q].captured) /\ mine[q].captured <= now
    /\ \A q \in Requests : started[q] <= now
    /\ \A q \in Requests : pc[q] = "act" => Current(roles[q], started[q] - Lifetime + 1)

\* A version anybody has seen was stored before, or is the default.
Known(v) == v = 1 \/ floor[v] # Never
Stored ==
    /\ floor[1] = Never
    /\ \A v \in Versions : floor[v] <= epoch
    /\ row # NoRow => floor[row] # Never
    /\ \A r \in Rows : gone[r] + VersionBudget > now => r = NoRow \/ Known(r)
    /\ admin \in {"delete", "insert"} => next >= 2
    /\ \A b \in Browsers : session[b] # NoSnapshot => Known(session[b].version)
    /\ \A q \in Requests : mine[q] # NoSnapshot => Known(mine[q].version)
    /\ \A q \in Requests : Known(version[q])

\* Roles read after version v was seen are as new as the ones v was stored for.
NewEnough(r, v) == r # NoRoles => r >= floor[v]
Guarded ==
    RoleBudget = 0 /\ ~reused =>
        /\ \A b \in Browsers : session[b] # NoSnapshot =>
              NewEnough(session[b].roles, session[b].version)
        /\ \A q \in Requests : mine[q] # NoSnapshot =>
              NewEnough(mine[q].roles, mine[q].version)
        /\ \A q \in Requests : pc[q] = "act" => NewEnough(roles[q], version[q])

IInv == TypeOK /\ Dated /\ Stored /\ Guarded

-----------------------------------------------------------------------------
(* What reads return.                                                      *)

LEMMA SeenVersionsKnown ==
    ASSUME TypeOK, Stored, NEW v \in SeenVersions
    PROVE  v \in Versions /\ Known(v)
<1>1. 1 \in Versions
  BY PolicyAssumption, SMT DEF Versions
<1>2. \A r \in Rows : VersionOf(r) \in Versions
  BY <1>1, SMT DEF VersionOf, Rows, NoRow, Versions
<1>3. row \in Rows /\ (row # NoRow => floor[row] # Never)
  BY DEF TypeOK, Stored
<1>4. CASE v = VersionOf(row)
  BY <1>2, <1>3, <1>4 DEF VersionOf, Known
<1>5. CASE \E r \in Rows : gone[r] + VersionBudget > now /\ v = VersionOf(r)
  BY <1>2, <1>5 DEF VersionOf, Known, Stored
<1>6. CASE v = 1
  BY <1>1, <1>6 DEF Known
<1> QED
  BY <1>4, <1>5, <1>6 DEF SeenVersions

LEMMA SeenRolesCurrent ==
    ASSUME TypeOK, Dated, NEW r \in SeenRoles
    PROVE  /\ r \in Roles
           /\ Current(r, now)
           /\ RoleBudget = 0 => r \in {epoch, NoRoles}
<1>1. epoch \in Epochs /\ now \in Nat /\ superseded \in [Epochs -> Nat] /\ RoleBudget \in Nat
  BY PolicyAssumption DEF TypeOK
<1>2. CASE r = epoch
  BY <1>1, <1>2, SMT DEF Roles, Current, Epochs
<1>3. CASE r \in Epochs /\ r < epoch /\ superseded[r] + RoleBudget > now
  <2>1. superseded[r] <= now
    BY <1>3 DEF Dated
  <2>2. superseded[r] \in Nat
    BY <1>1, <1>3
  <2> QED
    BY <1>1, <1>3, <2>1, <2>2, SMT DEF Roles, Current, Epochs
<1>4. CASE r = NoRoles
  BY <1>4 DEF Roles, Current
<1> QED
  BY <1>2, <1>3, <1>4 DEF SeenRoles

\* Replacing the contents of the tables, and the passing of time, leave what
\* was current current.
LEMMA ChangeKeepsCurrent ==
    ASSUME TypeOK, Dated, Change, NEW r \in Roles, NEW t \in Int, t <= now, Current(r, t)
    PROVE  Current(r, t)'
<1>1. epoch \in Nat /\ epoch' = epoch + 1 /\ now \in Nat /\ RoleBudget \in Nat
      /\ superseded \in [Epochs -> Nat] /\ epoch \in Epochs
      /\ superseded' = [superseded EXCEPT ![epoch] = now]
  BY PolicyAssumption, SMT DEF TypeOK, Epochs, Change
<1>2. CASE r = NoRoles
  BY <1>2 DEF Current
<1>3. CASE r # NoRoles
  <2>1. r \in Epochs /\ r \in Nat
    BY <1>3, SMT DEF Roles, Epochs
  <2>2. CASE r = epoch
    BY <1>1, <2>1, <2>2, SMT DEF Current
  <2>3. CASE r # epoch
    <3>1. superseded'[r] = superseded[r] /\ superseded[r] \in Nat
      BY <1>1, <2>1, <2>3
    <3> QED
      BY <1>1, <1>3, <2>1, <2>3, <3>1, SMT DEF Current
  <2> QED
    BY <2>2, <2>3
<1> QED
  BY <1>2, <1>3

-----------------------------------------------------------------------------
THEOREM InitInv == Init => IInv
<1> SUFFICES ASSUME Init PROVE IInv
  OBVIOUS
<1> USE DEF Init
<1>1. 0 \in Epochs /\ 1 \in Versions /\ 0 \in Rows /\ S \in Nat /\ VersionBudget \in Nat
  BY PolicyAssumption, SMT DEF Epochs, Versions, Rows
<1>2. TypeOK
  <2>1. gone \in [Rows -> Int]
    BY <1>1, SMT
  <2>2. 0 \in 0 .. MaxStatements
    BY PolicyAssumption, SMT
  <2> QED
    BY <1>1, <2>1, <2>2 DEF TypeOK, NoRow, Roles
<1>3. Dated
  BY <1>1, SMT DEF Dated
<1>4. Stored
  <2>1. \A r \in Rows : ~(gone[r] + VersionBudget > now)
    BY <1>1, SMT
  <2>2. \A v \in Versions : floor[v] = Never
    BY <1>1
  <2>3. Never <= 0
    BY DEF Never
  <2> QED
    BY <1>1, <2>1, <2>2, <2>3 DEF Stored, Known
<1>5. Guarded
  BY DEF Guarded
<1> QED
  BY <1>2, <1>3, <1>4, <1>5 DEF IInv

-----------------------------------------------------------------------------
(* Types.                                                                  *)

LEMMA AdminTypes ==
    ASSUME TypeOK, Begin \/ Write \/ WriteFails \/ Bump \/ Delete \/ DeleteFails \/ Insert \/ Audit
    PROVE  TypeOK'
<1> USE DEF dataVars, rowVars, adminVars, requestVars
<1>0. MaxStatements \in Nat \ {0} /\ MaxEpoch \in Nat /\ MaxVersion \in Nat \ {0}
      /\ 0 \in 0 .. MaxStatements /\ 1 \in Versions /\ NoRow \in Rows
  BY PolicyAssumption, SMT DEF Versions, Rows, NoRow
<1>1. ASSUME Change PROVE epoch' \in Epochs /\ (now \in Nat => superseded' \in [Epochs -> Nat])
  BY <1>0, <1>1, SMT DEF Change, TypeOK, Epochs
<1>2. Cleared => clean' \in BOOLEAN
  BY DEF Cleared
<1>3. ASSUME RowDeleted
      PROVE  row' \in Rows /\ gone' \in [Rows -> Int] /\ floor' = floor /\ reused' = reused
  BY <1>0, <1>3, SMT DEF RowDeleted, TypeOK
<1>4. ASSUME RowInserted
      PROVE  /\ row' \in Rows /\ gone' \in [Rows -> Int]
             /\ floor' \in [Versions -> Epochs \cup {Never}] /\ reused' \in BOOLEAN
  <2>1. next \in Versions /\ next \in Rows /\ epoch \in Epochs /\ now \in Int
    BY <1>0, SMT DEF TypeOK, Versions, Rows
  <2>2. row' \in Rows
    BY <1>4, <2>1 DEF RowInserted
  <2>3. gone' \in [Rows -> Int]
    BY <1>4, <2>1 DEF RowInserted, TypeOK
  <2>4. floor' \in [Versions -> Epochs \cup {Never}]
    BY <1>4, <2>1 DEF RowInserted, TypeOK
  <2>5. reused' \in BOOLEAN
    BY <1>4, Zenon DEF RowInserted, TypeOK
  <2> QED
    BY <2>2, <2>3, <2>4, <2>5
<1>5. CASE Begin
  <2>1. todo' \in 0 .. MaxStatements /\ todo' # 0
    BY <1>0, <1>5, SMT DEF Begin
  <2> QED
    BY <1>5, <2>1 DEF Begin, TypeOK
<1>6. CASE Write
  <2>1. todo' \in 0 .. MaxStatements /\ (admin' = "write" => todo' # 0)
    BY <1>0, <1>6, SMT DEF Write, TypeOK
  <2> QED
    BY <1>1, <1>2, <1>6, <2>1 DEF Write, TypeOK
<1>7. CASE WriteFails
  <2>1. todo' \in 0 .. MaxStatements /\ admin' = "idle"
    BY <1>0, <1>7 DEF WriteFails
  <2>2. CASE Change /\ clean' = FALSE
    BY <1>1, <1>7, <2>1, <2>2 DEF WriteFails, TypeOK
  <2>3. CASE UNCHANGED <<dataVars, clean>>
    BY <1>7, <2>1, <2>3 DEF WriteFails, TypeOK
  <2> QED
    BY <1>7, <2>2, <2>3 DEF WriteFails
<1>8. CASE Bump
  BY <1>8 DEF Bump, TypeOK
<1>9. CASE Delete
  BY <1>2, <1>3, <1>9 DEF Delete, TypeOK
<1>10. CASE DeleteFails
  BY <1>2, <1>3, <1>10 DEF DeleteFails, TypeOK
<1>11. CASE Insert
  BY <1>2, <1>4, <1>11 DEF Insert, TypeOK
<1>12. CASE Audit
  BY <1>0, <1>2, <1>12 DEF Audit, TypeOK
<1> QED
  BY <1>5, <1>6, <1>7, <1>8, <1>9, <1>10, <1>11, <1>12

LEMMA RequestTypes ==
    ASSUME TypeOK, Dated, Stored, NEW q \in Requests,
           Arrive(q) \/ ReadVersion(q) \/ ReadRoles(q) \/ Respond(q) \/ Lose(q)
    PROVE  TypeOK'
<1> USE DEF dataVars, rowVars, adminVars, requestVars
<1>0. BrowserOf[q] \in Browsers /\ 1 \in Versions /\ NoRoles \in Roles
  BY PolicyAssumption, SMT DEF Versions, Roles
<1>1. CASE Arrive(q)
  <2>1. session[BrowserOf[q]] \in Snapshots \cup {NoSnapshot}
    BY <1>0 DEF TypeOK
  <2> QED
    BY <1>1, <2>1 DEF Arrive, TypeOK
<1>2. CASE ReadVersion(q)
  <2>1. PICK v \in SeenVersions :
            /\ version' = [version EXCEPT ![q] = v]
            /\ \/ /\ Honoured(q, v)
                  /\ pc' = [pc EXCEPT ![q] = "act"]
                  /\ roles' = [roles EXCEPT ![q] = mine[q].roles]
                  /\ mine' = [mine EXCEPT ![q] = Kept(q)]
               \/ /\ pc' = [pc EXCEPT ![q] = "roles"]
                  /\ UNCHANGED <<mine, roles>>
    BY <1>2 DEF ReadVersion
  <2>2. v \in Versions
    BY SeenVersionsKnown
  <2>3. mine[q] \in Snapshots \cup {NoSnapshot}
    BY DEF TypeOK
  <2>4. CASE Honoured(q, v) /\ pc' = [pc EXCEPT ![q] = "act"]
             /\ roles' = [roles EXCEPT ![q] = mine[q].roles]
             /\ mine' = [mine EXCEPT ![q] = Kept(q)]
    <3>1. mine[q].roles \in Roles
      BY <2>3, <2>4 DEF Honoured, Snapshots
    <3> QED
      BY <1>2, <2>1, <2>2, <2>3, <2>4, <3>1 DEF ReadVersion, Kept, TypeOK
  <2>5. CASE pc' = [pc EXCEPT ![q] = "roles"] /\ UNCHANGED <<mine, roles>>
    BY <1>2, <2>1, <2>2, <2>5 DEF ReadVersion, TypeOK
  <2> QED
    BY <2>1, <2>4, <2>5
<1>3. CASE ReadRoles(q)
  <2>1. PICK r \in SeenRoles :
            /\ roles' = [roles EXCEPT ![q] = r]
            /\ mine' = [mine EXCEPT ![q] =
                   IF S = 0 THEN @
                   ELSE [captured |-> started[q], version |-> version[q], roles |-> r]]
    BY <1>3 DEF ReadRoles
  <2>2. r \in Roles
    BY SeenRolesCurrent
  <2>3. [captured |-> started[q], version |-> version[q], roles |-> r] \in Snapshots
    BY <2>2 DEF TypeOK, Snapshots
  <2> QED
    BY <1>3, <2>1, <2>2, <2>3 DEF ReadRoles, TypeOK
<1>4. CASE Respond(q)
  BY <1>0, <1>4 DEF Respond, Leaves, TypeOK
<1>5. CASE Lose(q)
  BY <1>0, <1>5 DEF Lose, Leaves, TypeOK
<1> QED
  BY <1>1, <1>2, <1>3, <1>4, <1>5

-----------------------------------------------------------------------------
(* Snapshots and dates.                                                    *)

LEMMA LifetimePositive == Lifetime \in Nat \ {0} /\ Lifetime >= S
BY PolicyAssumption, SMT DEF Lifetime

LEMMA AdminDates ==
    ASSUME TypeOK, Dated, Begin \/ Write \/ WriteFails \/ Bump \/ Delete \/ DeleteFails \/ Insert \/ Audit
    PROVE  Dated'
<1> USE DEF dataVars, rowVars, adminVars, requestVars
<1>1. CASE UNCHANGED <<now, dataVars, requestVars>>
  BY <1>1 DEF Dated, Current
<1>2. CASE Change /\ UNCHANGED <<now, requestVars>>
  <2>0. Lifetime \in Nat \ {0} /\ now \in Nat /\ epoch \in Epochs /\ superseded \in [Epochs -> Nat]
    BY LifetimePositive DEF TypeOK
  <2>1. \A e \in Epochs : superseded'[e] <= now'
    BY <1>2, <2>0 DEF Change, Dated
  <2>2. \A b \in Browsers : session'[b] # NoSnapshot =>
           Current(session[b].roles, session[b].captured)' /\ session'[b].captured <= now'
    <3> SUFFICES ASSUME NEW b \in Browsers, session[b] # NoSnapshot
                 PROVE  Current(session[b].roles, session[b].captured)' /\ session[b].captured <= now
      BY <1>2
    <3>1. session[b].roles \in Roles /\ session[b].captured \in Int
          /\ session[b].captured <= now /\ Current(session[b].roles, session[b].captured)
      BY DEF TypeOK, Snapshots, Dated
    <3>2. \A r \in Roles, t \in Int : t <= now /\ Current(r, t) => Current(r, t)'
      BY <1>2, ChangeKeepsCurrent
    <3> QED
      BY <1>2, <3>1, <3>2 DEF Current
  <2>3. \A q \in Requests : mine'[q] # NoSnapshot =>
           Current(mine[q].roles, mine[q].captured)' /\ mine'[q].captured <= now'
    <3> SUFFICES ASSUME NEW q \in Requests, mine[q] # NoSnapshot
                 PROVE  Current(mine[q].roles, mine[q].captured)' /\ mine[q].captured <= now
      BY <1>2
    <3>1. mine[q].roles \in Roles /\ mine[q].captured \in Int
          /\ mine[q].captured <= now /\ Current(mine[q].roles, mine[q].captured)
      BY DEF TypeOK, Snapshots, Dated
    <3>2. \A r \in Roles, t \in Int : t <= now /\ Current(r, t) => Current(r, t)'
      BY <1>2, ChangeKeepsCurrent
    <3> QED
      BY <1>2, <3>1, <3>2 DEF Current
  <2>4. \A q \in Requests : pc'[q] = "act" => Current(roles[q], started[q] - Lifetime + 1)'
    <3> SUFFICES ASSUME NEW q \in Requests, pc[q] = "act"
                 PROVE  Current(roles[q], started[q] - Lifetime + 1)'
      BY <1>2
    <3>1. roles[q] \in Roles /\ started[q] \in Nat /\ started[q] <= now
          /\ Current(roles[q], started[q] - Lifetime + 1)
      BY DEF TypeOK, Dated
    <3>2. started[q] - Lifetime + 1 \in Int /\ started[q] - Lifetime + 1 <= now
      BY <2>0, <3>1, SMT
    <3>3. \A r \in Roles, t \in Int : t <= now /\ Current(r, t) => Current(r, t)'
      BY <1>2, ChangeKeepsCurrent
    <3> QED
      BY <1>2, <3>1, <3>2, <3>3 DEF Current
  <2>5. \A q \in Requests : started'[q] <= now'
    BY <1>2 DEF Dated
  <2> QED
    BY <2>1, <2>2, <2>3, <2>4, <2>5 DEF Dated
<1>3. CASE Write
  BY <1>2, <1>3 DEF Write
<1>4. CASE WriteFails
  BY <1>1, <1>2, <1>4 DEF WriteFails
<1> QED
  BY <1>1, <1>3, <1>4 DEF Begin, Bump, Delete, DeleteFails, Insert, Audit

LEMMA RequestDates ==
    ASSUME TypeOK, Dated, NEW q \in Requests,
           Arrive(q) \/ ReadVersion(q) \/ ReadRoles(q) \/ Respond(q) \/ Lose(q)
    PROVE  Dated'
<1> USE DEF dataVars
<1>0. BrowserOf[q] \in Browsers /\ S \in Nat /\ RoleBudget \in Nat /\ now \in Nat /\ epoch \in Epochs
      /\ started[q] \in Nat /\ started[q] <= now /\ superseded \in [Epochs -> Nat]
      /\ Lifetime \in Nat \ {0} /\ Lifetime >= S
  BY PolicyAssumption, LifetimePositive DEF TypeOK, Dated
<1>a. /\ session \in [Browsers -> Snapshots \cup {NoSnapshot}]
      /\ mine \in [Requests -> Snapshots \cup {NoSnapshot}]
      /\ started \in [Requests -> Nat] /\ roles \in [Requests -> Roles]
      /\ pc \in [Requests -> {"idle", "version", "roles", "act"}]
  BY DEF TypeOK
<1>b. now' = now /\ epoch' = epoch /\ superseded' = superseded
  BY DEF Arrive, ReadVersion, ReadRoles, Respond, Lose, Leaves
<1>1. CASE Arrive(q)
  BY <1>0, <1>a, <1>b, <1>1 DEF Arrive, Dated, Current
<1>2. CASE ReadVersion(q)
  <2>1. CASE mine' = [mine EXCEPT ![q] = Kept(q)] /\ roles' = [roles EXCEPT ![q] = mine[q].roles]
             /\ pc' = [pc EXCEPT ![q] = "act"] /\ UNCHANGED <<session, started>>
             /\ \E v \in SeenVersions : Honoured(q, v)
    <3>1. mine[q] \in Snapshots /\ started[q] - mine[q].captured < S
      BY <1>a, <2>1 DEF Honoured
    <3>2. Current(mine[q].roles, mine[q].captured)
      BY <3>1, <1>a, SnapshotAssumption DEF Dated
    <3>3. mine[q].roles \in Roles /\ mine[q].captured \in Nat
      BY <3>1 DEF Snapshots
    <3>4. Current(mine[q].roles, started[q] - Lifetime + 1)
      <4>1. CASE mine[q].roles = NoRoles
        BY <4>1 DEF Current
      <4>2. CASE mine[q].roles # NoRoles /\ mine[q].roles = epoch
        BY <3>2, <4>2 DEF Current
      <4>3. CASE mine[q].roles # NoRoles /\ mine[q].roles # epoch
        <5>1. mine[q].roles \in Epochs
          BY <3>3, <4>3 DEF Roles
        <5>2. superseded[mine[q].roles] \in Nat
          BY <1>0, <5>1
        <5>3. superseded[mine[q].roles] + RoleBudget >= mine[q].captured /\ mine[q].roles <= epoch
          BY <3>2, <4>3 DEF Current
        <5>4. superseded[mine[q].roles] + RoleBudget >= started[q] - Lifetime + 1
          BY <1>0, <3>1, <3>3, <5>2, <5>3, SMT
        <5> QED
          BY <5>3, <5>4 DEF Current
      <4> QED
        BY <4>1, <4>2, <4>3
    <3>5. mine' = mine
      BY <1>a, <2>1, Zenon DEF Kept
    <3>6. roles'[q] = mine[q].roles /\ \A p \in Requests \ {q} : roles'[p] = roles[p] /\ pc'[p] = pc[p]
      BY <1>a, <2>1
    <3>7. \A p \in Requests : pc'[p] = "act" => Current(roles'[p], started[p] - Lifetime + 1)
      BY <3>4, <3>6 DEF Dated
    <3> QED
      BY <1>b, <2>1, <3>5, <3>7 DEF Dated, Current
  <2>2. CASE pc' = [pc EXCEPT ![q] = "roles"] /\ UNCHANGED <<mine, roles, session, started>>
    BY <1>a, <1>b, <2>2 DEF Dated, Current
  <2> QED
    BY <1>2, <2>1, <2>2 DEF ReadVersion
<1>3. CASE ReadRoles(q)
  <2>1. PICK r \in SeenRoles :
            /\ roles' = [roles EXCEPT ![q] = r]
            /\ mine' = [mine EXCEPT ![q] =
                   IF S = 0 THEN @
                   ELSE [captured |-> started[q], version |-> version[q], roles |-> r]]
    BY <1>3 DEF ReadRoles
  <2>2. r \in Roles /\ Current(r, now)
    BY SeenRolesCurrent
  <2>3. Current(r, started[q]) /\ Current(r, started[q] - Lifetime + 1)
    <3>1. CASE r = NoRoles
      BY <3>1 DEF Current
    <3>2. CASE r # NoRoles /\ r = epoch
      BY <2>2, <3>2 DEF Current
    <3>3. CASE r # NoRoles /\ r # epoch
      <4>1. superseded[r] \in Nat
        BY <1>0, <2>2, <3>3 DEF Roles
      <4>2. superseded[r] + RoleBudget >= now /\ r <= epoch
        BY <2>2, <3>3 DEF Current
      <4>3. superseded[r] + RoleBudget >= started[q] /\ superseded[r] + RoleBudget >= started[q] - Lifetime + 1
        BY <1>0, <4>1, <4>2, SMT
      <4> QED
        BY <4>2, <4>3 DEF Current
    <3> QED
      BY <3>1, <3>2, <3>3
  <2>4. session' = session /\ started' = started
    BY <1>3 DEF ReadRoles
  <2>5. \A p \in Requests : pc'[p] = "act" => Current(roles'[p], started[p] - Lifetime + 1)
    BY <1>3, <1>a, <2>1, <2>3 DEF ReadRoles, Dated
  <2>6. \A p \in Requests : mine'[p] # NoSnapshot =>
           Current(mine'[p].roles, mine'[p].captured) /\ mine'[p].captured <= now
    <3>1. \A p \in Requests \ {q} : mine'[p] = mine[p]
      BY <1>a, <2>1
    <3>2. mine'[q] = mine[q] \/ (mine'[q].roles = r /\ mine'[q].captured = started[q])
      BY <1>a, <2>1
    <3> QED
      BY <1>0, <2>3, <3>1, <3>2 DEF Dated
  <2> QED
    BY <1>b, <2>4, <2>5, <2>6 DEF Dated, Current
<1>4. CASE Respond(q)
  <2>1. \A b \in Browsers : session'[b] \in {session[b], mine[q]}
    BY <1>0, <1>a, <1>4 DEF Respond
  <2>2. \A b \in Browsers : session'[b] # NoSnapshot =>
           Current(session'[b].roles, session'[b].captured) /\ session'[b].captured <= now
    BY <2>1 DEF Dated
  <2>3. /\ \A p \in Requests : mine'[p] # NoSnapshot => mine'[p] = mine[p]
        /\ \A p \in Requests : started'[p] = started[p] \/ started'[p] = 0
        /\ \A p \in Requests : pc'[p] = "act" => roles'[p] = roles[p] /\ started'[p] = started[p] /\ pc[p] = "act"
    BY <1>a, <1>4 DEF Respond, Leaves
  <2> QED
    BY <1>0, <1>b, <2>2, <2>3 DEF Dated, Current
<1>5. CASE Lose(q)
  <2>3. /\ \A p \in Requests : mine'[p] # NoSnapshot => mine'[p] = mine[p]
        /\ \A p \in Requests : started'[p] = started[p] \/ started'[p] = 0
        /\ \A p \in Requests : pc'[p] = "act" => roles'[p] = roles[p] /\ started'[p] = started[p] /\ pc[p] = "act"
        /\ session' = session
    BY <1>a, <1>5 DEF Lose, Leaves
  <2> QED
    BY <1>0, <1>b, <2>3 DEF Dated, Current
<1> QED
  BY <1>1, <1>2, <1>3, <1>4, <1>5

-----------------------------------------------------------------------------
(* Versions.                                                               *)

LEMMA AdminStored ==
    ASSUME TypeOK, Dated, Stored, Guarded,
           Begin \/ Write \/ WriteFails \/ Bump \/ Delete \/ DeleteFails \/ Insert \/ Audit
    PROVE  Stored' /\ Guarded'
<1> USE DEF dataVars, rowVars, adminVars, requestVars
<1>0. /\ epoch \in Nat /\ epoch \in Epochs /\ row \in Rows /\ next \in Versions /\ 1 \in Versions
      /\ gone \in [Rows -> Int] /\ floor \in [Versions -> Epochs \cup {Never}]
      /\ VersionBudget \in Nat /\ now \in Nat
      /\ \A b \in Browsers : session[b] # NoSnapshot => session[b].version \in Versions
      /\ \A q \in Requests : mine[q] # NoSnapshot => mine[q].version \in Versions
      /\ \A q \in Requests : version[q] \in Versions
  BY PolicyAssumption, SMT DEF TypeOK, Epochs, Versions, Snapshots
<1>1. ASSUME UNCHANGED <<now, rowVars, requestVars>>, epoch' \in {epoch, epoch + 1},
             admin' \in {"delete", "insert"} => next' >= 2
      PROVE  Stored' /\ Guarded'
  <2>1. \A v \in Versions : floor[v] \in Int /\ floor[v] <= epoch'
    BY <1>0, <1>1, SMT DEF Stored, Epochs, Never
  <2>2. Stored'
    BY <1>1, <2>1 DEF Stored, Known
  <2>3. Guarded'
    BY <1>1 DEF Guarded, NewEnough
  <2> QED
    BY <2>2, <2>3
<1>2. ASSUME RowDeleted, UNCHANGED <<now, epoch, next, requestVars>>, next >= 2
      PROVE  Stored' /\ Guarded'
  <2>1. \A r \in Rows : gone'[r] + VersionBudget > now => r = NoRow \/ Known(r)
    <3> SUFFICES ASSUME NEW r \in Rows, gone'[r] + VersionBudget > now, r # NoRow
                 PROVE  Known(r)
      OBVIOUS
    <3>1. CASE r = row
      BY <3>1 DEF Stored, Known
    <3>2. CASE r # row
      BY <1>0, <1>2, <3>2 DEF RowDeleted, Stored
    <3> QED
      BY <3>1, <3>2
  <2>2. Stored'
    BY <1>2, <2>1 DEF RowDeleted, Stored, Known
  <2>3. Guarded'
    BY <1>2 DEF RowDeleted, Guarded, NewEnough
  <2> QED
    BY <2>2, <2>3
<1>3. ASSUME RowInserted, UNCHANGED <<now, epoch, next, requestVars>>, next >= 2
      PROVE  Stored' /\ Guarded'
  <2>1. floor'[next] = epoch /\ next # 1 /\ epoch # Never
        /\ \A v \in Versions \ {next} : floor'[v] = floor[v]
    BY <1>0, <1>3, SMT DEF RowInserted, Never
  <2>2. \A v \in Versions : Known(v) => Known(v)'
    BY <1>0, <2>1 DEF Known
  <2>3. \A r \in Rows : r # NoRow => r \in Versions
    BY SMT DEF Rows, NoRow, Versions
  <2>4. \A r \in Rows : r # NoRow => gone'[r] = gone[r]
    BY <1>0, <1>3 DEF RowInserted
  <2>5. \A v \in Versions : floor'[v] <= epoch
    BY <1>0, <2>1 DEF Stored
  <2>6. Stored'
    <3>1. floor'[1] = Never
      BY <1>0, <2>1 DEF Stored
    <3>2. row' # NoRow => floor'[row'] # Never
      BY <1>3, <2>1 DEF RowInserted
    <3>3. \A r \in Rows : gone'[r] + VersionBudget > now' => r = NoRow \/ Known(r)'
      BY <1>3, <2>2, <2>3, <2>4 DEF Stored
    <3>4. \A b \in Browsers : session'[b] # NoSnapshot => (Known(session[b].version))'
      BY <1>0, <1>3, <2>2 DEF Stored, Known
    <3>5. \A q \in Requests : mine'[q] # NoSnapshot => (Known(mine[q].version))'
      BY <1>0, <1>3, <2>2 DEF Stored, Known
    <3>6. \A q \in Requests : (Known(version[q]))'
      BY <1>0, <1>3, <2>2 DEF Stored, Known
    <3> QED
      BY <1>3, <2>5, <3>1, <3>2, <3>3, <3>4, <3>5, <3>6 DEF Stored
  <2>7. Guarded'
    <3> SUFFICES ASSUME RoleBudget = 0, ~reused'
                 PROVE  /\ \A b \in Browsers : session'[b] # NoSnapshot =>
                              (NewEnough(session[b].roles, session[b].version))'
                        /\ \A q \in Requests : mine'[q] # NoSnapshot =>
                              (NewEnough(mine[q].roles, mine[q].version))'
                        /\ \A q \in Requests : pc'[q] = "act" => (NewEnough(roles[q], version[q]))'
      BY DEF Guarded
    <3>1. floor[next] = Never /\ ~reused
      BY <1>3, Zenon DEF RowInserted
    <3>2. \A v \in Versions : Known(v) => floor'[v] = floor[v]
      BY <2>1, <3>1 DEF Known
    <3>3. \A b \in Browsers : session[b] # NoSnapshot => floor'[session[b].version] = floor[session[b].version]
      BY <1>0, <3>2 DEF Stored
    <3>4. \A q \in Requests : mine[q] # NoSnapshot => floor'[mine[q].version] = floor[mine[q].version]
      BY <1>0, <3>2 DEF Stored
    <3>5. \A q \in Requests : floor'[version[q]] = floor[version[q]]
      BY <1>0, <3>2 DEF Stored
    <3> QED
      BY <1>3, <3>1, <3>3, <3>4, <3>5 DEF Guarded, NewEnough
  <2> QED
    BY <2>6, <2>7
<1>4. CASE Begin
  BY <1>1, <1>4 DEF Begin
<1>5. CASE Write
  BY <1>1, <1>5 DEF Write, Change
<1>6. CASE WriteFails
  BY <1>1, <1>6 DEF WriteFails, Change
<1>7. CASE Bump
  <2>1. PICK v \in SeenVersions : next' = NextVersion(v)
    BY <1>7 DEF Bump
  <2>2. v \in Versions
    BY SeenVersionsKnown
  <2>3. next' >= 2
    BY <2>1, <2>2, SMT DEF NextVersion, Versions
  <2> QED
    BY <1>1, <1>7, <2>3 DEF Bump
<1>8. CASE Delete
  BY <1>2, <1>8 DEF Delete, Stored
<1>9. CASE DeleteFails
  BY <1>1, <1>2, <1>9 DEF DeleteFails, Stored
<1>10. CASE Insert
  BY <1>1, <1>3, <1>10 DEF Insert, Stored
<1>11. CASE Audit
  BY <1>1, <1>11 DEF Audit
<1> QED
  BY <1>4, <1>5, <1>6, <1>7, <1>8, <1>9, <1>10, <1>11

LEMMA RequestStored ==
    ASSUME TypeOK, Dated, Stored, Guarded, NEW q \in Requests,
           Arrive(q) \/ ReadVersion(q) \/ ReadRoles(q) \/ Respond(q) \/ Lose(q)
    PROVE  Stored' /\ Guarded'
<1> USE DEF dataVars, rowVars, adminVars
<1>0. /\ BrowserOf[q] \in Browsers /\ 1 \in Versions
      /\ session \in [Browsers -> Snapshots \cup {NoSnapshot}]
      /\ mine \in [Requests -> Snapshots \cup {NoSnapshot}]
      /\ version \in [Requests -> Versions] /\ roles \in [Requests -> Roles]
      /\ pc \in [Requests -> {"idle", "version", "roles", "act"}]
  BY PolicyAssumption, SMT DEF TypeOK, Versions
<1>b. UNCHANGED <<now, epoch, row, gone, floor, reused, admin, next>>
  BY DEF Arrive, ReadVersion, ReadRoles, Respond, Lose, Leaves
<1>c. ASSUME \A b \in Browsers : session'[b] # NoSnapshot => Known(session'[b].version),
             \A p \in Requests : mine'[p] # NoSnapshot => Known(mine'[p].version),
             \A p \in Requests : Known(version'[p])
      PROVE  Stored'
  BY <1>b, <1>c DEF Stored, Known
<1>d. ASSUME RoleBudget = 0 /\ ~reused =>
                /\ \A b \in Browsers : session'[b] # NoSnapshot =>
                      NewEnough(session'[b].roles, session'[b].version)
                /\ \A p \in Requests : mine'[p] # NoSnapshot =>
                      NewEnough(mine'[p].roles, mine'[p].version)
                /\ \A p \in Requests : pc'[p] = "act" => NewEnough(roles'[p], version'[p])
      PROVE  Guarded'
  BY <1>b, <1>d DEF Guarded, NewEnough
<1>1. CASE Arrive(q)
  <2>1. /\ session' = session /\ version' = version /\ roles' = roles
        /\ \A p \in Requests : mine'[p] = mine[p] \/ mine'[p] = session[BrowserOf[q]]
        /\ \A p \in Requests : pc'[p] = "act" => pc[p] = "act"
    BY <1>0, <1>1 DEF Arrive
  <2>2. Stored'
    BY <1>0, <1>c, <2>1 DEF Stored
  <2>3. Guarded'
    BY <1>0, <1>d, <2>1 DEF Guarded
  <2> QED
    BY <2>2, <2>3
<1>2. CASE ReadVersion(q)
  <2>1. PICK v \in SeenVersions :
            /\ version' = [version EXCEPT ![q] = v]
            /\ \/ /\ Honoured(q, v)
                  /\ pc' = [pc EXCEPT ![q] = "act"]
                  /\ roles' = [roles EXCEPT ![q] = mine[q].roles]
                  /\ mine' = [mine EXCEPT ![q] = Kept(q)]
               \/ /\ pc' = [pc EXCEPT ![q] = "roles"]
                  /\ UNCHANGED <<mine, roles>>
    BY <1>2 DEF ReadVersion
  <2>2. v \in Versions /\ Known(v)
    BY SeenVersionsKnown
  <2>3. session' = session /\ mine' = mine
    BY <1>0, <1>2, <2>1, Zenon DEF ReadVersion, Kept
  <2>4. \A p \in Requests : Known(version'[p])
    BY <1>0, <2>1, <2>2 DEF Stored
  <2>5. Stored'
    BY <1>c, <2>3, <2>4 DEF Stored
  <2>6. \A p \in Requests \ {q} : pc'[p] = pc[p] /\ roles'[p] = roles[p] /\ version'[p] = version[p]
    BY <1>0, <2>1
  <2>7. pc'[q] = "act" => mine[q] # NoSnapshot /\ roles'[q] = mine[q].roles /\ version'[q] = mine[q].version
    BY <1>0, <2>1 DEF Honoured
  <2>8. Guarded'
    BY <1>d, <2>3, <2>6, <2>7 DEF Guarded
  <2> QED
    BY <2>5, <2>8
<1>3. CASE ReadRoles(q)
  <2>1. PICK r \in SeenRoles :
            /\ roles' = [roles EXCEPT ![q] = r]
            /\ mine' = [mine EXCEPT ![q] =
                   IF S = 0 THEN @
                   ELSE [captured |-> started[q], version |-> version[q], roles |-> r]]
    BY <1>3 DEF ReadRoles
  <2>2. session' = session /\ version' = version
    BY <1>3 DEF ReadRoles
  <2>3. /\ \A p \in Requests \ {q} : pc'[p] = pc[p] /\ roles'[p] = roles[p] /\ mine'[p] = mine[p]
        /\ roles'[q] = r
        /\ mine'[q] = mine[q] \/ (mine'[q].version = version[q] /\ mine'[q].roles = r)
    <3>1. CASE S = 0
      BY <1>0, <1>3, <2>1, <3>1 DEF ReadRoles
    <3>2. CASE S # 0
      BY <1>0, <1>3, <2>1, <3>2 DEF ReadRoles
    <3> QED
      BY <3>1, <3>2
  <2>4. Stored'
    <3>1. \A p \in Requests : mine'[p] # NoSnapshot => Known(mine'[p].version)
      BY <2>3 DEF Stored
    <3> QED
      BY <1>c, <2>2, <3>1 DEF Stored
  <2>5. RoleBudget = 0 => NewEnough(r, version[q])
    <3>1. RoleBudget = 0 => r \in {epoch, NoRoles}
      BY SeenRolesCurrent
    <3>2. floor[version[q]] <= epoch /\ floor[version[q]] \in Int /\ epoch \in Int
      BY <1>0, SMT DEF Stored, TypeOK, Epochs, Never
    <3> QED
      BY <3>1, <3>2, SMT DEF NewEnough
  <2>6. Guarded'
    <3> SUFFICES ASSUME RoleBudget = 0, ~reused
                 PROVE  /\ \A b \in Browsers : session'[b] # NoSnapshot =>
                              NewEnough(session'[b].roles, session'[b].version)
                        /\ \A p \in Requests : mine'[p] # NoSnapshot =>
                              NewEnough(mine'[p].roles, mine'[p].version)
                        /\ \A p \in Requests : pc'[p] = "act" => NewEnough(roles'[p], version'[p])
      BY <1>d
    <3> QED
      BY <2>2, <2>3, <2>5 DEF Guarded
  <2> QED
    BY <2>4, <2>6
<1>4. ASSUME Leaves(q), \A b \in Browsers : session'[b] \in {session[b], mine[q]}
      PROVE  Stored' /\ Guarded'
  <2>1. /\ \A p \in Requests : mine'[p] # NoSnapshot => mine'[p] = mine[p]
        /\ \A p \in Requests : version'[p] = version[p] \/ version'[p] = 1
        /\ \A p \in Requests : pc'[p] = "act" =>
              roles'[p] = roles[p] /\ version'[p] = version[p] /\ pc[p] = "act"
    BY <1>0, <1>4 DEF Leaves
  <2>2. Known(1)
    BY DEF Known
  <2>3. Stored'
    BY <1>4, <1>c, <2>1, <2>2 DEF Stored
  <2>4. Guarded'
    BY <1>4, <1>d, <2>1 DEF Guarded
  <2> QED
    BY <2>3, <2>4
<1>5. CASE Respond(q)
  BY <1>0, <1>4, <1>5 DEF Respond
<1>6. CASE Lose(q)
  BY <1>4, <1>6 DEF Lose
<1> QED
  BY <1>1, <1>2, <1>3, <1>5, <1>6

-----------------------------------------------------------------------------
(* The theorems.                                                           *)

LEMMA TickInv ==
    ASSUME IInv, Tick
    PROVE  IInv'
<1> USE DEF dataVars, rowVars, adminVars, requestVars
<1>0. now \in Nat /\ now' = now + 1 /\ VersionBudget \in Nat
  BY PolicyAssumption DEF Tick, IInv, TypeOK
<1>1. TypeOK'
  BY <1>0 DEF Tick, IInv, TypeOK
<1>2. Dated'
  <2>1. \A e \in Epochs : superseded[e] \in Nat /\ superseded[e] <= now + 1
    BY <1>0, SMT DEF IInv, TypeOK, Dated
  <2>2. \A q \in Requests : started[q] <= now + 1
    BY <1>0, SMT DEF IInv, TypeOK, Dated
  <2>3. \A b \in Browsers : session[b] # NoSnapshot => session[b].captured <= now + 1
    <3>1. \A b \in Browsers : session[b] # NoSnapshot => session[b].captured \in Nat /\ session[b].captured <= now
      BY DEF IInv, TypeOK, Dated, Snapshots
    <3> QED
      BY <1>0, <3>1, SMT
  <2>4. \A q \in Requests : mine[q] # NoSnapshot => mine[q].captured <= now + 1
    <3>1. \A q \in Requests : mine[q] # NoSnapshot => mine[q].captured \in Nat /\ mine[q].captured <= now
      BY DEF IInv, TypeOK, Dated, Snapshots
    <3> QED
      BY <1>0, <3>1, SMT
  <2> QED
    BY <1>0, <2>1, <2>2, <2>3, <2>4 DEF Tick, IInv, Dated, Current
<1>3. Stored'
  <2>1. \A r \in Rows : gone[r] + VersionBudget > now + 1 => gone[r] + VersionBudget > now
    <3>1. \A r \in Rows : gone[r] \in Int
      BY DEF IInv, TypeOK
    <3> QED
      BY <1>0, <3>1, SMT
  <2> QED
    BY <1>0, <2>1 DEF Tick, IInv, Stored, Known
<1>4. Guarded'
  BY DEF Tick, IInv, Guarded, NewEnough
<1> QED
  BY <1>1, <1>2, <1>3, <1>4 DEF IInv

\* The invariant is inductive: it holds in every reachable state.
THEOREM Inductive == Spec => []IInv
<1>1. IInv /\ [Next]_vars => IInv'
  <2> SUFFICES ASSUME IInv, [Next]_vars PROVE IInv'
    OBVIOUS
  <2>1. CASE Begin \/ Write \/ WriteFails \/ Bump \/ Delete \/ DeleteFails \/ Insert \/ Audit
    BY <2>1, AdminTypes, AdminDates, AdminStored DEF IInv
  <2>2. ASSUME NEW q \in Requests,
               Arrive(q) \/ ReadVersion(q) \/ ReadRoles(q) \/ Respond(q) \/ Lose(q)
        PROVE  IInv'
    BY <2>2, RequestTypes, RequestDates, RequestStored DEF IInv
  <2>3. CASE Tick
    BY <2>3, TickInv
  <2>4. CASE UNCHANGED vars
    BY <2>4 DEF vars, IInv, TypeOK, Dated, Stored, Guarded, Current, Known, NewEnough
  <2> QED
    BY <2>1, <2>2, <2>3, <2>4 DEF Next
<1> QED
  BY InitInv, <1>1, PTL DEF Spec

\* Every variable keeps its type; no request ever sees a version below 1.
THEOREM TypeCorrect == Spec => []TypeOK
<1>1. IInv => TypeOK
  BY DEF IInv
<1> QED
  BY Inductive, <1>1, PTL

\* get_user_context never hands out roles that were replaced longer ago than the
\* snapshot lifetime plus the caches' budget, whatever fails or races.
THEOREM RevocationIsBounded == Spec => []BoundedRevocation
<1>1. IInv => BoundedRevocation
  <2> SUFFICES ASSUME IInv, NEW q \in Requests, pc[q] = "act", roles[q] # NoRoles, roles[q] # epoch
               PROVE  superseded[roles[q]] + RoleBudget + Lifetime > started[q]
    BY DEF BoundedRevocation
  <2>1. superseded[roles[q]] + RoleBudget >= started[q] - Lifetime + 1
    BY DEF IInv, Dated, Current
  <2>2. Lifetime \in Nat /\ RoleBudget \in Nat /\ started[q] \in Nat /\ superseded[roles[q]] \in Nat
    BY PolicyAssumption, LifetimePositive DEF IInv, TypeOK, Roles
  <2> QED
    BY <2>1, <2>2, SMT
<1> QED
  BY Inductive, <1>1, PTL

\* Without stale roles, and unless a version is stored twice, comparing versions
\* is enough to invalidate every snapshot taken before the change.
THEOREM VersionsGuardSnapshots == Spec => []VersionGuards
<1>1. IInv => VersionGuards
  BY DEF IInv, Guarded, VersionGuards, NewEnough
<1> QED
  BY Inductive, <1>1, PTL

=============================================================================
