-------------------------- MODULE RoleGrants_proofs --------------------------
(***************************************************************************)
(* The properties of RoleGrants for any users, groups and roles, with and  *)
(* without faults and local constraints.                                   *)
(***************************************************************************)
EXTENDS RoleGrants, TLAPS

-----------------------------------------------------------------------------
(* The inductive invariant.                                                *)

Held(p) == {r \in Roles : active[p][r] > 0}
Tells(p, rs) == ~broken[p] => Held(p) = rs

\* How far operation o has come when the statements s are left, and what its
\* target then holds, whatever was broken before or unless it was.
Reached(o, s) ==
    \/ o.kind = "revoke" /\ s = <<"revoke new">> /\ Tells(o.who, audited[o.who])
    \/ o.kind = "revoke" /\ s = << >> /\ Tells(o.who, audited[o.who] \ {o.new})
    \/ o.kind # "revoke" /\ o.who \in Users /\ s = <<"revoke all", "insert new">>
    \/ o.kind # "revoke" /\ o.who \in Users /\ s = <<"insert new">> /\ Held(o.who) = {}
    \/ o.kind # "revoke" /\ o.who \in Users /\ s = << >> /\ Held(o.who) = {o.new}
    \/ /\ o.kind = "grant" /\ o.who \notin Users /\ s = <<"insert new">>
       /\ Tells(o.who, audited[o.who])
    \/ /\ o.kind = "grant" /\ o.who \notin Users /\ s = << >>
       /\ Tells(o.who, audited[o.who] \cup {o.new})
    \/ /\ o.kind = "change" /\ o.who \notin Users /\ s = <<"revoke old", "insert new">>
       /\ Tells(o.who, audited[o.who])
    \/ /\ o.kind = "change" /\ o.who \notin Users /\ s = <<"insert new">>
       /\ Tells(o.who, audited[o.who] \ {o.old})
    \/ /\ o.kind = "change" /\ o.who \notin Users /\ s = << >>
       /\ Tells(o.who, (audited[o.who] \ {o.old}) \cup {o.new})

Story ==
    /\ \A p \in Principals : op = NoOp \/ p # op.who => Tells(p, audited[p])
    /\ op # NoOp => Reached(op, plan)

IInv == TypeOK /\ OneActiveRole /\ Story

Words == {"revoke all", "revoke old", "revoke new", "insert new"}

-----------------------------------------------------------------------------
(* Statements.                                                             *)

\* The plans that occur, and how they are taken apart.
LEMMA Plans ==
    /\ \A w \in Words : Head(<<w>>) = w /\ Tail(<<w>>) = << >> /\ <<w>> # << >> /\ <<w>> \in Seq(Words)
    /\ \A v, w \in Words : /\ Head(<<v, w>>) = v /\ Tail(<<v, w>>) = <<w>> /\ <<v, w>> # << >>
                           /\ <<v, w>> \in Seq(Words)
    /\ << >> \in Seq(Words)
OBVIOUS

LEMMA RevokeHeld ==
    ASSUME TypeOK, OneActiveRole, NEW p \in Principals, NEW rs \in SUBSET Roles, Revoke(p, rs)
    PROVE  /\ active' \in [Principals -> [Roles -> Nat]]
           /\ revoked' \in [Principals -> [Roles -> Nat]]
           /\ Held(p)' = Held(p) \ rs
           /\ \A q \in Principals \ {p} : Held(q)' = Held(q)
           /\ OneActiveRole'
<1>1. active \in [Principals -> [Roles -> Nat]] /\ revoked \in [Principals -> [Roles -> Nat]]
  BY DEF TypeOK
<1>2. \A r \in Roles : active[p][r] \in Nat /\ revoked[p][r] \in Nat
  BY <1>1
<1>3. \A r \in Roles : revoked[p][r] + active[p][r] \in Nat
  BY <1>2, SMT
<1>4. active' \in [Principals -> [Roles -> Nat]]
  BY <1>1, <1>2 DEF Revoke
<1>5. revoked' \in [Principals -> [Roles -> Nat]]
  BY <1>1, <1>2, <1>3 DEF Revoke
<1>6. /\ \A r \in Roles : active'[p][r] = IF r \in rs THEN 0 ELSE active[p][r]
      /\ \A q \in Principals \ {p} : active'[q] = active[q]
  BY <1>1 DEF Revoke
<1>7. Held(p)' = Held(p) \ rs
  <2>1. \A r \in Roles : active'[p][r] > 0 <=> (active[p][r] > 0 /\ r \notin rs)
    BY <1>2, <1>6, SMT
  <2> QED
    BY <2>1 DEF Held
<1>8. \A q \in Principals \ {p} : Held(q)' = Held(q)
  BY <1>6 DEF Held
<1>9. OneActiveRole'
  <2> SUFFICES ASSUME NEW u \in Users, NEW r \in Roles, NEW s \in Roles
               PROVE  active'[u][r] <= 1 /\ (r # s => active'[u][r] = 0 \/ active'[u][s] = 0)
    BY DEF OneActiveRole
  <2>0. u \in Principals
    BY DEF Principals
  <2>1. active[u][r] <= 1 /\ (r # s => active[u][r] = 0 \/ active[u][s] = 0)
    BY DEF OneActiveRole
  <2>2. active'[u][r] \in {0, active[u][r]} /\ active'[u][s] \in {0, active[u][s]}
    BY <1>6, <2>0
  <2>3. 0 <= 1
    OBVIOUS
  <2> QED
    BY <2>1, <2>2, <2>3
<1> QED
  BY <1>4, <1>5, <1>7, <1>8, <1>9

LEMMA InsertHeld ==
    ASSUME TypeOK, OneActiveRole, NEW p \in Principals, NEW n \in Roles, Insert(p, n),
           p \in Users => Held(p) = {}
    PROVE  /\ active' \in [Principals -> [Roles -> Nat]]
           /\ revoked' \in [Principals -> [Roles -> Nat]]
           /\ Held(p)' = Held(p) \cup {n}
           /\ \A q \in Principals \ {p} : Held(q)' = Held(q)
           /\ OneActiveRole'
<1>1. active \in [Principals -> [Roles -> Nat]] /\ revoked \in [Principals -> [Roles -> Nat]]
  BY DEF TypeOK
<1>2. \A r \in Roles : active[p][r] \in Nat
  BY <1>1
<1>3. active[p][n] + 1 \in Nat /\ active[p][n] + 1 > 0
  BY <1>2, SMT
<1>4. active' \in [Principals -> [Roles -> Nat]]
  BY <1>1, <1>3 DEF Insert
<1>5. /\ active'[p][n] = active[p][n] + 1
      /\ \A r \in Roles \ {n} : active'[p][r] = active[p][r]
      /\ \A q \in Principals \ {p} : active'[q] = active[q]
  BY <1>1 DEF Insert
<1>6. Held(p)' = Held(p) \cup {n}
  BY <1>3, <1>5 DEF Held
<1>7. \A q \in Principals \ {p} : Held(q)' = Held(q)
  BY <1>5 DEF Held
<1>8. OneActiveRole'
  <2> SUFFICES ASSUME NEW u \in Users, NEW r \in Roles, NEW s \in Roles
               PROVE  active'[u][r] <= 1 /\ (r # s => active'[u][r] = 0 \/ active'[u][s] = 0)
    BY DEF OneActiveRole
  <2>0. u \in Principals
    BY DEF Principals
  <2>1. CASE u # p
    BY <1>5, <2>0, <2>1 DEF OneActiveRole
  <2>2. CASE u = p
    <3>1. \A x \in Roles : active[p][x] = 0
      <4>1. \A x \in Roles : ~(active[p][x] > 0)
        BY <2>2 DEF Held
      <4> QED
        BY <1>2, <4>1, SMT
    <3>2. active'[p][n] = 1 /\ \A x \in Roles \ {n} : active'[p][x] = 0
      BY <1>5, <3>1, SMT
    <3> QED
      BY <2>2, <3>2
  <2> QED
    BY <2>1, <2>2
<1> QED
  BY <1>1, <1>4, <1>6, <1>7, <1>8 DEF Insert

\* The UNIQUE constraints keep at most one row of a kind.
Unique == LocalDb => \A p \in Principals, r \in Roles : active[p][r] <= 1 /\ revoked[p][r] <= 1

LEMMA RevokeUnique ==
    ASSUME TypeOK, NEW p \in Principals, NEW rs \in SUBSET Roles, Revoke(p, rs), ~RevokeRefused(p, rs)
    PROVE  Unique'
<1> SUFFICES ASSUME LocalDb, NEW q \in Principals, NEW r \in Roles
             PROVE  active'[q][r] <= 1 /\ revoked'[q][r] <= 1
  BY DEF Unique
<1>1. active \in [Principals -> [Roles -> Nat]] /\ revoked \in [Principals -> [Roles -> Nat]]
  BY DEF TypeOK
<1>2. active[q][r] \in Nat /\ revoked[q][r] \in Nat /\ active[q][r] <= 1 /\ revoked[q][r] <= 1
  BY <1>1 DEF TypeOK
<1>3. CASE q = p /\ r \in rs
  <2>1. active'[q][r] = 0 /\ revoked'[q][r] = revoked[q][r] + active[q][r]
    BY <1>1, <1>3 DEF Revoke
  <2>2. ~(active[q][r] > 0 /\ active[q][r] + revoked[q][r] > 1)
    BY <1>3 DEF RevokeRefused
  <2> QED
    BY <1>2, <2>1, <2>2, SMT
<1>4. CASE ~(q = p /\ r \in rs)
  <2>1. active'[q][r] = active[q][r] /\ revoked'[q][r] = revoked[q][r]
    BY <1>1, <1>4 DEF Revoke
  <2> QED
    BY <1>2, <2>1
<1> QED
  BY <1>3, <1>4

LEMMA InsertUnique ==
    ASSUME TypeOK, NEW p \in Principals, NEW n \in Roles, Insert(p, n), ~InsertRefused(p, n)
    PROVE  Unique'
<1> SUFFICES ASSUME LocalDb, NEW q \in Principals, NEW r \in Roles
             PROVE  active'[q][r] <= 1 /\ revoked'[q][r] <= 1
  BY DEF Unique
<1>1. active \in [Principals -> [Roles -> Nat]]
  BY DEF TypeOK
<1>2. active[q][r] \in Nat /\ active[q][r] <= 1 /\ revoked[q][r] <= 1 /\ revoked' = revoked
  BY <1>1 DEF TypeOK, Insert
<1>3. CASE q = p /\ r = n
  <2>1. active'[q][r] = active[q][r] + 1 /\ ~(active[q][r] > 0)
    BY <1>1, <1>3 DEF Insert, InsertRefused
  <2> QED
    BY <1>2, <2>1, SMT
<1>4. CASE ~(q = p /\ r = n)
  <2>1. active'[q][r] = active[q][r]
    BY <1>1, <1>4 DEF Insert
  <2> QED
    BY <1>2, <2>1
<1> QED
  BY <1>3, <1>4

-----------------------------------------------------------------------------
(* Steps.                                                                  *)

\* What one statement of an operation does to the grants.
LEMMA StatementStep ==
    ASSUME IInv, plan # << >>, ~Refused(Head(plan)), Statement(Head(plan)),
           NEW p \in Principals, p = op.who
    PROVE  /\ op \in Ops /\ op # NoOp
           /\ active' \in [Principals -> [Roles -> Nat]]
           /\ revoked' \in [Principals -> [Roles -> Nat]]
           /\ Unique' /\ OneActiveRole'
           /\ \A q \in Principals \ {p} : Held(q)' = Held(q)
           /\ Head(plan) = "revoke all" => Held(p)' = {}
           /\ Head(plan) = "revoke old" => Held(p)' = Held(p) \ {op.old}
           /\ Head(plan) = "revoke new" => Held(p)' = Held(p) \ {op.new}
           /\ Head(plan) = "insert new" => Held(p)' = Held(p) \cup {op.new}
<1>1. op \in Ops /\ op # NoOp /\ Reached(op, plan)
  BY NoOpAssumption DEF IInv, TypeOK, Story
<1>2. op.old \in Roles /\ op.new \in Roles
  BY <1>1 DEF Ops
<1>3. TypeOK /\ OneActiveRole
  BY DEF IInv
<1>4. ASSUME NEW rs \in SUBSET Roles, Revoke(p, rs), ~RevokeRefused(p, rs)
      PROVE  /\ active' \in [Principals -> [Roles -> Nat]]
             /\ revoked' \in [Principals -> [Roles -> Nat]]
             /\ Unique' /\ OneActiveRole'
             /\ \A q \in Principals \ {p} : Held(q)' = Held(q)
             /\ Held(p)' = Held(p) \ rs
  BY <1>3, <1>4, RevokeHeld, RevokeUnique
<1>5. CASE Head(plan) = "revoke all"
  <2>1. Revoke(p, Roles) /\ ~RevokeRefused(p, Roles)
    BY <1>5 DEF Statement, Refused
  <2>2. Held(p) \ Roles = {}
    BY DEF Held
  <2> QED
    BY <1>1, <1>4, <1>5, <2>1, <2>2
<1>6. CASE Head(plan) = "revoke old"
  <2>1. Revoke(p, {op.old}) /\ ~RevokeRefused(p, {op.old})
    BY <1>6 DEF Statement, Refused
  <2>2. PICK rs \in SUBSET Roles : rs = {op.old}
    BY <1>2
  <2> QED
    BY <1>1, <1>4, <1>6, <2>1, <2>2
<1>7. CASE Head(plan) = "revoke new"
  <2>1. Revoke(p, {op.new}) /\ ~RevokeRefused(p, {op.new})
    BY <1>7 DEF Statement, Refused
  <2>2. PICK rs \in SUBSET Roles : rs = {op.new}
    BY <1>2
  <2> QED
    BY <1>1, <1>4, <1>7, <2>1, <2>2
<1>8. CASE Head(plan) = "insert new"
  <2>1. PICK n \in Roles : n = op.new
    BY <1>2
  <2>2. Insert(p, n) /\ ~InsertRefused(p, n)
    BY <1>8, <2>1 DEF Statement, Refused
  <2>3. p \in Users => Held(p) = {}
    BY <1>1, <1>8, Plans DEF Reached, Words
  <2>4. Unique'
    BY <1>3, <2>2, InsertUnique
  <2> QED
    BY <1>1, <1>3, <1>8, <2>1, <2>2, <2>3, <2>4, InsertHeld
<1>9. Head(plan) \in Words
  BY <1>1, Plans DEF Reached, Words
<1> QED
  BY <1>5, <1>6, <1>7, <1>8, <1>9 DEF Words

LEMMA ExecuteStep ==
    ASSUME IInv, Execute
    PROVE  IInv'
<1>1. plan # << >> /\ ~Refused(Head(plan)) /\ Statement(Head(plan))
      /\ plan' = Tail(plan) /\ op' = op /\ audited' = audited /\ broken' = broken
  BY DEF Execute
<1>2. op \in Ops /\ op # NoOp /\ Reached(op, plan)
  BY <1>1 DEF IInv, TypeOK, Story
<1>a. PICK t \in Principals : t = op.who
  BY <1>2 DEF Ops
<1>b. /\ active' \in [Principals -> [Roles -> Nat]]
      /\ revoked' \in [Principals -> [Roles -> Nat]]
      /\ Unique' /\ OneActiveRole'
      /\ \A q \in Principals \ {t} : Held(q)' = Held(q)
      /\ Head(plan) = "revoke all" => Held(t)' = {}
      /\ Head(plan) = "revoke old" => Held(t)' = Held(t) \ {op.old}
      /\ Head(plan) = "revoke new" => Held(t)' = Held(t) \ {op.new}
      /\ Head(plan) = "insert new" => Held(t)' = Held(t) \cup {op.new}
  BY <1>1, <1>a, StatementStep
<1>3. TypeOK'
  <2>1. plan' \in Seq(Words)
    BY <1>1, <1>2, Plans DEF Reached, Words
  <2> QED
    BY <1>1, <1>b, <2>1 DEF IInv, TypeOK, Unique, Words
<1>4. Story'
  <2>1. \A p \in Principals : p # op.who => Tells(p, audited[p])'
    <3>1. \A p \in Principals : p # op.who => Tells(p, audited[p]) /\ Held(p)' = Held(p)
      BY <1>1, <1>a, <1>b DEF IInv, Story
    <3> QED
      BY <1>1, <3>1 DEF Tells
  <2>2. Reached(op, plan)'
    <3> USE <1>1, <1>a, <1>b, Plans DEF Words
    <3>1. CASE op.kind = "revoke" /\ plan = <<"revoke new">> /\ Tells(op.who, audited[op.who])
      BY <3>1 DEF Reached, Tells
    <3>2. CASE op.kind # "revoke" /\ op.who \in Users /\ plan = <<"revoke all", "insert new">>
      BY <3>2 DEF Reached
    <3>3. CASE op.kind # "revoke" /\ op.who \in Users /\ plan = <<"insert new">> /\ Held(op.who) = {}
      BY <3>3 DEF Reached
    <3>4. CASE op.kind = "grant" /\ op.who \notin Users /\ plan = <<"insert new">>
               /\ Tells(op.who, audited[op.who])
      BY <3>4 DEF Reached, Tells
    <3>5. CASE op.kind = "change" /\ op.who \notin Users /\ plan = <<"revoke old", "insert new">>
               /\ Tells(op.who, audited[op.who])
      BY <3>5 DEF Reached, Tells
    <3>6. CASE op.kind = "change" /\ op.who \notin Users /\ plan = <<"insert new">>
               /\ Tells(op.who, audited[op.who] \ {op.old})
      BY <3>6 DEF Reached, Tells
    <3> QED
      BY <1>2, <3>1, <3>2, <3>3, <3>4, <3>5, <3>6 DEF Reached
  <2> QED
    BY <1>1, <1>2, <2>1, <2>2 DEF Story
<1> QED
  BY <1>b, <1>3, <1>4 DEF IInv

\* Breaking an operation off disturbs nobody but its target.
LEMMA AbandonStep ==
    ASSUME IInv, Abandon, op # NoOp,
           active' \in [Principals -> [Roles -> Nat]],
           revoked' \in [Principals -> [Roles -> Nat]],
           Unique', OneActiveRole',
           \A q \in Principals \ {op.who} : Held(q)' = Held(q)
    PROVE  IInv'
<1>1. op' = NoOp /\ plan' = << >> /\ audited' = audited
      /\ broken' = [broken EXCEPT ![op.who] = TRUE]
  BY DEF Abandon
<1>2. op.who \in Principals
  BY DEF IInv, TypeOK, Ops
<1>3. TypeOK'
  BY <1>1, <1>2, Plans DEF IInv, TypeOK, Unique, Words
<1>4. \A p \in Principals : Tells(p, audited[p])'
  <2>1. ASSUME NEW p \in Principals PROVE Tells(p, audited[p])'
    <3>1. CASE p = op.who
      BY <1>1, <1>2, <3>1 DEF Tells, IInv, TypeOK
    <3>2. CASE p # op.who
      <4>1. Tells(p, audited[p]) /\ Held(p)' = Held(p) /\ broken'[p] = broken[p]
        BY <1>1, <3>2 DEF IInv, Story, TypeOK
      <4> QED
        BY <1>1, <4>1 DEF Tells
    <3> QED
      BY <3>1, <3>2
  <2> QED
    BY <2>1
<1> QED
  BY <1>1, <1>3, <1>4 DEF IInv, Story

LEMMA BeginStep ==
    ASSUME IInv, NEW o \in Ops, Begin(o)
    PROVE  IInv'
<1>1. op = NoOp /\ op' = o /\ plan' = PlanOf(o) /\ o # NoOp
      /\ active' = active /\ revoked' = revoked /\ audited' = audited /\ broken' = broken
  BY NoOpAssumption DEF Begin
<1>2. o.who \in Principals /\ o.kind \in {"grant", "change", "revoke"}
  BY DEF Ops
<1>3. TypeOK'
  <2>1. plan' \in Seq(Words)
    BY <1>1, Plans DEF PlanOf, UserPlan, GroupPlan, Words
  <2> QED
    BY <1>1, <2>1 DEF IInv, TypeOK, Words
<1>4. \A p \in Principals : Tells(p, audited[p])
  BY <1>1 DEF IInv, Story
<1>5. Reached(o, PlanOf(o))
  BY <1>2, <1>4 DEF Reached, PlanOf, UserPlan, GroupPlan
<1>6. Story'
  BY <1>1, <1>4, <1>5 DEF Story, Reached, Tells, Held
<1>7. OneActiveRole'
  BY <1>1 DEF IInv, OneActiveRole
<1> QED
  BY <1>3, <1>6, <1>7 DEF IInv

LEMMA AuditStep ==
    ASSUME IInv, Audit
    PROVE  IInv'
<1>1. op # NoOp /\ plan = << >> /\ op' = NoOp
      /\ active' = active /\ revoked' = revoked /\ plan' = plan
      /\ audited' = [audited EXCEPT ![op.who] = Told(op)]
  BY DEF Audit
<1>2. op \in Ops /\ op.who \in Principals /\ op.new \in Roles /\ op.old \in Roles
      /\ op.kind \in {"grant", "change", "revoke"} /\ Reached(op, << >>)
  BY <1>1 DEF IInv, TypeOK, Ops, Story
<1>3. Told(op) \in SUBSET Roles
  <2>1. audited[op.who] \in SUBSET Roles
    BY <1>2 DEF IInv, TypeOK
  <2> QED
    BY <1>2, <2>1 DEF Told
<1>4. broken' \in [Principals -> BOOLEAN]
      /\ (\A p \in Principals \ {op.who} : broken'[p] = broken[p])
      /\ (broken'[op.who] = (broken[op.who] /\ ~(op.who \in Users /\ op.kind # "revoke")))
  <2>1. broken' = [broken EXCEPT ![op.who] = @ /\ ~(op.who \in Users /\ op.kind # "revoke")]
    BY DEF Audit
  <2> QED
    BY <1>2, <2>1, Zenon DEF IInv, TypeOK
<1>5. TypeOK'
  BY <1>1, <1>2, <1>3, <1>4, Plans DEF IInv, TypeOK, Words
<1>6. audited'[op.who] = Told(op) /\ \A p \in Principals \ {op.who} : audited'[p] = audited[p]
  BY <1>1, <1>2 DEF IInv, TypeOK
<1>7. ~broken'[op.who] => Held(op.who) = Told(op)
  <2> SUFFICES ASSUME ~broken'[op.who] PROVE Held(op.who) = Told(op)
    OBVIOUS
  <2>0. \A w \in Words : <<w>> # << >>
    BY Plans
  <2>1. CASE op.kind = "revoke"
    <3>1. Tells(op.who, audited[op.who] \ {op.new})
      BY <1>2, <2>0, <2>1 DEF Reached, Words
    <3>2. ~broken[op.who]
      BY <1>4, <2>1
    <3> QED
      BY <2>1, <3>1, <3>2 DEF Told, Tells
  <2>2. CASE op.kind # "revoke" /\ op.who \in Users
    <3>1. Held(op.who) = {op.new}
      BY <1>2, <2>0, <2>2, Plans DEF Reached, Words
    <3> QED
      BY <1>2, <2>2, <3>1 DEF Told
  <2>3. CASE op.kind = "grant" /\ op.who \notin Users
    <3>1. Tells(op.who, audited[op.who] \cup {op.new})
      BY <1>2, <2>0, <2>3, Plans DEF Reached, Words
    <3>2. ~broken[op.who]
      BY <1>4, <2>3
    <3> QED
      BY <2>3, <3>1, <3>2 DEF Told, Tells
  <2>4. CASE op.kind = "change" /\ op.who \notin Users
    <3>1. Tells(op.who, (audited[op.who] \ {op.old}) \cup {op.new})
      BY <1>2, <2>0, <2>4, Plans DEF Reached, Words
    <3>2. ~broken[op.who]
      BY <1>4, <2>4
    <3> QED
      BY <2>4, <3>1, <3>2 DEF Told, Tells
  <2> QED
    BY <1>2, <2>1, <2>2, <2>3, <2>4
<1>8. \A p \in Principals : Tells(p, audited[p])'
  <2>1. ASSUME NEW p \in Principals PROVE Tells(p, audited[p])'
    <3>0. Held(p)' = Held(p)
      BY <1>1 DEF Held
    <3>1. CASE p = op.who
      BY <1>6, <1>7, <3>0, <3>1 DEF Tells
    <3>2. CASE p # op.who
      <4>1. Tells(p, audited[p])
        BY <3>2 DEF IInv, Story
      <4> QED
        BY <1>4, <1>6, <3>0, <3>2, <4>1 DEF Tells
    <3> QED
      BY <3>1, <3>2
  <2> QED
    BY <2>1
<1>9. OneActiveRole'
  BY <1>1 DEF IInv, OneActiveRole
<1> QED
  BY <1>1, <1>5, <1>8, <1>9 DEF IInv, Story

LEMMA Untouched ==
    ASSUME IInv, UNCHANGED <<active, revoked>>
    PROVE  /\ active' \in [Principals -> [Roles -> Nat]]
           /\ revoked' \in [Principals -> [Roles -> Nat]]
           /\ Unique' /\ OneActiveRole'
           /\ \A q \in Principals : Held(q)' = Held(q)
BY DEF IInv, TypeOK, Unique, OneActiveRole, Held

-----------------------------------------------------------------------------
(* The theorems.                                                           *)

\* The invariant is inductive: it holds in every reachable state.
THEOREM Inductive == Spec => []IInv
<1>1. Init => IInv
  <2> SUFFICES ASSUME Init PROVE IInv
    OBVIOUS
  <2>1. TypeOK
    <3>1. 0 \in Nat /\ 0 <= 1
      BY SMT
    <3>2. plan \in Seq(Words) /\ op = NoOp /\ plan = << >>
      BY Plans DEF Init
    <3>3. active \in [Principals -> [Roles -> Nat]] /\ revoked \in [Principals -> [Roles -> Nat]]
      BY <3>1 DEF Init
    <3>4. audited \in [Principals -> SUBSET Roles] /\ broken \in [Principals -> BOOLEAN]
      BY Zenon DEF Init
    <3>5. \A p \in Principals, r \in Roles : active[p][r] = 0 /\ revoked[p][r] = 0
      BY DEF Init
    <3> QED
      BY <3>1, <3>2, <3>3, <3>4, <3>5 DEF TypeOK, Words
  <2>2. OneActiveRole
    BY SMT DEF Init, OneActiveRole, Principals
  <2>3. \A p \in Principals : Held(p) = {}
    BY SMT DEF Init, Held
  <2>4. Story
    BY <2>3 DEF Init, Story, Tells
  <2> QED
    BY <2>1, <2>2, <2>4 DEF IInv
<1>2. IInv /\ [Next]_vars => IInv'
  <2> SUFFICES ASSUME IInv, [Next]_vars PROVE IInv'
    OBVIOUS
  <2>1. ASSUME NEW o \in Ops, Begin(o) PROVE IInv'
    BY <2>1, BeginStep
  <2>2. CASE Execute
    BY <2>2, ExecuteStep
  <2>3. CASE ExecuteFails
    <3>1. op # NoOp
      BY <2>3 DEF ExecuteFails, IInv, TypeOK
    <3> QED
      BY <2>3, <3>1, Untouched, AbandonStep DEF ExecuteFails
  <2>4. CASE ExecuteUnreported
    <3>1. op \in Ops /\ op # NoOp
      BY <2>4 DEF ExecuteUnreported, IInv, TypeOK
    <3>2. PICK t \in Principals : t = op.who
      BY <3>1 DEF Ops
    <3> QED
      BY <2>4, <3>1, <3>2, StatementStep, AbandonStep DEF ExecuteUnreported
  <2>5. CASE Audit
    BY <2>5, AuditStep
  <2>6. CASE AuditFails
    BY <2>6, Untouched, AbandonStep DEF AuditFails
  <2>7. CASE UNCHANGED vars
    BY ZenonT(60), <2>7 DEF vars, IInv, TypeOK, OneActiveRole, Story, Reached, Tells, Held
  <2> QED
    BY <2>1, <2>2, <2>3, <2>4, <2>5, <2>6, <2>7 DEF Next
<1> QED
  BY <1>1, <1>2, PTL DEF Spec

\* The state is well typed, and the local schema's constraints are respected.
THEOREM TypeCorrect == Spec => []TypeOK
<1>1. IInv => TypeOK
  BY DEF IInv
<1> QED
  BY Inductive, <1>1, PTL

\* No user ever has two active direct roles, through every failure.
THEOREM OneRolePerUser == Spec => []OneActiveRole
<1>1. IInv => OneActiveRole
  BY DEF IInv
<1> QED
  BY Inductive, <1>1, PTL

\* Replaying the audit trail gives the grants of everybody whose operations all
\* came to their end.
THEOREM AuditIsComplete == Spec => []AuditTells
<1>1. IInv => AuditTells
  BY DEF IInv, Story, AuditTells, Tells, Held
<1> QED
  BY Inductive, <1>1, PTL

=============================================================================
