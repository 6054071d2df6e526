------------------------- MODULE ModelRegistryProofs -------------------------
(***************************************************************************)
(* Theorems about ModelRegistry, for any versions and any administrators.  *)
(***************************************************************************)
EXTENDS ModelRegistry, TLAPS

-----------------------------------------------------------------------------
(* What the positions of a call hold, field by field. *)

LEMMA HeldByChoosing ==
    ASSUME NEW t \in Transactions, t.doing = "choosing"
    PROVE  t.version \in Versions /\ t.full \in BOOLEAN /\ t.row \in Rows
  BY DEF Transactions, Idle, Choosing, Promoting, Retreating, Restoring

LEMMA HeldByPromoting ==
    ASSUME NEW t \in Transactions, t.doing = "promoting"
    PROVE  /\ t.version \in Versions /\ t.full \in BOOLEAN /\ t.row \in Rows
           /\ t.previous \in Versions \union {NoVersion}
  BY DEF Transactions, Idle, Choosing, Promoting, Retreating, Restoring

LEMMA HeldByRetreating ==
    ASSUME NEW t \in Transactions, t.doing = "retreating"
    PROVE  t.version \in Versions /\ t.row \in Rows
  BY DEF Transactions, Idle, Choosing, Promoting, Retreating, Restoring

LEMMA HeldByRestoring ==
    ASSUME NEW t \in Transactions, t.doing = "restoring"
    PROVE  t.version \in Versions /\ t.row \in Rows /\ t.restored \in Rows
  BY DEF Transactions, Idle, Choosing, Promoting, Retreating, Restoring

\* What a commit stores is again a table.
LEMMA CommitsType ==
    ASSUME rows \in [Versions -> Rows], NEW t,
           t.version \in Versions, t.row \in Rows
    PROVE  /\ t.previous \in Versions \union {NoVersion}
                 => AfterPromotion(t) \in [Versions -> Rows]
           /\ t.restored \in Rows => AfterRollback(t) \in [Versions -> Rows]
  <1>1. ASSUME t.previous \in Versions \union {NoVersion}, NEW v \in Versions
        PROVE  AfterPromotion(t)[v] \in Rows
    <2>1. rows[v] \in Rows
      OBVIOUS
    <2>2. CASE v = t.version
      BY <1>1, <2>1, <2>2 DEF AfterPromotion, Rows, Approvals, Written
    <2>3. CASE v # t.version
      BY <1>1, <2>1, <2>3 DEF AfterPromotion, Rows
    <2>4. QED
      BY <2>2, <2>3
  <1>2. ASSUME t.restored \in Rows, NEW v \in Versions
        PROVE  AfterRollback(t)[v] \in Rows
    BY <1>2 DEF AfterRollback, Rows, Approvals, Written
  <1>3. QED
    BY <1>1, <1>2 DEF AfterPromotion, AfterRollback

\* The first table: one version at most serves, with a released approval.
LEMMA InitialTable ==
    ASSUME Init
    PROVE  /\ rows \in [Versions -> Rows]
           /\ \A v \in Versions : rows[v].target = NoVersion
           /\ \A v \in Versions : rows[v].active => rows[v].approval \in Released
           /\ \A v, w \in Versions : rows[v].active /\ rows[w].active => v = w
  <1>1. PICK first \in Versions \union {NoVersion}, early \in [Versions -> Approvals] :
          rows = [v \in Versions |->
                    [approval |-> IF v = first THEN "production" ELSE early[v],
                     active   |-> v = first,
                     target   |-> NoVersion]]
    BY DEF Init
  <1>2. ASSUME NEW v \in Versions
        PROVE  /\ rows[v].approval = IF v = first THEN "production" ELSE early[v]
               /\ rows[v].active = (v = first)
               /\ rows[v].target = NoVersion
               /\ rows[v] \in Rows
    <2>1. early[v] \in Approvals
      OBVIOUS
    <2>2. rows[v] = [approval |-> IF v = first THEN "production" ELSE early[v],
                     active   |-> v = first,
                     target   |-> NoVersion]
      BY <1>1
    <2>3. (IF v = first THEN "production" ELSE early[v]) \in Approvals
      BY <2>1 DEF Approvals
    <2>4. (v = first) \in BOOLEAN
      OBVIOUS
    <2>5. rows[v] \in Rows
      BY <2>2, <2>3, <2>4 DEF Rows
    <2>6. QED
      BY <2>2, <2>5
  <1>3. rows \in [Versions -> Rows]
    BY <1>1, <1>2
  <1>4. QED
    BY <1>2, <1>3 DEF Released

-----------------------------------------------------------------------------
(* Every call holds rows of the table's type at every position, and a      *)
(* rollback that passed its check has a version to return to.              *)
THEOREM TypeCorrect == Spec => []TypeOK
  <1>1. Init => TypeOK
    <2> SUFFICES ASSUME Init PROVE TypeOK
      OBVIOUS
    <2>1. rows \in [Versions -> Rows]
      BY InitialTable
    <2>2. tx \in [Administrators -> Transactions]
      BY DEF Init, Transactions
    <2>3. QED
      BY <2>1, <2>2 DEF Init, TypeOK, Idle
  <1>2. TypeOK /\ [Next]_vars => TypeOK'
    <2> SUFFICES ASSUME TypeOK, [Next]_vars PROVE TypeOK'
      OBVIOUS
    <2> USE DEF TypeOK
    <2>1. CASE UNCHANGED vars
      BY <2>1 DEF vars
    <2>2. ASSUME NEW a \in Administrators, Choose(a) PROVE TypeOK'
      BY <2>2 DEF Choose, Transactions, Choosing, Idle
    <2>3. ASSUME NEW a \in Administrators, FindPrevious(a) PROVE TypeOK'
      <3>1. PICK p \in Versions \union {NoVersion} :
              tx' = [tx EXCEPT ![a] = [doing |-> "promoting", version |-> tx[a].version,
                                       full |-> tx[a].full, row |-> tx[a].row,
                                       previous |-> p]]
        BY <2>3 DEF FindPrevious, Serving
      <3>2. tx[a].version \in Versions /\ tx[a].full \in BOOLEAN /\ tx[a].row \in Rows
        BY <2>3, HeldByChoosing DEF FindPrevious
      <3>3. tx' \in [Administrators -> Transactions]
        BY <3>1, <3>2 DEF Transactions, Promoting
      <3>4. QED
        BY <2>3, <3>1, <3>3 DEF FindPrevious
    <2>4. ASSUME NEW a \in Administrators, Promote(a) PROVE TypeOK'
      <3>1. rows' \in [Versions -> Rows]
        BY <2>4, HeldByPromoting, CommitsType DEF Promote
      <3>2. predecessor' \in Versions \union {NoVersion}
        BY <2>4 DEF Promote, Serving
      <3>3. QED
        BY <2>4, <3>1, <3>2 DEF Promote, Overtake, Transactions, Idle
    <2>5. ASSUME NEW a \in Administrators, FindCurrent(a) PROVE TypeOK'
      <3>1. PICK v \in Serving :
              /\ rows[v].target # NoVersion
              /\ tx' = [tx EXCEPT ![a] = [doing |-> "retreating", version |-> v,
                                          row |-> rows[v]]]
        BY <2>5 DEF FindCurrent
      <3>2. v \in Versions /\ rows[v] \in Rows /\ rows[v].target \in Versions
        BY <3>1 DEF Serving, Rows
      <3>3. QED
        BY <2>5, <3>1, <3>2 DEF FindCurrent, Transactions, Retreating
    <2>6. ASSUME NEW a \in Administrators, LoadTarget(a) PROVE TypeOK'
      <3>1. /\ tx[a].version \in Versions /\ tx[a].row \in Rows
            /\ tx[a].row.target \in Versions
        BY <2>6, HeldByRetreating DEF LoadTarget
      <3>2. rows[tx[a].row.target] \in Rows
        BY <3>1
      <3>3. tx' \in [Administrators -> Transactions]
        BY <2>6, <3>1, <3>2 DEF LoadTarget, Transactions, Restoring
      <3>4. QED
        BY <2>6, <3>1, <3>3 DEF LoadTarget
    <2>7. ASSUME NEW a \in Administrators, Rollback(a) PROVE TypeOK'
      <3>1. rows' \in [Versions -> Rows]
        BY <2>7, HeldByRestoring, CommitsType DEF Rollback
      <3>2. QED
        BY <2>7, <3>1 DEF Rollback, Overtake, Transactions, Idle
    <2>8. ASSUME NEW a \in Administrators, Abort(a) PROVE TypeOK'
      BY <2>8 DEF Abort, Transactions, Idle
    <2>9. QED
      BY <2>1, <2>2, <2>3, <2>4, <2>5, <2>6, <2>7, <2>8 DEF Next
  <1>3. QED
    BY <1>1, <1>2, PTL DEF Spec

-----------------------------------------------------------------------------
(* What the partial unique index leaves of every commit: the code asks     *)
(* for "the" active version and the steps below rely on there being one.   *)
AtMostOneServes == \A v, w \in Serving : v = w

(* The unique index keeps one serving version at most, whoever commits.    *)
LEMMA OneServes == Spec => []AtMostOneServes
  <1>1. Init => AtMostOneServes
    BY InitialTable DEF AtMostOneServes, Serving
  <1>2. AtMostOneServes /\ [Next]_vars => AtMostOneServes'
    <2> SUFFICES ASSUME AtMostOneServes, [Next]_vars PROVE AtMostOneServes'
      OBVIOUS
    <2>1. CASE rows' = rows
      BY <2>1 DEF AtMostOneServes, Serving
    <2>2. CASE UniqueActive(rows')
      BY <2>2 DEF AtMostOneServes, Serving, UniqueActive
    <2>3. rows' = rows \/ UniqueActive(rows')
      BY DEF Next, vars, Choose, FindPrevious, Promote, FindCurrent, LoadTarget,
             Rollback, Abort
    <2>4. QED
      BY <2>1, <2>2, <2>3
  <1>3. QED
    BY <1>1, <1>2, PTL DEF Spec

-----------------------------------------------------------------------------
(* What calls know.  A loaded row may be out of date, but what it says of  *)
(* the version's release stays true: that is what a stale commit rests on. *)

Unapproved == {"draft", "disabled"}

Known(t) ==
    /\ t.doing \in {"choosing", "promoting"} =>
          /\ t.row.approval \in Promotable
          /\ rows[t.version].approval \notin Unapproved
          /\ t.row.approval \in Released => rows[t.version].approval \in Released
    /\ t.doing = "promoting" /\ t.previous # NoVersion =>
          rows[t.previous].approval \in Released
    /\ t.doing \in {"retreating", "restoring"} =>
          /\ rows[t.version].approval \in Released
          /\ t.row.target # t.version
          /\ rows[t.row.target].approval \in Released

CallsKnow ==
    /\ \A v \in Versions : rows[v].active => rows[v].approval \in Released
    /\ \A a \in Administrators : Known(tx[a])

Inv == TypeOK /\ TargetsHaveServed /\ CallsKnow

\* The columns after a promotion.
LEMMA PromotionWrites ==
    ASSUME NEW t, rows \in [Versions -> Rows], t.version \in Versions, NEW v \in Versions
    PROVE  /\ v = t.version =>
                /\ AfterPromotion(t)[v].approval =
                     Written(t.row.approval, IF t.full THEN "production" ELSE "canary",
                             rows[v].approval)
                /\ AfterPromotion(t)[v].active = Written(t.row.active, TRUE, rows[v].active)
                /\ AfterPromotion(t)[v].target =
                     IF Replaced(t) = {} THEN rows[v].target
                     ELSE Written(t.row.target, t.previous, rows[v].target)
           /\ v # t.version =>
                /\ AfterPromotion(t)[v].approval = rows[v].approval
                /\ AfterPromotion(t)[v].target = rows[v].target
                /\ v \notin Replaced(t) => AfterPromotion(t)[v] = rows[v]
                /\ v \in Replaced(t) => AfterPromotion(t)[v].active = FALSE
  <1>1. CASE v = t.version
    BY <1>1 DEF AfterPromotion
  <1>2. CASE v # t.version
    <2>1. rows[v] \in Rows
      OBVIOUS
    <2>2. AfterPromotion(t)[v] = [rows[v] EXCEPT !.active = @ /\ v \notin Replaced(t)]
      BY <1>2 DEF AfterPromotion
    <2>3. /\ AfterPromotion(t)[v].approval = rows[v].approval
          /\ AfterPromotion(t)[v].target = rows[v].target
      BY <2>1, <2>2 DEF Rows
    <2>4. ASSUME v \notin Replaced(t)
          PROVE  AfterPromotion(t)[v] = rows[v]
      <3>1. (rows[v].active /\ v \notin Replaced(t)) = rows[v].active
        BY <2>1, <2>4 DEF Rows
      <3>2. QED
        BY <2>1, <2>2, <3>1 DEF Rows
    <2>5. ASSUME v \in Replaced(t)
          PROVE  AfterPromotion(t)[v].active = FALSE
      BY <2>1, <2>2, <2>5 DEF Rows
    <2>6. QED
      BY <1>2, <2>3, <2>4, <2>5
  <1>3. QED
    BY <1>1, <1>2

\* The columns after a rollback.
LEMMA RollbackWrites ==
    ASSUME NEW t, rows \in [Versions -> Rows], t.version \in Versions, NEW v \in Versions
    PROVE  /\ AfterRollback(t)[v].target = rows[v].target
           /\ v = t.version =>
                /\ AfterRollback(t)[v].active = FALSE
                /\ AfterRollback(t)[v].approval =
                     Written(t.row.approval, "rolled_back", rows[v].approval)
           /\ v # t.version /\ v = t.row.target =>
                /\ AfterRollback(t)[v].approval = rows[v].approval
                /\ AfterRollback(t)[v].active = Written(t.restored.active, TRUE, rows[v].active)
           /\ v # t.version /\ v # t.row.target => AfterRollback(t)[v] = rows[v]
  <1>1. rows[v] \in Rows
    OBVIOUS
  <1>2. QED
    BY <1>1 DEF AfterRollback, Rows

\* A released version stays released, and an unapproved one is never touched.
LEMMA PromotionRespectsRelease ==
    ASSUME Inv, NEW a \in Administrators, Promote(a), NEW v \in Versions
    PROVE  /\ rows[v].approval \in Released => rows'[v].approval \in Released
           /\ rows[v].approval \notin Unapproved => rows'[v].approval \notin Unapproved
           /\ rows[v].approval \in Unapproved => rows'[v] = rows[v]
           /\ rows'[v].active => rows'[v].approval \in Released
  <1> DEFINE t == tx[a]
  <1>1. /\ t.version \in Versions /\ t.full \in BOOLEAN /\ t.row \in Rows
        /\ t.previous \in Versions \union {NoVersion}
        /\ rows \in [Versions -> Rows] /\ rows' = AfterPromotion(t)
    BY HeldByPromoting DEF Inv, TypeOK, Promote
  <1>2. /\ rows[t.version].approval \notin Unapproved
        /\ t.row.approval \in Released => rows[t.version].approval \in Released
        /\ t.previous # NoVersion => rows[t.previous].approval \in Released
        /\ rows[v].active => rows[v].approval \in Released
    BY DEF Inv, CallsKnow, Known, Promote
  <1>3. CASE v = t.version
    <2>1. rows'[v].approval = Written(t.row.approval,
                                      IF t.full THEN "production" ELSE "canary",
                                      rows[v].approval)
      BY <1>1, <1>3, PromotionWrites
    <2>2. rows'[v].approval \in Released
      BY <1>1, <1>2, <1>3, <2>1 DEF Written, Released
    <2>3. QED
      BY <1>2, <1>3, <2>2 DEF Released, Unapproved
  <1>4. CASE v # t.version
    <2>1. /\ rows'[v].approval = rows[v].approval
          /\ v \notin Replaced(t) => rows'[v] = rows[v]
          /\ v \in Replaced(t) => rows'[v].active = FALSE
      BY <1>1, <1>4, PromotionWrites
    <2>2. v \in Replaced(t) => rows[v].approval \in Released
      BY <1>2 DEF Replaced
    <2>3. QED
      BY <1>2, <2>1, <2>2 DEF Released, Unapproved
  <1>5. QED
    BY <1>3, <1>4

LEMMA RollbackRespectsRelease ==
    ASSUME Inv, NEW a \in Administrators, Rollback(a), NEW v \in Versions
    PROVE  /\ rows[v].approval \in Released => rows'[v].approval \in Released
           /\ rows[v].approval \notin Unapproved => rows'[v].approval \notin Unapproved
           /\ rows[v].approval \in Unapproved => rows'[v] = rows[v]
           /\ rows'[v].active => rows'[v].approval \in Released
  <1> DEFINE t == tx[a]
  <1>1. /\ t.version \in Versions
        /\ rows \in [Versions -> Rows] /\ rows' = AfterRollback(t)
    BY HeldByRestoring DEF Inv, TypeOK, Rollback
  <1>2. /\ rows[t.version].approval \in Released
        /\ rows[t.row.target].approval \in Released
        /\ rows[v].active => rows[v].approval \in Released
    BY DEF Inv, CallsKnow, Known, Rollback
  <1>3. CASE v = t.version
    <2>1. /\ rows'[v].active = FALSE
          /\ rows'[v].approval = Written(t.row.approval, "rolled_back", rows[v].approval)
      BY <1>1, <1>3, RollbackWrites
    <2>2. rows'[v].approval \in Released /\ rows[v].approval \in Released
      BY <1>2, <1>3, <2>1 DEF Written, Released
    <2>3. QED
      BY <2>1, <2>2 DEF Released, Unapproved
  <1>4. CASE v # t.version /\ v = t.row.target
    BY <1>1, <1>2, <1>4, RollbackWrites DEF Released, Unapproved
  <1>5. CASE v # t.version /\ v # t.row.target
    BY <1>1, <1>2, <1>5, RollbackWrites DEF Released, Unapproved
  <1>6. QED
    BY <1>3, <1>4, <1>5

\* Hence what every call knows of other versions survives every commit.
LEMMA StepsRespectRelease ==
    ASSUME Inv, [Next]_vars, NEW v \in Versions
    PROVE  /\ rows[v].approval \in Released => rows'[v].approval \in Released
           /\ rows[v].approval \notin Unapproved => rows'[v].approval \notin Unapproved
           /\ rows[v].approval \in Unapproved => rows'[v] = rows[v]
           /\ rows'[v].active => rows'[v].approval \in Released
  <1>1. CASE rows' = rows
    BY <1>1 DEF Inv, CallsKnow
  <1>2. CASE \E a \in Administrators : Promote(a)
    BY <1>2, PromotionRespectsRelease
  <1>3. CASE \E a \in Administrators : Rollback(a)
    BY <1>3, RollbackRespectsRelease
  <1>4. rows' = rows \/ \E a \in Administrators : Promote(a) \/ Rollback(a)
    BY DEF Next, vars, Choose, FindPrevious, FindCurrent, LoadTarget, Abort
  <1>5. QED
    BY <1>1, <1>2, <1>3, <1>4

\* A step changes the target of a version at most to a version the call read as
\* serving, another one.
LEMMA TargetsRemain ==
    ASSUME Inv, [Next]_vars
    PROVE  TargetsHaveServed'
  <1> SUFFICES ASSUME NEW v \in Versions, rows'[v].target # NoVersion
               PROVE  /\ rows'[v].target # v
                      /\ rows'[rows'[v].target].approval \in Released
    BY DEF TargetsHaveServed
  <1>1. rows \in [Versions -> Rows] /\ rows[v] \in Rows
    BY DEF Inv, TypeOK
  <1>2. CASE rows'[v].target = rows[v].target
    <2>1. /\ rows[v].target \in Versions /\ rows[v].target # v
          /\ rows[rows[v].target].approval \in Released
      BY <1>1, <1>2 DEF Inv, TargetsHaveServed, Rows
    <2>2. QED
      BY <1>2, <2>1, StepsRespectRelease
  <1>3. ASSUME NEW a \in Administrators, Promote(a)
        PROVE  \/ rows'[v].target = rows[v].target
               \/ /\ rows'[v].target \in Versions \ {v}
                  /\ rows[rows'[v].target].approval \in Released
    <2> DEFINE t == tx[a]
    <2>1. /\ t.version \in Versions /\ t.previous \in Versions \union {NoVersion}
          /\ rows' = AfterPromotion(t)
          /\ t.previous # NoVersion => rows[t.previous].approval \in Released
      BY <1>3, HeldByPromoting DEF Inv, TypeOK, CallsKnow, Known, Promote
    <2>2. CASE v = t.version
      <3>1. rows'[v].target = IF Replaced(t) = {} THEN rows[v].target
                              ELSE Written(t.row.target, t.previous, rows[v].target)
        BY <1>1, <2>1, <2>2, PromotionWrites
      <3>2. Replaced(t) # {} => t.previous # NoVersion /\ t.previous # v
        BY <2>2 DEF Replaced
      <3>3. QED
        BY <2>1, <3>1, <3>2 DEF Written
    <2>3. CASE v # t.version
      BY <1>1, <2>1, <2>3, PromotionWrites
    <2>4. QED
      BY <2>2, <2>3
  <1>4. ASSUME NEW a \in Administrators, Rollback(a)
        PROVE  rows'[v].target = rows[v].target
    <2>1. tx[a].version \in Versions /\ rows' = AfterRollback(tx[a])
      BY <1>4, HeldByRestoring DEF Inv, TypeOK, Rollback
    <2>2. QED
      BY <1>1, <2>1, RollbackWrites
  <1>5. rows' = rows \/ \E a \in Administrators : Promote(a) \/ Rollback(a)
    BY DEF Next, vars, Choose, FindPrevious, FindCurrent, LoadTarget, Abort
  <1>6. QED
    BY <1>2, <1>3, <1>4, <1>5, StepsRespectRelease

\* What a call knew before a step it still knows after it.
LEMMA KnowledgeLasts ==
    ASSUME Inv, [Next]_vars, NEW b \in Administrators, tx'[b] = tx[b]
    PROVE  Known(tx[b])'
  <1> DEFINE t == tx[b]
  <1>1. t \in Transactions /\ Known(t)
    BY DEF Inv, TypeOK, CallsKnow
  <1>2. t.doing \in {"choosing", "promoting"} => t.version \in Versions
    BY <1>1, HeldByChoosing, HeldByPromoting
  <1>3. t.doing = "promoting" /\ t.previous # NoVersion => t.previous \in Versions
    BY <1>1, HeldByPromoting
  <1>4. t.doing \in {"retreating", "restoring"} =>
           t.version \in Versions /\ t.row.target \in Versions
    BY <1>1, HeldByRetreating, HeldByRestoring DEF Inv, TypeOK
  <1>5. QED
    BY <1>1, <1>2, <1>3, <1>4, StepsRespectRelease DEF Known

\* What a call learns with a read is true at the read.
LEMMA KnowledgeIsTrue ==
    ASSUME Inv, NEW a \in Administrators,
           Choose(a) \/ FindPrevious(a) \/ FindCurrent(a) \/ LoadTarget(a)
    PROVE  Known(tx[a])'
  <1>1. rows' = rows /\ rows \in [Versions -> Rows] /\ tx \in [Administrators -> Transactions]
    BY DEF Inv, TypeOK, Choose, FindPrevious, FindCurrent, LoadTarget
  <1>2. CASE Choose(a)
    <2>1. PICK v \in Versions, full \in BOOLEAN :
            /\ rows[v].approval \in Promotable
            /\ tx'[a] = [doing |-> "choosing", version |-> v, full |-> full, row |-> rows[v]]
      BY <1>1, <1>2 DEF Choose
    <2>2. QED
      BY <1>1, <2>1 DEF Known, Promotable, Unapproved
  <1>3. CASE FindPrevious(a)
    <2>1. PICK p \in IF Serving = {} THEN {NoVersion} ELSE Serving :
            tx'[a] = [doing |-> "promoting", version |-> tx[a].version,
                      full |-> tx[a].full, row |-> tx[a].row, previous |-> p]
      BY <1>1, <1>3 DEF FindPrevious
    <2>2. p # NoVersion => rows[p].approval \in Released
      BY DEF Inv, CallsKnow, Serving
    <2>3. Known(tx[a]) /\ tx[a].doing = "choosing"
      BY <1>3 DEF Inv, CallsKnow, FindPrevious
    <2>4. QED
      BY <1>1, <2>1, <2>2, <2>3 DEF Known
  <1>4. CASE FindCurrent(a)
    <2>1. PICK v \in Serving :
            /\ rows[v].target # NoVersion
            /\ tx'[a] = [doing |-> "retreating", version |-> v, row |-> rows[v]]
      BY <1>1, <1>4 DEF FindCurrent
    <2>2. v \in Versions /\ rows[v].approval \in Released
      BY DEF Inv, CallsKnow, Serving
    <2>3. rows[v].target # v /\ rows[rows[v].target].approval \in Released
      BY <2>1, <2>2 DEF Inv, TargetsHaveServed
    <2>4. QED
      BY <1>1, <2>1, <2>2, <2>3 DEF Known
  <1>5. CASE LoadTarget(a)
    <2>1. tx'[a] = [doing |-> "restoring", version |-> tx[a].version, row |-> tx[a].row,
                    restored |-> rows[tx[a].row.target]]
      BY <1>1, <1>5 DEF LoadTarget
    <2>2. Known(tx[a]) /\ tx[a].doing = "retreating"
      BY <1>5 DEF Inv, CallsKnow, LoadTarget
    <2>3. QED
      BY <1>1, <2>1, <2>2 DEF Known
  <1>6. QED
    BY <1>2, <1>3, <1>4, <1>5

LEMMA InvIsInvariant == Spec => []Inv
  <1>1. Init => TargetsHaveServed /\ CallsKnow
    <2> SUFFICES ASSUME Init PROVE TargetsHaveServed /\ CallsKnow
      OBVIOUS
    <2>1. \A a \in Administrators : tx[a] = Idle
      BY DEF Init
    <2>2. QED
      BY <2>1, InitialTable DEF TargetsHaveServed, CallsKnow, Known, Idle
  <1>2. Inv /\ TypeOK' /\ [Next]_vars => TargetsHaveServed' /\ CallsKnow'
    <2> SUFFICES ASSUME Inv, TypeOK', [Next]_vars
                 PROVE  TargetsHaveServed' /\ CallsKnow'
      OBVIOUS
    <2>1. \A v \in Versions : rows'[v].active => rows'[v].approval \in Released
      BY StepsRespectRelease
    <2>2. ASSUME NEW b \in Administrators PROVE Known(tx[b])'
      <3>1. CASE tx'[b] = tx[b]
        BY <3>1, KnowledgeLasts
      <3>2. CASE tx'[b] = Idle
        BY <3>2 DEF Known, Idle
      <3>3. CASE Choose(b) \/ FindPrevious(b) \/ FindCurrent(b) \/ LoadTarget(b)
        BY <3>3, KnowledgeIsTrue
      <3>4. tx \in [Administrators -> Transactions]
        BY DEF Inv, TypeOK
      <3>5. ASSUME NEW a \in Administrators,
                   \/ Choose(a) \/ FindPrevious(a) \/ FindCurrent(a) \/ LoadTarget(a)
                   \/ Promote(a) \/ Rollback(a) \/ Abort(a)
            PROVE  tx'[b] = tx[b] \/ a = b
        BY <3>4, <3>5 DEF Choose, FindPrevious, FindCurrent, LoadTarget, Promote,
                          Rollback, Abort
      <3>6. Promote(b) \/ Rollback(b) \/ Abort(b) => tx'[b] = Idle
        BY <3>4 DEF Promote, Rollback, Abort
      <3>7. QED
        BY <3>1, <3>2, <3>3, <3>5, <3>6 DEF Next, vars
    <2>3. QED
      BY <2>1, <2>2, TargetsRemain DEF CallsKnow
  <1>3. QED
    BY <1>1, <1>2, TypeCorrect, PTL DEF Spec, Inv

-----------------------------------------------------------------------------
(* Rollback targets are other versions, and versions that have served,     *)
(* however many administrators promote and roll back at once.              *)
THEOREM TargetsAreSound == Spec => []TargetsHaveServed
  BY InvIsInvariant, PTL DEF Inv

(* No promotion or rollback touches a draft or a disabled version.         *)
THEOREM UnapprovedAreUntouched == Spec => UnapprovedStayOut
  <1>1. Inv /\ [Next]_vars =>
          [\A v \in Versions :
              rows[v].approval \in {"draft", "disabled"} => rows'[v] = rows[v]]_vars
    BY StepsRespectRelease DEF Unapproved
  <1>2. QED
    BY <1>1, InvIsInvariant, PTL DEF Spec, UnapprovedStayOut

-----------------------------------------------------------------------------
(* A call that nobody overtook still sees the table as it is.              *)

Fresh(t) ==
    /\ t.doing \in {"choosing", "promoting"} => t.row = rows[t.version]
    /\ t.doing = "promoting" =>
          IF t.previous = NoVersion THEN Serving = {} ELSE t.previous \in Serving
    /\ t.doing \in {"retreating", "restoring"} =>
          t.version \in Serving /\ t.row = rows[t.version]
    /\ t.doing = "restoring" => t.restored = rows[t.row.target]

FreshReadings == \A a \in Administrators \ overtaken : Fresh(tx[a])

LEMMA FreshInit == Init => FreshReadings
  <1> SUFFICES ASSUME Init, NEW a \in Administrators PROVE Fresh(tx[a])
    BY DEF FreshReadings
  <1>1. tx[a] = Idle
    BY DEF Init
  <1>2. QED
    BY <1>1 DEF Fresh, Idle

LEMMA FreshStep ==
    ASSUME TypeOK, FreshReadings, [Next]_vars
    PROVE  FreshReadings'
  <1> SUFFICES ASSUME NEW b \in Administrators, b \notin overtaken' PROVE Fresh(tx[b])'
    BY DEF FreshReadings
  <1>1. tx \in [Administrators -> Transactions]
    BY DEF TypeOK
  <1>2. CASE UNCHANGED vars
    BY <1>2 DEF vars, FreshReadings, Fresh, Serving
  <1>3. ASSUME NEW a \in Administrators, Promote(a) \/ Rollback(a)
        PROVE  tx'[b] = Idle
    <2>1. tx' = [tx EXCEPT ![a] = Idle]
      BY <1>3 DEF Promote, Rollback
    <2>2. overtaken' = (overtaken \union {c \in Administrators : tx[c] # Idle}) \ {a}
      BY <1>3 DEF Promote, Rollback, Overtake
    <2>3. QED
      BY <1>1, <2>1, <2>2
  <1>4. tx'[b] = Idle => Fresh(tx[b])'
    BY DEF Fresh, Idle
  <1>5. ASSUME NEW a \in Administrators, Abort(a)
        PROVE  Fresh(tx[b])'
    <2>1. CASE a = b
      BY <1>1, <1>4, <1>5, <2>1 DEF Abort
    <2>2. CASE a # b
      BY <1>1, <1>5, <2>2 DEF Abort, FreshReadings, Fresh, Serving
    <2>3. QED
      BY <2>1, <2>2
  <1>6. ASSUME NEW a \in Administrators, a # b,
               Choose(a) \/ FindPrevious(a) \/ FindCurrent(a) \/ LoadTarget(a)
        PROVE  Fresh(tx[b])'
    <2>1. rows' = rows /\ overtaken' = overtaken /\ tx'[b] = tx[b]
      BY <1>1, <1>6 DEF Choose, FindPrevious, FindCurrent, LoadTarget
    <2>2. QED
      BY <2>1 DEF FreshReadings, Fresh, Serving
  <1>7. CASE Choose(b)
    <2>1. PICK v \in Versions, full \in BOOLEAN :
            tx'[b] = [doing |-> "choosing", version |-> v, full |-> full, row |-> rows[v]]
      BY <1>1, <1>7 DEF Choose
    <2>2. QED
      BY <1>7, <2>1 DEF Choose, Fresh
  <1>8. CASE FindPrevious(b)
    <2>1. PICK p \in IF Serving = {} THEN {NoVersion} ELSE Serving :
            tx'[b] = [doing |-> "promoting", version |-> tx[b].version,
                      full |-> tx[b].full, row |-> tx[b].row, previous |-> p]
      BY <1>1, <1>8 DEF FindPrevious
    <2>2. tx[b].row = rows[tx[b].version] /\ rows' = rows
      BY <1>8 DEF FindPrevious, FreshReadings, Fresh
    <2>3. p = NoVersion => Serving = {}
      BY VersionAssumption DEF Serving
    <2>4. Serving' = Serving
      BY <2>2 DEF Serving
    <2>5. QED
      BY <2>1, <2>2, <2>3, <2>4 DEF Fresh
  <1>9. CASE FindCurrent(b)
    <2>1. PICK v \in Serving :
            tx'[b] = [doing |-> "retreating", version |-> v, row |-> rows[v]]
      BY <1>1, <1>9 DEF FindCurrent
    <2>2. QED
      BY <1>9, <2>1 DEF FindCurrent, Fresh, Serving
  <1>10. CASE LoadTarget(b)
    <2>1. tx'[b] = [doing |-> "restoring", version |-> tx[b].version, row |-> tx[b].row,
                    restored |-> rows[tx[b].row.target]]
      BY <1>1, <1>10 DEF LoadTarget
    <2>2. Fresh(tx[b]) /\ tx[b].doing = "retreating" /\ rows' = rows
      BY <1>10 DEF LoadTarget, FreshReadings
    <2>3. QED
      BY <2>1, <2>2 DEF Fresh, Serving
  <1>11. QED
    BY <1>2, <1>3, <1>4, <1>5, <1>6, <1>7, <1>8, <1>9, <1>10 DEF Next

LEMMA FreshAlways == Spec => []FreshReadings
  BY TypeCorrect, FreshInit, FreshStep, PTL DEF Spec

\* A flag assigned TRUE over an up-to-date reading is set.
LEMMA WrittenTrue == ASSUME NEW flag PROVE Written(flag, TRUE, flag)
  BY Zenon DEF Written

\* A fresh promotion puts its version in service, with what it replaces as target.
LEMMA FreshPromotion ==
    ASSUME Inv, AtMostOneServes, FreshReadings,
           NEW a \in Administrators \ overtaken, Promote(a)
    PROVE  /\ Serving' = {tx[a].version}
           /\ predecessor' # NoVersion =>
                 IF tx[a].version \in Serving
                 THEN predecessor' = predecessor /\ rows'[tx[a].version].target = rows[tx[a].version].target
                 ELSE rows'[tx[a].version].target = predecessor'
  <1> DEFINE t == tx[a]
  <1>1. /\ t.doing = "promoting" /\ t.version \in Versions
        /\ rows \in [Versions -> Rows] /\ rows' = AfterPromotion(t)
        /\ UniqueActive(rows')
    BY HeldByPromoting DEF Inv, TypeOK, Promote
  <1>2. t.row = rows[t.version] /\ t.row \in Rows
    BY <1>1 DEF FreshReadings, Fresh
  <1>3. IF t.previous = NoVersion THEN Serving = {} ELSE t.previous \in Serving
    BY <1>1 DEF FreshReadings, Fresh
  <1>4. rows'[t.version].active
    <2>1. rows'[t.version].active = Written(t.row.active, TRUE, rows[t.version].active)
      BY <1>1, PromotionWrites
    <2>2. QED
      BY <1>2, <2>1, WrittenTrue
  <1>5. Serving' = {t.version}
    BY <1>1, <1>4 DEF Serving, UniqueActive
  <1>6. CASE t.version \in Serving
    <2>1. Replaced(t) = {}
      BY <1>3, <1>6 DEF Replaced, AtMostOneServes
    <2>2. rows'[t.version].target = rows[t.version].target
      BY <1>1, <2>1, PromotionWrites
    <2>3. predecessor' = predecessor
      BY <1>6 DEF Promote
    <2>4. QED
      BY <1>5, <1>6, <2>2, <2>3
  <1>7. CASE t.version \notin Serving
    <2>1. predecessor' \in IF Serving = {} THEN {NoVersion} ELSE Serving
      BY <1>7 DEF Promote
    <2>2. ASSUME predecessor' # NoVersion PROVE rows'[t.version].target = predecessor'
      <3>1. predecessor' \in Serving /\ t.previous \in Serving /\ t.previous # NoVersion
        BY <1>3, <2>1, <2>2
      <3>2. predecessor' = t.previous
        BY <3>1 DEF AtMostOneServes
      <3>3. Replaced(t) # {}
        BY <1>7, <3>1 DEF Replaced
      <3>4. rows'[t.version].target = Written(t.row.target, t.previous, t.row.target)
        <4>1. rows'[t.version].target =
                IF Replaced(t) = {} THEN rows[t.version].target
                ELSE Written(t.row.target, t.previous, rows[t.version].target)
          BY <1>1, PromotionWrites
        <4>2. QED
          BY <1>2, <3>3, <4>1
      <3>5. QED
        BY <3>2, <3>4 DEF Written
    <2>3. QED
      BY <1>5, <1>7, <2>2
  <1>8. QED
    BY <1>6, <1>7

\* A fresh rollback puts the recorded target in service.
LEMMA FreshRollback ==
    ASSUME Inv, FreshReadings, NEW a \in Administrators \ overtaken, Rollback(a)
    PROVE  Serving' # {}
  <1> DEFINE t == tx[a]
  <1>1. /\ t.doing = "restoring" /\ t.version \in Versions /\ t.row.target \in Versions
        /\ rows \in [Versions -> Rows] /\ rows' = AfterRollback(t)
        /\ t.row.target # t.version
    BY HeldByRestoring DEF Inv, TypeOK, CallsKnow, Known, Rollback
  <1>2. t.restored = rows[t.row.target] /\ t.restored \in Rows
    BY <1>1 DEF FreshReadings, Fresh
  <1>3. rows'[t.row.target].active
    <2>1. rows'[t.row.target].active
            = Written(t.restored.active, TRUE, rows[t.row.target].active)
      BY <1>1, RollbackWrites
    <2>2. QED
      BY <1>2, <2>1, WrittenTrue
  <1>4. QED
    BY <1>1, <1>3 DEF Serving

(* While no overtaken call commits, a promoted version's rollback target   *)
(* is the version that served before it.                                   *)
THEOREM PredecessorIsTarget == Spec => []TargetIsPredecessor
  <1>1. Init => TargetIsPredecessor
    BY DEF Init, TargetIsPredecessor
  <1>2. Inv /\ AtMostOneServes /\ FreshReadings /\ TargetIsPredecessor /\ [Next]_vars
          => TargetIsPredecessor'
    <2> SUFFICES ASSUME Inv, AtMostOneServes, FreshReadings, TargetIsPredecessor,
                        [Next]_vars, ~raced', predecessor' # NoVersion,
                        NEW v \in Serving'
                 PROVE  rows'[v].target = predecessor'
      BY DEF TargetIsPredecessor
    <2>1. CASE rows' = rows /\ raced' = raced /\ predecessor' = predecessor
      BY <2>1 DEF TargetIsPredecessor, Serving
    <2>2. ASSUME NEW a \in Administrators, Promote(a)
          PROVE  rows'[v].target = predecessor'
      <3>1. a \notin overtaken /\ ~raced
        BY <2>2 DEF Promote, Overtake
      <3>2. v = tx[a].version
        BY <2>2, <3>1, FreshPromotion
      <3>3. CASE tx[a].version \in Serving
        BY <2>2, <3>1, <3>2, <3>3, FreshPromotion DEF TargetIsPredecessor
      <3>4. CASE tx[a].version \notin Serving
        BY <2>2, <3>1, <3>2, <3>4, FreshPromotion
      <3>5. QED
        BY <3>3, <3>4
    <2>3. ASSUME NEW a \in Administrators, Rollback(a) PROVE FALSE
      BY <2>3 DEF Rollback
    <2>4. QED
      BY <2>1, <2>2, <2>3
         DEF Next, vars, Choose, FindPrevious, FindCurrent, LoadTarget, Abort
  <1>3. QED
    BY <1>1, <1>2, InvIsInvariant, OneServes, FreshAlways, PTL DEF Spec

(* While no overtaken call commits, a modality that is served stays so.    *)
THEOREM ServiceIsKept == Spec => StaysInService
  <1>1. Inv /\ AtMostOneServes /\ FreshReadings /\ [Next]_vars
          => [~raced' /\ Serving # {} => Serving' # {}]_vars
    <2> SUFFICES ASSUME Inv, AtMostOneServes, FreshReadings, [Next]_vars,
                        ~raced', Serving # {}
                 PROVE  Serving' # {}
      OBVIOUS
    <2>1. CASE rows' = rows
      BY <2>1 DEF Serving
    <2>2. ASSUME NEW a \in Administrators, Promote(a) \/ Rollback(a)
          PROVE  Serving' # {}
      <3>1. a \notin overtaken
        BY <2>2 DEF Promote, Rollback, Overtake
      <3>2. QED
        BY <2>2, <3>1, FreshPromotion, FreshRollback
    <2>3. QED
      BY <2>1, <2>2 DEF Next, vars, Choose, FindPrevious, FindCurrent, LoadTarget, Abort
  <1>2. QED
    BY <1>1, InvIsInvariant, OneServes, FreshAlways, PTL DEF Spec, StaysInService

=============================================================================
