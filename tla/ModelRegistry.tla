---------------------------- MODULE ModelRegistry ----------------------------
(***************************************************************************)
(* PostgresModelRegistry: the versions of a model for one modality, which  *)
(* of them serves, and the administrators who promote a version or roll    *)
(* the serving one back.  Every statement of the code names the modality,  *)
(* so modalities do not meet.                                              *)
(*                                                                         *)
(* A call is one READ COMMITTED transaction of two reads and a commit.     *)
(* Between them the others' commits become visible in the table, but not   *)
(* in the rows already loaded.  The mapper writes, by primary key, only    *)
(* the columns whose assigned value differs from the loaded one.  Row      *)
(* locks are held from the first flush to the end, so the writes of a      *)
(* transaction take effect together, at its commit.                        *)
(***************************************************************************)
EXTENDS Naturals

CONSTANTS
    Versions,        \* the registered versions
    Administrators,  \* each runs one call at a time
    NoVersion        \* the absence of a version (NULL)

ASSUME VersionAssumption == NoVersion \notin Versions

VARIABLES
    rows,         \* the table: approval, is_active and rollback_to of a version
    tx,           \* the call an administrator is in, with the rows it loaded
    overtaken,    \* history: calls during which another one committed
    raced,        \* history: whether an overtaken call ever committed
    predecessor   \* history: what served before the serving version was promoted

vars == <<rows, tx, overtaken, raced, predecessor>>

Approvals == {"draft", "evaluated", "approved", "canary", "production",
              "rolled_back", "disabled"}

Promotable == {"evaluated", "approved", "canary"}

Rows == [approval : Approvals, active : BOOLEAN, target : Versions \union {NoVersion}]

Idle == [doing |-> "nothing"]

\* What a call holds after its first read and after its second.
Choosing   == [doing : {"choosing"}, version : Versions, full : BOOLEAN, row : Rows]
Promoting  == [doing : {"promoting"}, version : Versions, full : BOOLEAN, row : Rows,
               previous : Versions \union {NoVersion}]
Retreating == [doing : {"retreating"}, version : Versions, row : Rows]
Restoring  == [doing : {"restoring"}, version : Versions, row : Rows, restored : Rows]

Transactions == {Idle} \union Choosing \union Promoting \union Retreating \union Restoring

Serving == {v \in Versions : rows[v].active}

\* The approvals of a version that has been put in service.
Released == {"canary", "production", "rolled_back"}

\* Versions are inserted by operators: at most one of them already serves.
Init == /\ \E first \in Versions \union {NoVersion}, early \in [Versions -> Approvals] :
              rows = [v \in Versions |->
                        [approval |-> IF v = first THEN "production" ELSE early[v],
                         active   |-> v = first,
                         target   |-> NoVersion]]
        /\ tx = [a \in Administrators |-> Idle]
        /\ overtaken = {}
        /\ raced = FALSE
        /\ predecessor = NoVersion

-----------------------------------------------------------------------------
(* What a transaction writes *)

\* A column keeps what is stored unless it was assigned something new.
Written(loaded, assigned, stored) == IF assigned = loaded THEN stored ELSE assigned

\* Variant: the guard `previous.id != row.id` dropped, as the in-memory registry does.
ReplacedEvenItself(t) == {t.previous} \ {NoVersion}

\* The version that a promotion takes out of service, if there is one.
Replaced(t) == {t.previous} \ {NoVersion, t.version}

AfterPromotion(t) ==
    [v \in Versions |->
        IF v = t.version
        THEN [approval |-> Written(t.row.approval,
                                   IF t.full THEN "production" ELSE "canary",
                                   rows[v].approval),
              active   |-> Written(t.row.active, TRUE, rows[v].active),
              target   |-> IF Replaced(t) = {} THEN rows[v].target
                           ELSE Written(t.row.target, t.previous, rows[v].target)]
        ELSE [rows[v] EXCEPT !.active = @ /\ v \notin Replaced(t)]]

\* Variant: the restored version is not activated.
AfterRollbackInactive(t) ==
    [rows EXCEPT ![t.version].active = FALSE,
                 ![t.version].approval = Written(t.row.approval, "rolled_back", @)]

AfterRollback(t) ==
    [v \in Versions |->
        IF v = t.version
        THEN [rows[v] EXCEPT !.active = FALSE,
                             !.approval = Written(t.row.approval, "rolled_back", @)]
        ELSE IF v = t.row.target
        THEN [rows[v] EXCEPT !.active = Written(t.restored.active, TRUE, @)]
        ELSE rows[v]]

\* Variant: no partial unique index.
AnyTable(table) == TRUE

\* The partial unique index on the modality of active rows.
UniqueActive(table) ==
    \A v, w \in Versions : table[v].active /\ table[w].active => v = w

-----------------------------------------------------------------------------
(* The steps of a call *)

\* The history of a commit: every other open call is overtaken.
Overtake(a) ==
    /\ raced' = (raced \/ a \in overtaken)
    /\ overtaken' = (overtaken \union {b \in Administrators : tx[b] # Idle}) \ {a}

\* promote: load the version, refuse one that is not promotable.
Choose(a) ==
    /\ tx[a] = Idle
    /\ \E v \in Versions, full \in BOOLEAN :
          /\ rows[v].approval \in Promotable
          /\ tx' = [tx EXCEPT ![a] = [doing |-> "choosing", version |-> v,
                                      full |-> full, row |-> rows[v]]]
    /\ UNCHANGED <<rows, overtaken, raced, predecessor>>

\* Variant: the previous version is looked up by its modality alone.
FindAnyPrevious(a) ==
    /\ tx[a].doing = "choosing"
    /\ \E p \in Versions :
          tx' = [tx EXCEPT ![a] = [doing |-> "promoting", version |-> tx[a].version,
                                   full |-> tx[a].full, row |-> tx[a].row,
                                   previous |-> p]]
    /\ UNCHANGED <<rows, overtaken, raced, predecessor>>

\* promote: find the version that serves now.
FindPrevious(a) ==
    /\ tx[a].doing = "choosing"
    /\ \E p \in IF Serving = {} THEN {NoVersion} ELSE Serving :
          tx' = [tx EXCEPT ![a] = [doing |-> "promoting", version |-> tx[a].version,
                                   full |-> tx[a].full, row |-> tx[a].row,
                                   previous |-> p]]
    /\ UNCHANGED <<rows, overtaken, raced, predecessor>>

\* promote: commit, unless the unique index refuses.
Promote(a) ==
    /\ tx[a].doing = "promoting"
    /\ UniqueActive(AfterPromotion(tx[a]))
    /\ rows' = AfterPromotion(tx[a])
    /\ tx' = [tx EXCEPT ![a] = Idle]
    /\ \/ tx[a].version \in Serving /\ UNCHANGED predecessor
       \/ /\ tx[a].version \notin Serving
          /\ predecessor' \in IF Serving = {} THEN {NoVersion} ELSE Serving
    /\ Overtake(a)

\* rollback: find the serving version, refuse one without a recorded target.
FindCurrent(a) ==
    /\ tx[a] = Idle
    /\ \E v \in Serving :
          /\ rows[v].target # NoVersion
          /\ tx' = [tx EXCEPT ![a] = [doing |-> "retreating", version |-> v,
                                      row |-> rows[v]]]
    /\ UNCHANGED <<rows, overtaken, raced, predecessor>>

\* rollback: load the target.  Rows are never deleted.
LoadTarget(a) ==
    /\ tx[a].doing = "retreating"
    /\ tx' = [tx EXCEPT ![a] = [doing |-> "restoring", version |-> tx[a].version,
                                row |-> tx[a].row,
                                restored |-> rows[tx[a].row.target]]]
    /\ UNCHANGED <<rows, overtaken, raced, predecessor>>

\* rollback: commit, unless the unique index refuses.
Rollback(a) ==
    /\ tx[a].doing = "restoring"
    /\ UniqueActive(AfterRollback(tx[a]))
    /\ rows' = AfterRollback(tx[a])
    /\ tx' = [tx EXCEPT ![a] = Idle]
    /\ predecessor' = NoVersion
    /\ Overtake(a)

\* The index refused, the server chose this transaction to end a deadlock, or
\* the connection was lost: unit_of_work rolls back.
Abort(a) ==
    /\ tx[a] # Idle
    /\ tx' = [tx EXCEPT ![a] = Idle]
    /\ overtaken' = overtaken \ {a}
    /\ UNCHANGED <<rows, raced, predecessor>>

Next == \E a \in Administrators :
            \/ Choose(a) \/ FindPrevious(a) \/ Promote(a)
            \/ FindCurrent(a) \/ LoadTarget(a) \/ Rollback(a)
            \/ Abort(a)

Spec == Init /\ [][Next]_vars

-----------------------------------------------------------------------------
(* Properties *)

\* A call holds only rows it read: the record of each position, for any promotion
\* or rollback, and a rollback always has a version to return to.
TypeOK ==
    /\ rows \in [Versions -> Rows]
    /\ tx \in [Administrators -> Transactions]
    /\ \A a \in Administrators :
          tx[a].doing \in {"retreating", "restoring"} => tx[a].row.target \in Versions
    /\ overtaken \subseteq Administrators
    /\ raced \in BOOLEAN
    /\ predecessor \in Versions \union {NoVersion}

\* A version that no evaluation released, a draft or a disabled one, is untouched by
\* every promotion and rollback: also as what a promotion replaces, and as the target
\* that a later rollback restores.
UnapprovedStayOut ==
    [][\A v \in Versions :
          rows[v].approval \in {"draft", "disabled"} => rows'[v] = rows[v]]_vars

\* A recorded rollback target is another version, and one that has been in service,
\* although the promotion read it before others moved the serving version.
TargetsHaveServed ==
    \A v \in Versions :
        rows[v].target # NoVersion =>
            /\ rows[v].target # v
            /\ rows[rows[v].target].approval \in Released

\* As long as no call commits on readings that others overtook, the rollback target
\* of a promoted version is the version that served immediately before it, through
\* canaries that are raised to full traffic, rollbacks and renewed promotions.
TargetIsPredecessor ==
    ~raced /\ predecessor # NoVersion =>
        \A v \in Serving : rows[v].target = predecessor

\* As long as no call commits on readings that others overtook, a modality that is
\* served stays served: active_for does not start to refuse the pipeline.
StaysInService == [][~raced' /\ Serving # {} => Serving' # {}]_vars

=============================================================================
