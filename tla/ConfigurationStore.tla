-------------------------- MODULE ConfigurationStore --------------------------
(***************************************************************************)
(* Configuration snapshots: the table of published ones, and the sessions  *)
(* that freeze one when they are created.  Replicas of several builds      *)
(* serve requests at once while a deployment rolls out, each with its own  *)
(* default; an administrator may insert a snapshot.                        *)
(*                                                                         *)
(* The freeze is one transaction: it looks its row up, and inserts it at   *)
(* the commit, where the primary key decides between two that found none.  *)
(***************************************************************************)
EXTENDS Integers, SequencesExt

CONSTANTS
    Requests,      \* requests to create a session, each for its own
    Builds,        \* builds that serve requests
    DefaultOf,     \* default_configuration, by build
    Publishable,   \* what an administrator may insert
    None           \* no snapshot

ASSUME ConfigurationAssumption ==
    /\ \A b \in Builds : DefaultOf[b] # None
    /\ None \notin Publishable

VARIABLES
    published,     \* the rows, by created_at: the beginning of their transaction
    creation       \* where each creation stands

configurationVars == <<published, creation>>

NotBegun == [step |-> "idle"]

ConfigurationInit ==
    /\ published = <<>>
    /\ creation = [s \in Requests |-> NotBegun]

Rows == ToSet(published)

(* The columns a row has for the versions are not compared, only the       *)
(* payload is: thresholds and fusion window.                               *)
Payload(snapshot) == <<snapshot.gate, snapshot.width>>

(* The row last begun, for any tenant, or the default of the build.        *)
Current(b) == IF published = <<>> THEN DefaultOf[b] ELSE Last(published)

Resolve(b, id) ==
    IF \E row \in Rows : row.id = id THEN CHOOSE row \in Rows : row.id = id
    ELSE IF DefaultOf[b].id = id THEN DefaultOf[b]
    ELSE None

(* CreateSession reads the snapshot, and stores its id with the session.   *)
ReadCurrent(s, b) ==
    /\ creation[s].step = "idle"
    /\ creation' = [creation EXCEPT ![s] = [step |-> "freeze", held |-> Current(b)]]
    /\ UNCHANGED published

(* The transaction begins: what is found decides, here or at the commit.   *)
BeginFreeze(s) ==
    /\ creation[s].step = "freeze"
    /\ creation' = [creation EXCEPT ![s] = [step |-> "commit", held |-> @.held,
                        found |-> \E row \in Rows : row.id = creation[s].held.id,
                        begun |-> Len(published)]]
    /\ UNCHANGED published

\* Variant: the in-memory store, which binds to whatever has the id.
AgreesWithAnything(snapshot) == TRUE

Agrees(snapshot) == \E row \in Rows : row.id = snapshot.id /\ Payload(row) = Payload(snapshot)

Finish(s, step) == creation' = [creation EXCEPT ![s] = [step |-> step, held |-> @.held]]

(* A row is there already: the freeze only checks that it is the same.     *)
ConfirmFrozen(s) ==
    /\ creation[s].step = "commit" /\ creation[s].found
    /\ IF Agrees(creation[s].held) THEN Finish(s, "answered") ELSE Finish(s, "failed")
    /\ UNCHANGED published

(* The insert, among the rows of transactions begun in the meantime; the   *)
(* primary key refuses it when another one committed the id first.         *)
InsertFrozen(s) ==
    /\ creation[s].step = "commit" /\ ~creation[s].found
    /\ IF \E row \in Rows : row.id = creation[s].held.id
       THEN Finish(s, "failed") /\ UNCHANGED published
       ELSE /\ \E place \in creation[s].begun + 1 .. Len(published) + 1 :
                   published' = InsertAt(published, place, creation[s].held)
            /\ Finish(s, "answered")

Publish(snapshot) ==
    /\ ~\E row \in Rows : row.id = snapshot.id
    /\ published' = Append(published, snapshot)
    /\ UNCHANGED creation

ConfigurationNext ==
    \/ \E s \in Requests : \/ \E b \in Builds : ReadCurrent(s, b)
                           \/ BeginFreeze(s) \/ ConfirmFrozen(s) \/ InsertFrozen(s)
    \/ \E snapshot \in Publishable : Publish(snapshot)

Answered == {s \in Requests : creation[s].step = "answered"}

-----------------------------------------------------------------------------
(* The id a created session carries resolves, in every build and from then *)
(* on, to the thresholds and the window it was created under, although     *)
(* creations, deployments and administrators race (QA-05, US-008).         *)
FrozenSnapshotsResolve ==
    \A s \in Answered, b \in Builds :
        LET found == Resolve(b, creation[s].held.id)
        IN  found # None /\ Payload(found) = Payload(creation[s].held)

=============================================================================
