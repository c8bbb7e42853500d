----------------------------- MODULE Connections -----------------------------
(***************************************************************************)
(* The SMB connections: app/services/connection_manager.py, called by the  *)
(* forms of app/routers/connections.py and by the thread of                *)
(* app/services/connection_health_monitor.py.                              *)
(*                                                                         *)
(* A connection is a row and a mount outside the database, made before the *)
(* row and removed before it; no lock covers the two.                      *)
(***************************************************************************)
EXTENDS Naturals, Sequences

CONSTANTS
  Create,      \* the add forms sent; a row has the id of the form that made it
  Asks,        \* what they may ask for: functions to a host name, given as a
               \* sequence of labels, and a purpose
  Silent,      \* those whose machine does not answer
  Delete,      \* the delete forms
  Recheck,     \* the recheck forms
  Databases,   \* the databases DATABASE_URL may name
  MaxTroubles  \* bound: backends that fail and commits that raise

NoRow == 0

ASSUME Ids == Create \subseteq Nat \ {NoRow}
ASSUME FormsDiffer ==
  Delete \cap Recheck = {} /\ (Delete \cup Recheck) \cap Create = {}
ASSUME Names ==
  Asks \subseteq [Create -> [host : Seq(STRING), purpose : {"ingest", "restore"}]]
ASSUME Backends == Databases \subseteq {"sqlite", "postgres"}
ASSUME BoundIsNat == MaxTroubles \in Nat

Health == {"unknown", "healthy", "unhealthy"}

VARIABLES
  database,    \* the one in use
  asked,       \* what each add form asks for
  rows,        \* table connections, as committed
  health,      \* Connection.last_health of each
  mount,       \* mount[n]: the form whose mount unit, credentials and
               \* directory have the name n
  pc,          \* where each form is
  target,      \* the row a delete or recheck is for
  (* The monitor's sweep. *)
  sweep,       \* "rest" between two of them
  listed,      \* connections
  todo,        \* those it has still to come to
  result,      \* what it found, in its session
  dirty,       \* the rows changed in the session and not flushed
  flushed,     \* those flushed
  broken,      \* a flush has failed: the session takes nothing more
  (* Bounds and history. *)
  troubles,
  spoilt,      \* connections two forms worked on at once, or one form in part
  removed      \* a row was deleted, or a flush failed, under the sweep

given   == <<database, asked>>
table   == <<rows, health>>
forms   == <<pc, target>>
session == <<result, dirty, flushed, broken>>
monitor == <<sweep, listed, todo, session>>
notes == <<troubles, spoilt, removed>>
vars == <<database, asked, table, mount, forms, monitor, notes>>

(* mount_dir_name, unit_name_for: the suffix is part of the name, so the   *)
(* names of different connections can be the same.  And a variant without  *)
(* the suffix.                                                             *)
Name(host, purpose) == IF purpose = "ingest" THEN host ELSE Append(host, "restore")
DirByHost(r) == asked[r].host
Dir(r) == Name(asked[r].host, asked[r].purpose)
Dirs == {Name(f[r].host, p) : f \in Asks, r \in Create, p \in {"ingest", "restore"}}

Form == Create \cup Delete \cup Recheck
Goto(f, where) == pc' = [pc EXCEPT ![f] = where]
Finish(f) == Goto(f, "done") /\ target' = [target EXCEPT ![f] = NoRow]
Trouble == troubles < MaxTroubles /\ troubles' = troubles + 1

(* What the sweep has flushed is locked until its commit: on SQLite the    *)
(* whole database, on PostgreSQL those rows.                               *)
Locked(r) == IF database = "sqlite" THEN flushed # {} ELSE r \in flushed

(* Forms at work on the connection with key k. *)
Working(k) ==
  {r \in Create : pc[r] \in {"provision", "insert"} /\ asked[r] = k}
    \cup {d \in Delete : pc[d] \in {"deprovision", "remove"} /\ asked[target[d]] = k}
Begins(k) == spoilt' = IF Working(k) = {} THEN spoilt ELSE spoilt \cup {k}
Spoil(k) == spoilt' = spoilt \cup {k}
-----------------------------------------------------------------------------
(* create_connection.                                                      *)

Taken(r) == \E q \in rows : asked[q] = asked[r]

CheckName(r) ==
  /\ pc[r] = "new"
  /\ Goto(r, IF Taken(r) THEN "done" ELSE "provision")
  /\ IF Taken(r) THEN UNCHANGED spoilt ELSE Begins(asked[r])
  /\ UNCHANGED <<given, table, mount, target, monitor, troubles, removed>>

(* backend.provision writes over whatever has that name. *)
Provision(r) ==
  /\ pc[r] = "provision"
  /\ mount' = [mount EXCEPT ![Dir(r)] = r]
  /\ Goto(r, "insert")
  /\ UNCHANGED <<given, table, target, monitor, notes>>

(* A MountError before or after the files have been written. *)
ProvisionFails(r) ==
  /\ pc[r] = "provision" /\ Trouble
  /\ mount' \in {mount, [mount EXCEPT ![Dir(r)] = r]}
  /\ Goto(r, "done") /\ Spoil(asked[r])
  /\ UNCHANGED <<given, table, target, monitor, removed>>

Insert(r) ==
  /\ pc[r] = "insert" /\ ~Taken(r) /\ ~Locked(r)
  /\ rows' = rows \cup {r}
  /\ health' = [health EXCEPT ![r] = "unknown"]
  /\ Goto(r, "done")
  /\ UNCHANGED <<given, mount, target, monitor, notes>>

(* Another form has made that row meanwhile (uq_connection_hostname_       *)
(* purpose), the lock was not to be had in time, or the commit failed: the *)
(* mount stays.                                                            *)
InsertFails(r) ==
  /\ pc[r] = "insert"
  /\ \/ (Taken(r) \/ Locked(r)) /\ UNCHANGED troubles
     \/ Trouble
  /\ Goto(r, "done") /\ Spoil(asked[r])
  /\ UNCHANGED <<given, table, mount, target, monitor, removed>>
-----------------------------------------------------------------------------
(* delete_connection.                                                      *)

FindRow(d) ==
  /\ pc[d] = "new"
  /\ \E r \in rows :
       /\ target' = [target EXCEPT ![d] = r]
       /\ Goto(d, IF d \in Delete THEN "deprovision" ELSE "check")
       /\ IF d \in Delete THEN Begins(asked[r]) ELSE UNCHANGED spoilt
  /\ UNCHANGED <<given, table, mount, monitor, troubles, removed>>

KeepMount(d) ==
  /\ pc[d] = "deprovision"
  /\ Goto(d, "remove")
  /\ UNCHANGED <<given, table, mount, target, monitor, notes>>

(* backend.deprovision removes whatever has that name; and a variant that  *)
(* does not call it.                                                       *)
Deprovision(d) ==
  /\ pc[d] = "deprovision"
  /\ mount' = [mount EXCEPT ![Dir(target[d])] = NoRow]
  /\ Goto(d, "remove")
  /\ UNCHANGED <<given, table, target, monitor, notes>>

(* It is not an error that the row has gone meanwhile. *)
Remove(d) ==
  /\ pc[d] = "remove" /\ ~Locked(target[d])
  /\ rows' = rows \ {target[d]}
  /\ removed' = (removed \/ target[d] \in listed)
  /\ Finish(d)
  /\ UNCHANGED <<given, health, mount, monitor, troubles, spoilt>>

(* The deprovisioning raised, or the row could not be deleted after it. *)
RemoveFails(d) ==
  /\ pc[d] \in {"deprovision", "remove"}
  /\ \/ pc[d] = "remove" /\ Locked(target[d]) /\ UNCHANGED troubles
     \/ Trouble
  /\ Finish(d) /\ Spoil(asked[target[d]])
  /\ UNCHANGED <<given, table, mount, monitor, removed>>
-----------------------------------------------------------------------------
(* check_health, for a form and for the monitor.                           *)

(* What the backend says of r: the directory is a mount, and the machine   *)
(* behind it answers.  A variant keeps the words of the backend.           *)
RawAnswer(r) == IF mount[Dir(r)] \in Create \ Silent THEN "healthy" ELSE "no answer"
Answer(r) == IF mount[Dir(r)] \in Create \ Silent THEN "healthy" ELSE "unhealthy"

(* The form's UPDATE of a row deleted meanwhile raises StaleDataError. *)
RecheckRow(f) ==
  /\ pc[f] = "check" /\ ~Locked(target[f])
  /\ health' = IF target[f] \notin rows THEN health
               ELSE [health EXCEPT ![target[f]] = Answer(target[f])]
  /\ Finish(f)
  /\ UNCHANGED <<given, rows, mount, monitor, notes>>

RecheckFails(f) ==
  /\ pc[f] = "check"
  /\ \/ Locked(target[f]) /\ UNCHANGED troubles
     \/ Trouble
  /\ Finish(f)
  /\ UNCHANGED <<given, table, mount, monitor, spoilt, removed>>

(* check_all_connections lists the rows once, and takes them in turn. *)
At(r) == sweep = "check" /\ r \in todo /\ \A q \in todo : r <= q

SweepBegins ==
  /\ sweep = "rest"
  /\ sweep' = "check"
  /\ listed' = rows /\ todo' = rows
  /\ UNCHANGED <<given, table, mount, forms, session, notes>>

Nothing == [r \in Create |-> "unknown"]

(* A flush that fails rolls the transaction back, and the session refuses  *)
(* every further one.                                                      *)
Break == result' = Nothing /\ dirty' = {} /\ flushed' = {} /\ broken' = TRUE

(* A check ends with a flush of the dirty rows, which fails if one of them *)
(* is gone.                                                                *)
Check(r) ==
  /\ At(r)
  /\ todo' = todo \ {r}
  /\ IF broken \/ ~(dirty \cup {r} \subseteq rows) THEN Break
     ELSE /\ result' = [result EXCEPT ![r] = Answer(r)]
          /\ flushed' = flushed \cup dirty \cup {r} /\ dirty' = {}
          /\ UNCHANGED broken
  /\ UNCHANGED <<given, table, mount, forms, sweep, listed, notes>>

GiveUp(r) ==
  /\ At(r) /\ Trouble
  /\ todo' = {}
  /\ UNCHANGED <<given, table, mount, forms, sweep, listed, session, spoilt, removed>>

(* The backend raises: the row is marked, to be flushed with the next; and *)
(* a variant in which the exception ends the loop.                         *)
CheckRaises(r) ==
  /\ At(r) /\ Trouble
  /\ todo' = todo \ {r}
  /\ IF broken THEN UNCHANGED session
     ELSE /\ result' = [result EXCEPT ![r] = "unhealthy"]
          /\ dirty' = dirty \cup {r}
          /\ UNCHANGED <<flushed, broken>>
  /\ UNCHANGED <<given, table, mount, forms, sweep, listed, spoilt, removed>>

(* Its flush fails, another session holding the lock for too long. *)
FlushFails(r) ==
  /\ At(r) /\ Trouble
  /\ todo' = todo \ {r}
  /\ Break
  /\ removed' = TRUE
  /\ UNCHANGED <<given, table, mount, forms, sweep, listed, spoilt>>

(* The last flush and the commit, or the rollback; the thread goes on      *)
(* either way, but in a variant.                                           *)
Fails == broken \/ ~(dirty \subseteq rows)
Recorded ==
  health' = IF Fails THEN health
            ELSE [r \in Create |-> IF r \in listed THEN result[r] ELSE health[r]]

SweepEndsForGood ==
  /\ sweep = "check" /\ todo = {}
  /\ Recorded
  /\ sweep' = IF Fails THEN "dead" ELSE "rest"
  /\ listed' = {} /\ result' = Nothing
  /\ dirty' = {} /\ flushed' = {} /\ broken' = FALSE /\ removed' = FALSE
  /\ UNCHANGED <<given, rows, mount, forms, todo, troubles, spoilt>>

SweepEnds ==
  /\ sweep = "check" /\ todo = {}
  /\ Recorded
  /\ sweep' = "rest"
  /\ listed' = {} /\ result' = Nothing
  /\ dirty' = {} /\ flushed' = {} /\ broken' = FALSE /\ removed' = FALSE
  /\ UNCHANGED <<given, rows, mount, forms, todo, troubles, spoilt>>
-----------------------------------------------------------------------------
Init ==
  /\ database \in Databases /\ asked \in Asks
  /\ rows = {} /\ health = [r \in Create |-> "unknown"]
  /\ mount = [n \in Dirs |-> NoRow]
  /\ pc = [f \in Form |-> "new"]
  /\ target = [f \in Delete \cup Recheck |-> NoRow]
  /\ sweep = "rest" /\ listed = {} /\ todo = {}
  /\ result = Nothing
  /\ dirty = {} /\ flushed = {} /\ broken = FALSE
  /\ troubles = 0 /\ spoilt = {} /\ removed = FALSE

MonitorStep == SweepBegins \/ SweepEnds \/ \E r \in Create : Check(r)

Next ==
  \/ \E r \in Create : CheckName(r) \/ Provision(r) \/ ProvisionFails(r)
                         \/ Insert(r) \/ InsertFails(r)
  \/ \E d \in Delete : Deprovision(d) \/ Remove(d) \/ RemoveFails(d)
  \/ \E f \in Delete \cup Recheck : FindRow(f)
  \/ \E f \in Recheck : RecheckRow(f) \/ RecheckFails(f)
  \/ MonitorStep
  \/ \E r \in Create : CheckRaises(r) \/ FlushFails(r)

Spec == Init /\ [][Next]_vars

(* The thread never stops, and the backend answers in the end. *)
FairSpec == Spec /\ WF_vars(MonitorStep)
-----------------------------------------------------------------------------
(* Every variable has its type. *)
TypeOK ==
  /\ database \in {"sqlite", "postgres"} /\ asked \in Asks
  /\ rows \subseteq Create /\ health \in [Create -> Health]
  /\ mount \in [Dirs -> Create \cup {NoRow}]
  /\ pc \in [Form -> {"new", "provision", "insert", "deprovision", "remove",
                      "check", "done"}]
  /\ target \in [Delete \cup Recheck -> Create \cup {NoRow}]
  /\ sweep \in {"rest", "check"}
  /\ listed \subseteq Create /\ todo \subseteq listed
  /\ result \in [Create -> Health]
  /\ dirty \subseteq listed /\ flushed \subseteq listed /\ broken \in BOOLEAN
  /\ troubles \in 0 .. MaxTroubles
  /\ spoilt \subseteq {asked[r] : r \in Create} /\ removed \in BOOLEAN

(* No other connection, of another machine, has a name that reads the same *)
(* as that of r: a restore destination on h and an ingest share of a       *)
(* machine that is itself called h-restore.                                *)
NameOfItsOwn(r) ==
  \A q \in Create :
    /\ asked[r].purpose = "restore" /\ asked[q].purpose = "ingest"
         => asked[q].host # Append(asked[r].host, "restore")
    /\ asked[r].purpose = "ingest" /\ asked[q].purpose = "restore"
         => asked[r].host # Append(asked[q].host, "restore")

Sound(r) == NameOfItsOwn(r) /\ asked[r] \notin spoilt

(* A connection that is listed has the mount its own form asked for,       *)
(* whatever forms for the same machine come and go, as long as no two of   *)
(* them are for one connection at one time and none fails half way         *)
(* (models.py:478, connection_manager.py:123).                             *)
RowsHaveTheirMount ==
  \A r \in rows :
    Sound(r) /\ (\A d \in Delete : target[d] = r => pc[d] # "remove")
      => mount[Dir(r)] = r

(* On the same condition no mount, and no file with a password, stays      *)
(* behind without a row that shows it (connection_manager.py:144).         *)
NoMountLeftBehind ==
  \A n \in Dirs : LET r == mount[n] IN
    r # NoRow /\ Sound(r) => r \in rows \/ pc[r] = "insert"

(* One bad connection does not stop the rest from being checked: a sweep   *)
(* under which no row was deleted and no flush failed records what it      *)
(* found of every connection it listed, and of the one that raised         *)
(* (connection_manager.py:177).                                            *)
SweepRecords ==
  [][sweep = "check" /\ sweep' # "check" /\ ~removed =>
       \A r \in listed : result[r] # "unknown" /\ health'[r] = result[r]]_vars

(* News arrive: a connection that is not checked yet, or is shown as       *)
(* healthy though its mount has gone, is checked in the end, sweeps that   *)
(* failed notwithstanding (connection_health_monitor.py:33).               *)
Outdated(r) ==
  /\ r \in rows
  /\ \/ health[r] = "unknown"
     \/ health[r] = "healthy" /\ mount[Dir(r)] = NoRow

NewsArrive == \A r \in Create : Outdated(r) ~> ~Outdated(r)
=============================================================================
