-------------------------- MODULE ConnectionsProofs --------------------------
(***************************************************************************)
(* What Connections guarantees for any add, delete and recheck forms, any  *)
(* machines and any number of troubles, on either database.                *)
(***************************************************************************)
EXTENDS Connections, SequenceTheorems, TLAPS

(* Which places a form can be at, and what it has found when it is there. *)
FormsSound ==
  /\ \A r \in Create : pc[r] \in {"new", "provision", "insert", "done"}
  /\ \A d \in Delete : pc[d] \in {"new", "deprovision", "remove", "done"}
  /\ \A f \in Recheck : pc[f] \in {"new", "check", "done"}
  /\ \A f \in Delete \cup Recheck :
       pc[f] \in {"deprovision", "remove", "check"} => target[f] \in Create

(* The unique constraint. *)
RowsDiffer == \A q, r \in rows : asked[q] = asked[r] => q = r

(* A mount has the name its form gave it. *)
MountsNamed == \A n \in Dirs : mount[n] # NoRow => Dir(mount[n]) = n

(* One form at a time works on a connection that is not spoilt. *)
OneAtWork ==
  \A k \in {asked[r] : r \in Create} \ spoilt :
    \A f, g \in Form : f \in Working(k) /\ g \in Working(k) => f = g

(* What the form at work on a sound connection can count on. *)
AddSound(r) ==
  pc[r] \in {"provision", "insert"} /\ Sound(r) =>
    ~Taken(r) /\ (pc[r] = "insert" => mount[Dir(r)] = r)

DeleteSound(d) ==
  pc[d] \in {"deprovision", "remove"} /\ Sound(target[d]) =>
    target[d] \in rows /\ (pc[d] = "remove" => mount[Dir(target[d])] = NoRow)

(* A sweep under which no row was deleted and no flush failed. *)
SweepSound ==
  /\ sweep = "rest" => listed = {} /\ ~broken /\ ~removed
  /\ sweep = "check" /\ ~removed =>
       /\ listed \subseteq rows /\ ~broken
       /\ \A r \in listed \ todo : result[r] # "unknown"

IInv ==
  /\ TypeOK /\ FormsSound /\ RowsDiffer /\ MountsNamed /\ OneAtWork
  /\ \A r \in Create : AddSound(r)
  /\ \A d \in Delete : DeleteSound(d)
  /\ RowsHaveTheirMount /\ NoMountLeftBehind /\ SweepSound
-----------------------------------------------------------------------------
(* Names.                                                                  *)

LEMMA AskedTypes ==
  ASSUME TypeOK, NEW r \in Create
  PROVE  /\ asked[r].host \in Seq(STRING) /\ asked[r].purpose \in {"ingest", "restore"}
         /\ Dir(r) \in Dirs /\ r # NoRow
         /\ asked[r] = [host |-> asked[r].host, purpose |-> asked[r].purpose]
<1>1. asked \in Asks /\ asked[r] \in [host : Seq(STRING), purpose : {"ingest", "restore"}]
  BY Names DEF TypeOK
<1>2. Dir(r) \in Dirs
  BY <1>1 DEF Dir, Dirs
<1>. QED
  BY <1>1, <1>2, Ids

(* Two connections whose names read the same are one, unless the name of   *)
(* the first is not its own.                                               *)
LEMMA NamesDiffer ==
  ASSUME TypeOK, NEW r \in Create, NEW q \in Create, NameOfItsOwn(r), Dir(q) = Dir(r)
  PROVE  asked[q] = asked[r]
<1>1. /\ asked[r].host \in Seq(STRING) /\ asked[r].purpose \in {"ingest", "restore"}
      /\ asked[q].host \in Seq(STRING) /\ asked[q].purpose \in {"ingest", "restore"}
      /\ asked[r] = [host |-> asked[r].host, purpose |-> asked[r].purpose]
      /\ asked[q] = [host |-> asked[q].host, purpose |-> asked[q].purpose]
  BY AskedTypes
<1>2. asked[q].purpose = asked[r].purpose
  BY <1>1 DEF NameOfItsOwn, Dir, Name
<1>3. asked[q].host = asked[r].host
  <2>1. CASE asked[r].purpose = "ingest"
    BY <1>2, <2>1 DEF Dir, Name
  <2>2. CASE asked[r].purpose = "restore"
    <3>1. Append(asked[q].host, "restore") = Append(asked[r].host, "restore")
      BY <1>2, <2>2 DEF Dir, Name
    <3>2. Seq(STRING) \subseteq Seq(STRING \cup {"restore"})
      OBVIOUS
    <3>3. \A s, t \in Seq(STRING \cup {"restore"}) :
            Append(s, "restore") = Append(t, "restore") => s = t
      BY AppendInjective
    <3>. QED
      BY <1>1, <3>1, <3>2, <3>3
  <2>. QED
    BY <1>1, <2>1, <2>2
<1>. QED
  BY <1>1, <1>2, <1>3
-----------------------------------------------------------------------------
(* Types, and one form at a time.                                          *)

(* A step of an add form, of a delete or recheck form, and of the sweep. *)
AddStep(r) ==
  CheckName(r) \/ Provision(r) \/ ProvisionFails(r) \/ Insert(r) \/ InsertFails(r)
DeleteStep(d) == Deprovision(d) \/ Remove(d) \/ RemoveFails(d)
RecheckStep(f) == RecheckRow(f) \/ RecheckFails(f)
SweepStep ==
  MonitorStep \/ \E r \in Create : CheckRaises(r) \/ FlushFails(r)

LEMMA Steps ==
  ASSUME Next
  PROVE  \/ \E r \in Create : AddStep(r)
         \/ \E d \in Delete : DeleteStep(d) \/ FindRow(d)
         \/ \E f \in Recheck : RecheckStep(f) \/ FindRow(f)
         \/ SweepStep
BY Zenon DEF Next, AddStep, DeleteStep, RecheckStep, SweepStep

LEMMA AnswerTypes ==
  ASSUME NEW r
  PROVE  Answer(r) \in {"healthy", "unhealthy"} /\ Nothing \in [Create -> Health]
BY DEF Answer, Nothing, Health

LEMMA TypesStay ==
  ASSUME IInv, Next
  PROVE  TypeOK' /\ FormsSound'
<1>0. TypeOK /\ FormsSound /\ FormsDiffer /\ \A r \in Create : Dir(r) \in Dirs
  BY FormsDiffer, AskedTypes DEF IInv
<1>0a. Trouble => troubles' \in 0 .. MaxTroubles
  BY <1>0, BoundIsNat DEF TypeOK, Trouble
<1> USE <1>0, <1>0a
<1> USE DEF FormsSound, FormsDiffer, Form, Goto, Finish, Begins, Spoil,
            given, table, forms, monitor, session, notes
<1>1. ASSUME NEW r \in Create, AddStep(r)
      PROVE  TypeOK' /\ FormsSound'
  <2>1. CASE CheckName(r)
    BY <1>1, <2>1 DEF CheckName, TypeOK
  <2>2. CASE Provision(r)
    BY <1>1, <2>2 DEF Provision, TypeOK
  <2>3. CASE ProvisionFails(r)
    BY <1>1, <2>3 DEF ProvisionFails, TypeOK
  <2>4. CASE Insert(r)
    BY <1>1, <2>4 DEF Insert, TypeOK, Health
  <2>5. CASE InsertFails(r)
    BY <1>1, <2>5 DEF InsertFails, TypeOK
  <2>. QED
    BY <1>1, <2>1, <2>2, <2>3, <2>4, <2>5 DEF AddStep
<1>2. ASSUME NEW d \in Delete, DeleteStep(d)
      PROVE  TypeOK' /\ FormsSound'
  <2>1. CASE Deprovision(d)
    BY <1>2, <2>1 DEF Deprovision, TypeOK
  <2>2. CASE Remove(d)
    BY <1>2, <2>2 DEF Remove, TypeOK
  <2>3. CASE RemoveFails(d)
    BY <1>2, <2>3 DEF RemoveFails, TypeOK
  <2>. QED
    BY <1>2, <2>1, <2>2, <2>3 DEF DeleteStep
<1>3. ASSUME NEW f \in Delete \cup Recheck, FindRow(f)
      PROVE  TypeOK' /\ FormsSound'
  BY <1>3 DEF FindRow, TypeOK
<1>4. ASSUME NEW f \in Recheck, RecheckStep(f)
      PROVE  TypeOK' /\ FormsSound'
  <2>1. CASE RecheckRow(f)
    <3>1. health' \in [Create -> Health]
      BY <2>1, AnswerTypes DEF RecheckRow, TypeOK, Health
    <3>. QED
      BY <1>4, <2>1, <3>1 DEF RecheckRow, TypeOK
  <2>2. CASE RecheckFails(f)
    BY <1>4, <2>2 DEF RecheckFails, TypeOK
  <2>. QED
    BY <1>4, <2>1, <2>2 DEF RecheckStep
<1>5. ASSUME SweepStep
      PROVE  TypeOK' /\ FormsSound'
  <2>0. ASSUME UNCHANGED <<database, asked, rows, mount, pc, target, spoilt>>,
               health' \in [Create -> Health], sweep' \in {"rest", "check"},
               listed' \subseteq Create, todo' \subseteq listed', result' \in [Create -> Health],
               dirty' \subseteq listed', flushed' \subseteq listed', broken' \in BOOLEAN,
               troubles' \in 0 .. MaxTroubles, removed' \in BOOLEAN
        PROVE  TypeOK' /\ FormsSound'
    BY <2>0 DEF TypeOK
  <2>1. CASE SweepBegins
    <3>1. listed = {} /\ dirty = {} /\ flushed = {}
      BY <2>1 DEF IInv, SweepSound, SweepBegins, TypeOK
    <3>. QED
      BY <2>0, <2>1, <3>1 DEF SweepBegins, TypeOK
  <2>2. CASE SweepEnds
    <3>1. health' \in [Create -> Health] /\ result' \in [Create -> Health]
      BY <2>2, AnswerTypes DEF SweepEnds, Recorded, TypeOK
    <3>. QED
      BY <2>0, <2>2, <3>1 DEF SweepEnds, TypeOK
  <2>3. ASSUME NEW r \in Create, Check(r)
        PROVE  TypeOK' /\ FormsSound'
    <3>1. result' \in [Create -> Health]
      BY <2>3, AnswerTypes DEF Check, Break, TypeOK, Health
    <3>2. dirty' \subseteq listed /\ flushed' \subseteq listed /\ broken' \in BOOLEAN
      <4>1. r \in listed
        BY <2>3 DEF Check, At, TypeOK
      <4>2. CASE Break
        BY <4>2 DEF Break
      <4>3. CASE ~Break
        BY <2>3, <4>1, <4>3 DEF Check, TypeOK
      <4>. QED
        BY <4>2, <4>3
    <3>. QED
      BY <2>0, <2>3, <3>1, <3>2 DEF Check, At, TypeOK
  <2>4. ASSUME NEW r \in Create, CheckRaises(r)
        PROVE  TypeOK' /\ FormsSound'
    <3>1. result' \in [Create -> Health]
      BY <2>4 DEF CheckRaises, TypeOK, Health
    <3>2. dirty' \subseteq listed /\ flushed' \subseteq listed /\ broken' \in BOOLEAN
      BY <2>4 DEF CheckRaises, At, TypeOK
    <3>. QED
      BY <2>0, <2>4, <3>1, <3>2 DEF CheckRaises, At, TypeOK
  <2>5. ASSUME NEW r \in Create, FlushFails(r)
        PROVE  TypeOK' /\ FormsSound'
    <3>1. result' \in [Create -> Health]
      BY <2>5, AnswerTypes DEF FlushFails, Break
    <3>. QED
      BY <2>0, <2>5, <3>1 DEF FlushFails, Break, At, TypeOK
  <2>. QED
    BY <1>5, <2>1, <2>2, <2>3, <2>4, <2>5 DEF SweepStep, MonitorStep
<1>. QED
  BY <1>1, <1>2, <1>3, <1>4, <1>5, Steps

(* A form begins alone, or spoils its connection. *)
LEMMA OneAtWorkStays ==
  ASSUME IInv, Next
  PROVE  OneAtWork' /\ spoilt \subseteq spoilt' /\ asked' = asked
<1>0. TypeOK /\ FormsSound /\ OneAtWork /\ FormsDiffer
  BY FormsDiffer DEF IInv
<1> USE <1>0
<1>1. ASSUME spoilt \subseteq spoilt', asked' = asked, \A k : Working(k)' \subseteq Working(k)
      PROVE  OneAtWork' /\ spoilt \subseteq spoilt' /\ asked' = asked
  BY <1>1 DEF OneAtWork
<1>2. ASSUME spoilt \subseteq spoilt', asked' = asked, NEW f, NEW key,
             \A k : Working(k)' \subseteq Working(k) \cup (IF k = key THEN {f} ELSE {}),
             Working(key) = {} \/ key \in spoilt'
      PROVE  OneAtWork' /\ spoilt \subseteq spoilt' /\ asked' = asked
  BY <1>2 DEF OneAtWork
<1> USE DEF FormsSound, FormsDiffer, Form, Goto, Finish, Begins, Spoil,
            given, table, forms, monitor, session, notes
<1>3. ASSUME NEW r \in Create, AddStep(r)
      PROVE  OneAtWork' /\ spoilt \subseteq spoilt' /\ asked' = asked
  <2>1. CASE CheckName(r) /\ ~Taken(r)
    BY <1>2, <1>3, <2>1 DEF CheckName, Working, TypeOK
  <2>2. CASE CheckName(r) /\ Taken(r)
    BY <1>1, <1>3, <2>2 DEF CheckName, Working, TypeOK
  <2>3. CASE Provision(r) \/ ProvisionFails(r) \/ Insert(r) \/ InsertFails(r)
    BY <1>1, <1>3, <2>3 DEF Provision, ProvisionFails, Insert, InsertFails, Working, TypeOK
  <2>. QED
    BY <1>3, <2>1, <2>2, <2>3 DEF AddStep
<1>4. ASSUME NEW d \in Delete, DeleteStep(d)
      PROVE  OneAtWork' /\ spoilt \subseteq spoilt' /\ asked' = asked
  BY <1>1, <1>4 DEF DeleteStep, Deprovision, Remove, RemoveFails, Working, TypeOK
<1>5. ASSUME NEW d \in Delete, FindRow(d)
      PROVE  OneAtWork' /\ spoilt \subseteq spoilt' /\ asked' = asked
  <2>1. PICK r \in rows : target' = [target EXCEPT ![d] = r] /\ Begins(asked[r])
                          /\ pc' = [pc EXCEPT ![d] = "deprovision"] /\ asked' = asked
    BY <1>5 DEF FindRow
  <2>2. \A k : Working(k)' \subseteq Working(k) \cup (IF k = asked[r] THEN {d} ELSE {})
    BY <1>5, <2>1 DEF Working, TypeOK
  <2>3. spoilt \subseteq spoilt' /\ (Working(asked[r]) = {} \/ asked[r] \in spoilt')
    BY <2>1
  <2>. QED
    BY <1>2, <2>1, <2>2, <2>3
<1>6. ASSUME NEW f \in Recheck, RecheckStep(f) \/ FindRow(f)
      PROVE  OneAtWork' /\ spoilt \subseteq spoilt' /\ asked' = asked
  BY <1>1, <1>6 DEF RecheckStep, RecheckRow, RecheckFails, FindRow, Working, TypeOK
<1>7. ASSUME SweepStep
      PROVE  OneAtWork' /\ spoilt \subseteq spoilt' /\ asked' = asked
  BY <1>1, <1>7 DEF SweepStep, MonitorStep, SweepBegins, SweepEnds, Check, CheckRaises,
                    FlushFails, Working
<1>. QED
  BY <1>3, <1>4, <1>5, <1>6, <1>7, Steps
-----------------------------------------------------------------------------
(* Rows and mounts.                                                        *)

TableSound ==
  /\ RowsDiffer /\ MountsNamed
  /\ \A r \in Create : AddSound(r)
  /\ \A d \in Delete : DeleteSound(d)
  /\ RowsHaveTheirMount /\ NoMountLeftBehind

(* What is sound after a step. *)
StillSound(r) == NameOfItsOwn(r) /\ asked[r] \notin spoilt'

(* Two connections of one name are one, and as sound as each other. *)
LEMMA SameName ==
  ASSUME IInv, NEW r \in Create, NEW q \in Create, Sound(r), Dir(q) = Dir(r)
  PROVE  asked[q] = asked[r] /\ Sound(q)
<1>1. asked[q] = asked[r]
  BY NamesDiffer DEF IInv, Sound
<1>. QED
  BY <1>1 DEF Sound, NameOfItsOwn

(* A sound connection has one form at work on it at most. *)
LEMMA WorksAlone ==
  ASSUME IInv, NEW r \in Create, Sound(r),
         NEW f \in Working(asked[r]), NEW g \in Working(asked[r])
  PROVE  f = g
<1>1. asked[r] \in {asked[q] : q \in Create} \ spoilt
  BY DEF Sound
<1>2. f \in Form /\ g \in Form
  BY DEF Working, Form
<1>. QED
  BY <1>1, <1>2 DEF IInv, OneAtWork

(* The table after a step, said of the variables. *)
LEMMA TableAfter ==
  ASSUME IInv, Next,
         \A q, r \in rows' : asked[q] = asked[r] => q = r,
         \A n \in Dirs : mount'[n] # NoRow => Dir(mount'[n]) = n,
         \A r \in Create : pc'[r] \in {"provision", "insert"} /\ StillSound(r) =>
           /\ \A q \in rows' : asked[q] # asked[r]
           /\ pc'[r] = "insert" => mount'[Dir(r)] = r,
         \A d \in Delete : pc'[d] \in {"deprovision", "remove"} /\ StillSound(target'[d]) =>
           /\ target'[d] \in rows'
           /\ pc'[d] = "remove" => mount'[Dir(target'[d])] = NoRow,
         \A r \in rows' : StillSound(r) /\ (\A d \in Delete : target'[d] = r => pc'[d] # "remove")
           => mount'[Dir(r)] = r,
         \A n \in Dirs : mount'[n] # NoRow /\ StillSound(mount'[n])
           => mount'[n] \in rows' \/ pc'[mount'[n]] = "insert"
  PROVE  TableSound'
<1>1. asked' = asked
  BY OneAtWorkStays
<1>2. RowsDiffer' /\ MountsNamed'
  BY <1>1 DEF RowsDiffer, MountsNamed, Dir
<1>3. \A r \in Create : AddSound(r)'
  BY <1>1 DEF AddSound, Taken, Sound, StillSound, NameOfItsOwn, Dir
<1>4. \A d \in Delete : DeleteSound(d)'
  BY <1>1 DEF DeleteSound, Sound, StillSound, NameOfItsOwn, Dir
<1>5. RowsHaveTheirMount'
  BY <1>1 DEF RowsHaveTheirMount, Sound, StillSound, NameOfItsOwn, Dir
<1>6. NoMountLeftBehind'
  BY <1>1 DEF NoMountLeftBehind, Sound, StillSound, NameOfItsOwn, Dir
<1>. QED
  BY <1>2, <1>3, <1>4, <1>5, <1>6 DEF TableSound

(* The invariant before a step, in the form the steps need. *)
LEMMA Before ==
  ASSUME IInv
  PROVE  /\ TypeOK /\ rows \subseteq Create /\ NoRow \notin Create
         /\ \A r \in Create : Dir(r) \in Dirs /\ (Sound(r) <=> NameOfItsOwn(r) /\ asked[r] \notin spoilt)
         /\ \A n \in Dirs : mount[n] # NoRow => mount[n] \in Create /\ Dir(mount[n]) = n
         /\ \A d \in Delete : d \notin Create
         /\ \A d \in Delete : pc[d] \in {"deprovision", "remove"} => target[d] \in Create
         /\ \A q, r \in Create : NameOfItsOwn(r) /\ Dir(q) = Dir(r) =>
              asked[q] = asked[r] /\ NameOfItsOwn(q)
         /\ \A q, r \in Create : q \in Working(asked[q]) /\ r \in Working(asked[q]) /\ Sound(q) => q = r
         /\ \A q \in Create, d \in Delete :
              ~(q \in Working(asked[q]) /\ d \in Working(asked[q]) /\ Sound(q))
         /\ \A q \in Create : \A d, e \in Delete :
              d \in Working(asked[q]) /\ e \in Working(asked[q]) /\ Sound(q) => d = e
<1>1. TypeOK /\ FormsSound /\ MountsNamed
  BY DEF IInv
<1>2. ASSUME NEW r \in Create
      PROVE  Dir(r) \in Dirs /\ (Sound(r) <=> NameOfItsOwn(r) /\ asked[r] \notin spoilt)
  BY <1>1, AskedTypes DEF Sound
<1>3. ASSUME NEW q \in Create, NEW r \in Create, NameOfItsOwn(r), Dir(q) = Dir(r)
      PROVE  asked[q] = asked[r] /\ NameOfItsOwn(q)
  <2>1. asked[q] = asked[r]
    BY <1>1, <1>3, NamesDiffer
  <2>. QED
    BY <1>3, <2>1 DEF NameOfItsOwn
<1>4. ASSUME NEW d \in Delete
      PROVE  d \notin Create /\ (pc[d] \in {"deprovision", "remove"} => target[d] \in Create)
  BY <1>1, FormsDiffer DEF FormsSound
<1>5. ASSUME NEW r \in Create, Sound(r), NEW f \in Working(asked[r]), NEW g \in Working(asked[r])
      PROVE  f = g
  BY <1>5, WorksAlone
<1>6. rows \subseteq Create /\ NoRow \notin Create
  BY <1>1, Ids DEF TypeOK
<1>7. \A n \in Dirs : mount[n] # NoRow => mount[n] \in Create /\ Dir(mount[n]) = n
  BY <1>1 DEF TypeOK, MountsNamed
<1>8. \A q \in Create, d \in Delete :
        ~(q \in Working(asked[q]) /\ d \in Working(asked[q]) /\ Sound(q))
  BY <1>4, <1>5
<1>9. /\ \A q, r \in Create : q \in Working(asked[q]) /\ r \in Working(asked[q]) /\ Sound(q) => q = r
      /\ \A q \in Create : \A d, e \in Delete :
           d \in Working(asked[q]) /\ e \in Working(asked[q]) /\ Sound(q) => d = e
  BY <1>5
<1>. QED
  BY <1>1, <1>2, <1>3, <1>4, <1>6, <1>7, <1>8, <1>9, Zenon

(* Who is at work. *)
LEMMA WorkersWork ==
  \A k : /\ \A r \in Create :
              pc[r] \in {"provision", "insert"} /\ asked[r] = k => r \in Working(k)
         /\ \A d \in Delete :
              pc[d] \in {"deprovision", "remove"} /\ asked[target[d]] = k => d \in Working(k)
BY DEF Working

LEMMA AddKeepsTable ==
  ASSUME IInv, Next, NEW r \in Create, AddStep(r)
  PROVE  TableSound'
<1>0. /\ TableSound /\ RowsDiffer /\ \A q \in Create : AddSound(q)
      /\ \A d \in Delete : DeleteSound(d)
      /\ RowsHaveTheirMount /\ NoMountLeftBehind
  BY DEF IInv, TableSound
<1>1. /\ target' = target /\ \A f \in Form \ {r} : pc'[f] = pc[f]
      /\ Delete \subseteq Form \ {r} /\ spoilt \subseteq spoilt'
      /\ \A q \in Create : StillSound(q) => Sound(q)
  <2>1. \A d \in Delete : d # r
    BY Before
  <2>2. spoilt \subseteq spoilt'
    BY OneAtWorkStays
  <2>. QED
    BY <2>1, <2>2 DEF AddStep, CheckName, Provision, ProvisionFails, Insert, InsertFails, Goto,
       TypeOK, Form, IInv, StillSound, Sound
<1>2. CASE CheckName(r)
  <2>1. /\ rows' = rows /\ mount' = mount
        /\ pc'[r] = "done" \/ (pc'[r] = "provision" /\ ~Taken(r))
        /\ pc[r] = "new"
    BY <1>2, Before DEF CheckName, Goto, table, TypeOK, Form
  <2>11. \A q, p \in rows' : asked[q] = asked[p] => q = p
    BY <1>0, <1>1, <2>1, Before DEF RowsDiffer
  <2>12. \A n \in Dirs : mount'[n] # NoRow => Dir(mount'[n]) = n
    BY <1>0, <1>1, <2>1, Before
  <2>13. \A q \in Create : pc'[q] \in {"provision", "insert"} /\ StillSound(q) =>
           /\ \A p \in rows' : asked[p] # asked[q]
           /\ pc'[q] = "insert" => mount'[Dir(q)] = q
    BY <1>0, <1>1, <2>1, Before DEF AddSound, Taken, Form
  <2>14. \A d \in Delete : pc'[d] \in {"deprovision", "remove"} /\ StillSound(target'[d]) =>
           /\ target'[d] \in rows'
           /\ pc'[d] = "remove" => mount'[Dir(target'[d])] = NoRow
    BY <1>0, <1>1, <2>1, Before DEF DeleteSound, Form
  <2>15. \A q \in rows' : StillSound(q) /\ (\A d \in Delete : target'[d] = q => pc'[d] # "remove")
           => mount'[Dir(q)] = q
    BY <1>0, <1>1, <2>1, Before DEF RowsHaveTheirMount, AddSound, Form
  <2>16. \A n \in Dirs : mount'[n] # NoRow /\ StillSound(mount'[n])
           => mount'[n] \in rows' \/ pc'[mount'[n]] = "insert"
    BY <1>0, <1>1, <2>1, Before DEF NoMountLeftBehind, Form
  <2>. QED
    BY <2>11, <2>12, <2>13, <2>14, <2>15, <2>16, TableAfter
<1>3. CASE Provision(r)
  <2>1. /\ rows' = rows /\ mount'[Dir(r)] = r /\ \A n \in Dirs \ {Dir(r)} : mount'[n] = mount[n]
        /\ pc'[r] = "insert" /\ pc[r] = "provision" /\ spoilt' = spoilt
    BY <1>3, Before DEF Provision, Goto, table, notes, TypeOK, Form
  <2>2. \A q \in Create : Sound(q) /\ q # r
           /\ (pc[q] \in {"provision", "insert"} \/ q \in rows
               \/ \E d \in Delete : target[d] = q /\ pc[d] \in {"deprovision", "remove"})
             => Dir(q) # Dir(r)
    <3> SUFFICES ASSUME NEW q \in Create, Sound(q), q # r, Dir(q) = Dir(r)
                 PROVE  ~(pc[q] \in {"provision", "insert"} \/ q \in rows
                          \/ \E d \in Delete : target[d] = q /\ pc[d] \in {"deprovision", "remove"})
      OBVIOUS
    <3>1. asked[r] = asked[q] /\ Sound(r)
      BY SameName
    <3>2. r \in Working(asked[q]) /\ ~Taken(r)
      BY <1>0, <2>1, <3>1, WorkersWork DEF AddSound
    <3>3. q \notin rows
      BY <3>1, <3>2 DEF Taken
    <3>4. pc[q] \notin {"provision", "insert"}
      BY <3>1, <3>2, WorkersWork, Before
    <3>5. \A d \in Delete : ~(target[d] = q /\ pc[d] \in {"deprovision", "remove"})
      BY <3>1, <3>2, WorkersWork, Before
    <3>. QED
      BY <3>3, <3>4, <3>5
  <2>11. \A q, p \in rows' : asked[q] = asked[p] => q = p
    BY <1>0, <1>1, <2>1, <2>2, Before DEF RowsDiffer
  <2>12. \A n \in Dirs : mount'[n] # NoRow => Dir(mount'[n]) = n
    BY <1>0, <1>1, <2>1, <2>2, Before
  <2>13. \A q \in Create : pc'[q] \in {"provision", "insert"} /\ StillSound(q) =>
           /\ \A p \in rows' : asked[p] # asked[q]
           /\ pc'[q] = "insert" => mount'[Dir(q)] = q
    BY <1>0, <1>1, <2>1, <2>2, Before DEF AddSound, Taken, Form
  <2>14. \A d \in Delete : pc'[d] \in {"deprovision", "remove"} /\ StillSound(target'[d]) =>
           /\ target'[d] \in rows'
           /\ pc'[d] = "remove" => mount'[Dir(target'[d])] = NoRow
    <3> SUFFICES ASSUME NEW d \in Delete, pc[d] \in {"deprovision", "remove"},
                        StillSound(target[d])
                 PROVE  target[d] \in rows /\ (pc[d] = "remove" => mount'[Dir(target[d])] = NoRow)
      BY <1>1, <2>1
    <3>1. target[d] \in Create /\ Dir(target[d]) \in Dirs /\ Sound(target[d])
      BY <1>1, Before
    <3>2. target[d] \in rows /\ (pc[d] = "remove" => mount[Dir(target[d])] = NoRow)
      BY <1>0, <3>1 DEF DeleteSound
    <3>3. target[d] # r => Dir(target[d]) # Dir(r)
      BY <2>2, <3>1
    <3>4. target[d] # r
      BY <1>0, <1>1, <2>1, <3>1, <3>2 DEF AddSound, Taken
    <3>. QED
      BY <2>1, <3>1, <3>2, <3>3, <3>4
  <2>15. \A q \in rows' : StillSound(q) /\ (\A d \in Delete : target'[d] = q => pc'[d] # "remove")
           => mount'[Dir(q)] = q
    BY <1>0, <1>1, <2>1, <2>2, Before DEF RowsHaveTheirMount, AddSound, Form
  <2>16. \A n \in Dirs : mount'[n] # NoRow /\ StillSound(mount'[n])
           => mount'[n] \in rows' \/ pc'[mount'[n]] = "insert"
    BY <1>0, <1>1, <2>1, <2>2, Before DEF NoMountLeftBehind, Form
  <2>. QED
    BY <2>11, <2>12, <2>13, <2>14, <2>15, <2>16, TableAfter
<1>4. CASE ProvisionFails(r) \/ InsertFails(r)
  <2>1. /\ rows' = rows /\ pc'[r] = "done" /\ spoilt' = spoilt \cup {asked[r]}
        /\ mount' \in {mount, [mount EXCEPT ![Dir(r)] = r]}
    BY <1>4, Before DEF ProvisionFails, InsertFails, Goto, Spoil, table, TypeOK, Form
  <2>2. /\ mount'[Dir(r)] \in {r, mount[Dir(r)]}
        /\ \A n \in Dirs \ {Dir(r)} : mount'[n] = mount[n]
    BY <2>1, Before DEF TypeOK
  <2>3. ~StillSound(r) /\ \A q \in Create : StillSound(q) => asked[q] # asked[r]
    BY <2>1 DEF StillSound
  <2>4. \A q \in Create : StillSound(q) => Dir(q) # Dir(r) /\ q # r
    BY <2>3, Before DEF StillSound
  <2>11. \A q, p \in rows' : asked[q] = asked[p] => q = p
    BY <1>0, <1>1, <2>1, <2>2, <2>4, Before DEF RowsDiffer
  <2>12. \A n \in Dirs : mount'[n] # NoRow => Dir(mount'[n]) = n
    BY <1>0, <1>1, <2>1, <2>2, <2>4, Before
  <2>13. \A q \in Create : pc'[q] \in {"provision", "insert"} /\ StillSound(q) =>
           /\ \A p \in rows' : asked[p] # asked[q]
           /\ pc'[q] = "insert" => mount'[Dir(q)] = q
    BY <1>0, <1>1, <2>1, <2>2, <2>4, Before DEF AddSound, Taken, Form
  <2>14. \A d \in Delete : pc'[d] \in {"deprovision", "remove"} /\ StillSound(target'[d]) =>
           /\ target'[d] \in rows'
           /\ pc'[d] = "remove" => mount'[Dir(target'[d])] = NoRow
    <3> SUFFICES ASSUME NEW d \in Delete, pc[d] \in {"deprovision", "remove"},
                        StillSound(target[d])
                 PROVE  target[d] \in rows /\ (pc[d] = "remove" => mount'[Dir(target[d])] = NoRow)
      BY <1>1, <2>1
    <3>1. target[d] \in Create /\ Dir(target[d]) \in Dirs \ {Dir(r)} /\ Sound(target[d])
      BY <1>1, <2>4, Before
    <3>. QED
      BY <1>0, <2>2, <3>1 DEF DeleteSound
  <2>15. \A q \in rows' : StillSound(q) /\ (\A d \in Delete : target'[d] = q => pc'[d] # "remove")
           => mount'[Dir(q)] = q
    BY <1>0, <1>1, <2>1, <2>2, <2>4, Before DEF RowsHaveTheirMount, AddSound, Form
  <2>16. \A n \in Dirs : mount'[n] # NoRow /\ StillSound(mount'[n])
           => mount'[n] \in rows' \/ pc'[mount'[n]] = "insert"
    BY <1>0, <1>1, <2>1, <2>2, <2>4, Before DEF NoMountLeftBehind, Form
  <2>. QED
    BY <2>11, <2>12, <2>13, <2>14, <2>15, <2>16, TableAfter
<1>5. CASE Insert(r)
  <2>1. /\ rows' = rows \cup {r} /\ mount' = mount /\ pc'[r] = "done" /\ pc[r] = "insert"
        /\ \A q \in rows : asked[q] # asked[r]
    BY <1>5, Before DEF Insert, Goto, Taken, TypeOK, Form
  <2>2. \A q \in Create : q # r /\ pc[q] \in {"provision", "insert"} /\ Sound(q) => asked[q] # asked[r]
    BY <2>1, WorkersWork, Before
  <2>11. \A q, p \in rows' : asked[q] = asked[p] => q = p
    BY <1>0, <1>1, <2>1, <2>2, Before DEF RowsDiffer
  <2>12. \A n \in Dirs : mount'[n] # NoRow => Dir(mount'[n]) = n
    BY <1>0, <1>1, <2>1, <2>2, Before
  <2>13. \A q \in Create : pc'[q] \in {"provision", "insert"} /\ StillSound(q) =>
           /\ \A p \in rows' : asked[p] # asked[q]
           /\ pc'[q] = "insert" => mount'[Dir(q)] = q
    BY <1>0, <1>1, <2>1, <2>2, Before DEF AddSound, Taken, Form
  <2>14. \A d \in Delete : pc'[d] \in {"deprovision", "remove"} /\ StillSound(target'[d]) =>
           /\ target'[d] \in rows'
           /\ pc'[d] = "remove" => mount'[Dir(target'[d])] = NoRow
    <3> SUFFICES ASSUME NEW d \in Delete, pc[d] \in {"deprovision", "remove"},
                        StillSound(target[d])
                 PROVE  target[d] \in rows' /\ (pc[d] = "remove" => mount[Dir(target[d])] = NoRow)
      BY <1>1, <2>1
    <3>1. target[d] \in Create /\ Sound(target[d])
      BY <1>1, Before
    <3>. QED
      BY <1>0, <2>1, <3>1 DEF DeleteSound
  <2>15. \A q \in rows' : StillSound(q) /\ (\A d \in Delete : target'[d] = q => pc'[d] # "remove")
           => mount'[Dir(q)] = q
    BY <1>0, <1>1, <2>1, <2>2, Before DEF RowsHaveTheirMount, AddSound, Form
  <2>16. \A n \in Dirs : mount'[n] # NoRow /\ StillSound(mount'[n])
           => mount'[n] \in rows' \/ pc'[mount'[n]] = "insert"
    BY <1>0, <1>1, <2>1, <2>2, Before DEF NoMountLeftBehind, Form
  <2>. QED
    BY <2>11, <2>12, <2>13, <2>14, <2>15, <2>16, TableAfter
<1>. QED
  BY <1>2, <1>3, <1>4, <1>5 DEF AddStep

LEMMA DeleteKeepsTable ==
  ASSUME IInv, Next, NEW d \in Delete, DeleteStep(d)
  PROVE  TableSound'
<1> DEFINE r == target[d]
<1>0. /\ RowsDiffer /\ \A q \in Create : AddSound(q)
      /\ \A e \in Delete : DeleteSound(e)
      /\ RowsHaveTheirMount /\ NoMountLeftBehind
  BY DEF IInv
<1>1. /\ \A f \in Form \ {d} : pc'[f] = pc[f]
      /\ \A e \in Delete \ {d} : target'[e] = target[e]
      /\ Create \subseteq Form \ {d} /\ Delete \subseteq Form
      /\ \A q \in Create : StillSound(q) => Sound(q)
      /\ pc[d] \in {"deprovision", "remove"} /\ r \in Create
  <2>1. spoilt \subseteq spoilt'
    BY OneAtWorkStays
  <2>2. d \notin Create /\ TypeOK
    BY Before
  <2>3. pc[d] \in {"deprovision", "remove"}
    BY DEF DeleteStep, Deprovision, Remove, RemoveFails
  <2>4. /\ \A f \in Form \ {d} : pc'[f] = pc[f]
        /\ \A e \in Delete \ {d} : target'[e] = target[e]
    BY <2>2 DEF DeleteStep, Deprovision, Remove, RemoveFails, Goto, Finish, Form, TypeOK
  <2>. QED
    BY <2>1, <2>2, <2>3, <2>4, Before DEF Form, StillSound, Sound
<1>2. CASE Deprovision(d)
  <2>1. /\ rows' = rows /\ mount'[Dir(r)] = NoRow
        /\ \A n \in Dirs \ {Dir(r)} : mount'[n] = mount[n]
        /\ pc'[d] = "remove" /\ pc[d] = "deprovision" /\ target' = target
    BY <1>2, <1>1, Before DEF Deprovision, Goto, table, TypeOK, Form
  <2>2. \A q \in Create : Sound(q) /\ Dir(q) = Dir(r) =>
          asked[q] = asked[r] /\ Sound(r) /\ r \in rows /\ pc[q] \notin {"provision", "insert"}
    <3> SUFFICES ASSUME NEW q \in Create, Sound(q), Dir(q) = Dir(r)
                 PROVE  asked[q] = asked[r] /\ Sound(r) /\ r \in rows
                        /\ pc[q] \notin {"provision", "insert"}
      OBVIOUS
    <3>1. asked[r] = asked[q] /\ Sound(r)
      BY <1>1, SameName
    <3>2. r \in rows
      BY <1>0, <1>1, <3>1 DEF DeleteSound
    <3>3. pc[q] \notin {"provision", "insert"}
      BY <1>1, <3>1, WorkersWork, Before
    <3>. QED
      BY <3>1, <3>2, <3>3
  <2>11. \A q, p \in rows' : asked[q] = asked[p] => q = p
    BY <1>0, <1>1, <2>1, <2>2, Before DEF RowsDiffer
  <2>12. \A n \in Dirs : mount'[n] # NoRow => Dir(mount'[n]) = n
    BY <1>0, <1>1, <2>1, <2>2, Before
  <2>13. \A q \in Create : pc'[q] \in {"provision", "insert"} /\ StillSound(q) =>
           /\ \A p \in rows' : asked[p] # asked[q]
           /\ pc'[q] = "insert" => mount'[Dir(q)] = q
    BY <1>0, <1>1, <2>1, <2>2, Before DEF AddSound, Taken
  <2>14. \A e \in Delete : pc'[e] \in {"deprovision", "remove"} /\ StillSound(target'[e]) =>
           /\ target'[e] \in rows'
           /\ pc'[e] = "remove" => mount'[Dir(target'[e])] = NoRow
    <3> SUFFICES ASSUME NEW e \in Delete, pc[e] \in {"deprovision", "remove"},
                        StillSound(target[e])
                 PROVE  target[e] \in rows
                        /\ (pc'[e] = "remove" => mount'[Dir(target[e])] = NoRow)
      BY <1>1, <2>1
    <3>1. target[e] \in Create /\ Sound(target[e]) /\ Dir(target[e]) \in Dirs
      BY <1>1, Before
    <3>. QED
      BY <1>0, <1>1, <2>1, <3>1 DEF DeleteSound
  <2>15. \A q \in rows' : StillSound(q) /\ (\A e \in Delete : target'[e] = q => pc'[e] # "remove")
           => mount'[Dir(q)] = q
    <3> SUFFICES ASSUME NEW q \in rows, StillSound(q),
                        \A e \in Delete : target[e] = q => pc'[e] # "remove"
                 PROVE  mount'[Dir(q)] = q
      BY <2>1
    <3>1. q \in Create /\ Sound(q) /\ Dir(q) \in Dirs /\ q # r
      BY <1>1, <2>1, Before
    <3>2. \A e \in Delete : target[e] = q => pc[e] # "remove"
      BY <1>1, <2>1
    <3>3. mount[Dir(q)] = q
      BY <1>0, <3>1, <3>2 DEF RowsHaveTheirMount
    <3>4. Dir(q) # Dir(r)
      BY <1>0, <2>2, <3>1 DEF RowsDiffer
    <3>. QED
      BY <2>1, <3>1, <3>3, <3>4
  <2>16. \A n \in Dirs : mount'[n] # NoRow /\ StillSound(mount'[n])
           => mount'[n] \in rows' \/ pc'[mount'[n]] = "insert"
    BY <1>0, <1>1, <2>1, <2>2, Before DEF NoMountLeftBehind
  <2>. QED
    BY <2>11, <2>12, <2>13, <2>14, <2>15, <2>16, TableAfter
<1>3. CASE Remove(d)
  <2>1. /\ rows' = rows \ {r} /\ mount' = mount /\ pc'[d] = "done" /\ pc[d] = "remove"
    BY <1>3, <1>1, Before DEF Remove, Finish, Goto, TypeOK, Form
  <2>2. \A e \in Delete \ {d} :
          pc[e] \in {"deprovision", "remove"} /\ Sound(r) => target[e] # r
    BY <1>1, WorkersWork, Before
  <2>3. \A n \in Dirs : Sound(r) => mount[n] # r
    BY <1>0, <1>1, <2>1, Before DEF DeleteSound
  <2>11. \A q, p \in rows' : asked[q] = asked[p] => q = p
    BY <1>0, <1>1, <2>1, <2>2, <2>3, Before DEF RowsDiffer
  <2>12. \A n \in Dirs : mount'[n] # NoRow => Dir(mount'[n]) = n
    BY <1>0, <1>1, <2>1, <2>2, <2>3, Before
  <2>13. \A q \in Create : pc'[q] \in {"provision", "insert"} /\ StillSound(q) =>
           /\ \A p \in rows' : asked[p] # asked[q]
           /\ pc'[q] = "insert" => mount'[Dir(q)] = q
    BY <1>0, <1>1, <2>1, <2>2, <2>3, Before DEF AddSound, Taken
  <2>14. \A e \in Delete : pc'[e] \in {"deprovision", "remove"} /\ StillSound(target'[e]) =>
           /\ target'[e] \in rows'
           /\ pc'[e] = "remove" => mount'[Dir(target'[e])] = NoRow
    <3> SUFFICES ASSUME NEW e \in Delete \ {d}, pc[e] \in {"deprovision", "remove"},
                        StillSound(target[e])
                 PROVE  target[e] \in rows \ {r}
                        /\ (pc[e] = "remove" => mount[Dir(target[e])] = NoRow)
      BY <1>1, <2>1
    <3>1. target[e] \in Create /\ Sound(target[e])
      BY <1>1, Before
    <3>. QED
      BY <1>0, <2>2, <3>1 DEF DeleteSound
  <2>15. \A q \in rows' : StillSound(q) /\ (\A e \in Delete : target'[e] = q => pc'[e] # "remove")
           => mount'[Dir(q)] = q
    BY <1>0, <1>1, <2>1, <2>2, <2>3, Before DEF RowsHaveTheirMount
  <2>16. \A n \in Dirs : mount'[n] # NoRow /\ StillSound(mount'[n])
           => mount'[n] \in rows' \/ pc'[mount'[n]] = "insert"
    BY <1>0, <1>1, <2>1, <2>2, <2>3, Before DEF NoMountLeftBehind
  <2>. QED
    BY <2>11, <2>12, <2>13, <2>14, <2>15, <2>16, TableAfter
<1>4. CASE RemoveFails(d)
  <2>1. /\ rows' = rows /\ mount' = mount /\ pc'[d] = "done" /\ ~StillSound(r)
    BY <1>4, <1>1, Before DEF RemoveFails, Finish, Goto, Spoil, table, TypeOK, Form, StillSound
  <2>11. \A q, p \in rows' : asked[q] = asked[p] => q = p
    BY <1>0, <1>1, <2>1, Before DEF RowsDiffer
  <2>12. \A n \in Dirs : mount'[n] # NoRow => Dir(mount'[n]) = n
    BY <1>0, <1>1, <2>1, Before
  <2>13. \A q \in Create : pc'[q] \in {"provision", "insert"} /\ StillSound(q) =>
           /\ \A p \in rows' : asked[p] # asked[q]
           /\ pc'[q] = "insert" => mount'[Dir(q)] = q
    BY <1>0, <1>1, <2>1, Before DEF AddSound, Taken
  <2>14. \A e \in Delete : pc'[e] \in {"deprovision", "remove"} /\ StillSound(target'[e]) =>
           /\ target'[e] \in rows'
           /\ pc'[e] = "remove" => mount'[Dir(target'[e])] = NoRow
    <3> SUFFICES ASSUME NEW e \in Delete \ {d}, pc[e] \in {"deprovision", "remove"},
                        StillSound(target[e])
                 PROVE  target[e] \in rows
                        /\ (pc[e] = "remove" => mount[Dir(target[e])] = NoRow)
      BY <1>1, <2>1
    <3>1. target[e] \in Create /\ Sound(target[e])
      BY <1>1, Before
    <3>. QED
      BY <1>0, <3>1 DEF DeleteSound
  <2>15. \A q \in rows' : StillSound(q) /\ (\A e \in Delete : target'[e] = q => pc'[e] # "remove")
           => mount'[Dir(q)] = q
    BY <1>0, <1>1, <2>1, Before DEF RowsHaveTheirMount
  <2>16. \A n \in Dirs : mount'[n] # NoRow /\ StillSound(mount'[n])
           => mount'[n] \in rows' \/ pc'[mount'[n]] = "insert"
    BY <1>0, <1>1, <2>1, Before DEF NoMountLeftBehind
  <2>. QED
    BY <2>11, <2>12, <2>13, <2>14, <2>15, <2>16, TableAfter
<1>. QED
  BY <1>2, <1>3, <1>4 DEF DeleteStep

LEMMA FindKeepsTable ==
  ASSUME IInv, Next, NEW d \in Delete, FindRow(d)
  PROVE  TableSound'
<1>0. /\ RowsDiffer /\ \A q \in Create : AddSound(q)
      /\ \A e \in Delete : DeleteSound(e)
      /\ RowsHaveTheirMount /\ NoMountLeftBehind
  BY DEF IInv
<1>. QED
  <2>1. /\ rows' = rows /\ mount' = mount /\ target'[d] \in rows
        /\ pc'[d] = "deprovision" /\ pc[d] = "new"
        /\ \A f \in Form \ {d} : pc'[f] = pc[f]
        /\ \A e \in Delete \ {d} : target'[e] = target[e]
    BY Before DEF FindRow, Goto, table, TypeOK, Form
  <2>2. /\ Create \subseteq Form \ {d} /\ Delete \subseteq Form
        /\ \A q \in Create : StillSound(q) => Sound(q)
    BY OneAtWorkStays, Before DEF Form, StillSound
  <2>11. \A q, p \in rows' : asked[q] = asked[p] => q = p
    BY <1>0, <2>1, <2>2, Before DEF RowsDiffer
  <2>12. \A n \in Dirs : mount'[n] # NoRow => Dir(mount'[n]) = n
    BY <1>0, <2>1, <2>2, Before
  <2>13. \A q \in Create : pc'[q] \in {"provision", "insert"} /\ StillSound(q) =>
           /\ \A p \in rows' : asked[p] # asked[q]
           /\ pc'[q] = "insert" => mount'[Dir(q)] = q
    BY <1>0, <2>1, <2>2, Before DEF AddSound, Taken
  <2>14. \A e \in Delete : pc'[e] \in {"deprovision", "remove"} /\ StillSound(target'[e]) =>
           /\ target'[e] \in rows'
           /\ pc'[e] = "remove" => mount'[Dir(target'[e])] = NoRow
    <3>1. ASSUME NEW e \in Delete \ {d}, pc[e] \in {"deprovision", "remove"},
                 StillSound(target[e])
          PROVE  target[e] \in rows
                 /\ (pc[e] = "remove" => mount[Dir(target[e])] = NoRow)
      <4>1. target[e] \in Create /\ Sound(target[e])
        BY <2>2, <3>1, Before
      <4>. QED
        BY <1>0, <3>1, <4>1 DEF DeleteSound
    <3>. QED
      BY <2>1, <2>2, <3>1
  <2>15. \A q \in rows' : StillSound(q) /\ (\A e \in Delete : target'[e] = q => pc'[e] # "remove")
           => mount'[Dir(q)] = q
    BY <1>0, <2>1, <2>2, Before DEF RowsHaveTheirMount
  <2>16. \A n \in Dirs : mount'[n] # NoRow /\ StillSound(mount'[n])
           => mount'[n] \in rows' \/ pc'[mount'[n]] = "insert"
    BY <1>0, <2>1, <2>2, Before DEF NoMountLeftBehind
  <2>. QED
    BY <2>11, <2>12, <2>13, <2>14, <2>15, <2>16, TableAfter

(* A recheck or the sweep leaves rows, mounts and the other forms alone. *)
LEMMA QuietKeepsTable ==
  ASSUME IInv, Next, rows' = rows, mount' = mount, spoilt' = spoilt,
         \A f \in Create \cup Delete : pc'[f] = pc[f],
         \A e \in Delete : target'[e] = target[e]
  PROVE  TableSound'
<1>0. /\ RowsDiffer /\ \A q \in Create : AddSound(q)
      /\ \A e \in Delete : DeleteSound(e)
      /\ RowsHaveTheirMount /\ NoMountLeftBehind
  BY DEF IInv
<1>. QED
  <2>2. \A q \in Create : StillSound(q) => Sound(q)
    BY Before DEF StillSound
  <2>11. \A q, p \in rows' : asked[q] = asked[p] => q = p
    BY <1>0, <2>2, Before DEF RowsDiffer
  <2>12. \A n \in Dirs : mount'[n] # NoRow => Dir(mount'[n]) = n
    BY <1>0, <2>2, Before
  <2>13. \A q \in Create : pc'[q] \in {"provision", "insert"} /\ StillSound(q) =>
           /\ \A p \in rows' : asked[p] # asked[q]
           /\ pc'[q] = "insert" => mount'[Dir(q)] = q
    BY <1>0, <2>2, Before DEF AddSound, Taken
  <2>14. \A e \in Delete : pc'[e] \in {"deprovision", "remove"} /\ StillSound(target'[e]) =>
           /\ target'[e] \in rows'
           /\ pc'[e] = "remove" => mount'[Dir(target'[e])] = NoRow
    <3> SUFFICES ASSUME NEW e \in Delete, pc[e] \in {"deprovision", "remove"},
                        StillSound(target[e])
                 PROVE  target[e] \in rows
                        /\ (pc[e] = "remove" => mount[Dir(target[e])] = NoRow)
      OBVIOUS
    <3>1. target[e] \in Create /\ Sound(target[e])
      BY <2>2, Before
    <3>. QED
      BY <1>0, <3>1 DEF DeleteSound
  <2>15. \A q \in rows' : StillSound(q) /\ (\A e \in Delete : target'[e] = q => pc'[e] # "remove")
           => mount'[Dir(q)] = q
    BY <1>0, <2>2, Before DEF RowsHaveTheirMount
  <2>16. \A n \in Dirs : mount'[n] # NoRow /\ StillSound(mount'[n])
           => mount'[n] \in rows' \/ pc'[mount'[n]] = "insert"
    BY <1>0, <2>2, Before DEF NoMountLeftBehind
  <2>. QED
    BY <2>11, <2>12, <2>13, <2>14, <2>15, <2>16, TableAfter

LEMMA TableStays ==
  ASSUME IInv, Next
  PROVE  TableSound'
<1>1. ASSUME NEW f \in Recheck, RecheckStep(f) \/ FindRow(f)
      PROVE  TableSound'
  <2>1. f \notin Create \cup Delete /\ TypeOK /\ f \in Form
    BY FormsDiffer, Before DEF Form
  <2>2. rows' = rows /\ mount' = mount /\ spoilt' = spoilt
    BY <1>1, <2>1 DEF RecheckStep, RecheckRow, RecheckFails, FindRow, table, notes
  <2>3. /\ \A g \in Create \cup Delete : pc'[g] = pc[g]
        /\ \A e \in Delete : target'[e] = target[e]
    BY <1>1, <2>1 DEF RecheckStep, RecheckRow, RecheckFails, FindRow, Goto, Finish, TypeOK, Form
  <2>. QED
    BY <2>2, <2>3, QuietKeepsTable
<1>2. ASSUME SweepStep
      PROVE  TableSound'
  <2>1. UNCHANGED <<rows, mount, spoilt, pc, target>>
    BY <1>2 DEF SweepStep, MonitorStep, SweepBegins, SweepEnds, Check, CheckRaises, FlushFails,
                table, forms, notes
  <2>. QED
    BY <2>1, QuietKeepsTable
<1>. QED
  BY <1>1, <1>2, AddKeepsTable, DeleteKeepsTable, FindKeepsTable, Steps
-----------------------------------------------------------------------------
(* The sweep.                                                              *)

LEMMA SweepStays ==
  ASSUME IInv, Next
  PROVE  SweepSound'
<1>0. TypeOK /\ SweepSound
  BY DEF IInv
<1>1. ASSUME UNCHANGED <<sweep, listed, todo, result, broken>>, removed' = removed,
             rows \subseteq rows'
      PROVE  SweepSound'
  BY <1>0, <1>1 DEF SweepSound
<1> USE DEF table, monitor, session, notes
<1>2. ASSUME NEW r \in Create, AddStep(r)
      PROVE  SweepSound'
  BY <1>1, <1>2 DEF AddStep, CheckName, Provision, ProvisionFails, Insert, InsertFails
<1>3. ASSUME NEW d \in Delete, DeleteStep(d)
      PROVE  SweepSound'
  <2>1. CASE Remove(d)
    BY <1>0, <2>1 DEF Remove, SweepSound
  <2>2. CASE Deprovision(d) \/ RemoveFails(d)
    BY <1>1, <2>2 DEF Deprovision, RemoveFails
  <2>. QED
    BY <1>3, <2>1, <2>2 DEF DeleteStep
<1>4. ASSUME NEW f, FindRow(f)
      PROVE  SweepSound'
  BY <1>1, <1>4 DEF FindRow
<1>5. ASSUME NEW f \in Recheck, RecheckStep(f)
      PROVE  SweepSound'
  BY <1>1, <1>5 DEF RecheckStep, RecheckRow, RecheckFails
<1>6. ASSUME SweepStep
      PROVE  SweepSound'
  <2>1. CASE SweepBegins
    BY <1>0, <2>1 DEF SweepBegins, SweepSound
  <2>2. CASE SweepEnds
    BY <2>2 DEF SweepEnds, SweepSound
  <2>3. ASSUME NEW r \in Create, Check(r)
        PROVE  SweepSound'
    <3>1. /\ sweep = "check" /\ sweep' = sweep /\ r \in todo /\ todo' = todo \ {r}
          /\ rows' = rows /\ listed' = listed /\ removed' = removed
      BY <2>3 DEF Check, At
    <3>2. ASSUME ~removed
          PROVE  ~broken' /\ \A q \in listed' \ todo' : result'[q] # "unknown"
      <4>1. ~broken /\ dirty \cup {r} \subseteq rows
        BY <1>0, <3>1, <3>2 DEF SweepSound, TypeOK
      <4>2. result' = [result EXCEPT ![r] = Answer(r)] /\ broken' = broken
        BY <2>3, <4>1 DEF Check
      <4>. QED
        BY <1>0, <3>1, <3>2, <4>1, <4>2, AnswerTypes DEF SweepSound, TypeOK
    <3>. QED
      BY <1>0, <3>1, <3>2 DEF SweepSound
  <2>4. ASSUME NEW r \in Create, CheckRaises(r)
        PROVE  SweepSound'
    BY <1>0, <2>4 DEF CheckRaises, At, SweepSound, TypeOK
  <2>5. ASSUME NEW r \in Create, FlushFails(r)
        PROVE  SweepSound'
    BY <1>0, <2>5 DEF FlushFails, At, SweepSound
  <2>. QED
    BY <1>6, <2>1, <2>2, <2>3, <2>4, <2>5 DEF SweepStep, MonitorStep
<1>. QED
  BY <1>2, <1>3, <1>4, <1>5, <1>6, Steps
-----------------------------------------------------------------------------
(* What it guarantees.                                                     *)

LEMMA Initially ==
  ASSUME Init
  PROVE  IInv
<1> USE DEF Init
<1>1. TypeOK
  <2>1. /\ health \in [Create -> Health] /\ result \in [Create -> Health]
        /\ mount \in [Dirs -> Create \cup {NoRow}]
        /\ target \in [Delete \cup Recheck -> Create \cup {NoRow}]
    BY DEF Nothing, Health
  <2>2. pc \in [Form -> {"new", "provision", "insert", "deprovision", "remove",
                        "check", "done"}]
    OBVIOUS
  <2>3. database \in {"sqlite", "postgres"} /\ troubles \in 0 .. MaxTroubles
    BY Backends, BoundIsNat
  <2>. QED
    BY <2>1, <2>2, <2>3 DEF TypeOK
<1>2. FormsSound /\ OneAtWork
  BY DEF FormsSound, OneAtWork, Working, Form
<1>3. RowsDiffer /\ MountsNamed /\ RowsHaveTheirMount /\ NoMountLeftBehind /\ SweepSound
  BY DEF RowsDiffer, MountsNamed, RowsHaveTheirMount, NoMountLeftBehind, SweepSound
<1>4. \A f \in Form : pc[f] = "new"
  OBVIOUS
<1>5. /\ \A r \in Create : AddSound(r)
      /\ \A d \in Delete : DeleteSound(d)
  BY <1>4 DEF AddSound, DeleteSound, Form
<1>. QED
  BY <1>1, <1>2, <1>3, <1>5 DEF IInv

LEMMA IInvStays ==
  ASSUME IInv, [Next]_vars
  PROVE  IInv'
<1>1. CASE Next
  BY <1>1, TypesStay, OneAtWorkStays, TableStays, SweepStays DEF IInv, TableSound
<1>2. CASE UNCHANGED vars
  <2>1. /\ TypeOK' /\ FormsSound' /\ RowsDiffer' /\ MountsNamed'
    BY <1>2 DEF IInv, vars, given, table, forms, monitor, session, notes,
       TypeOK, FormsSound, RowsDiffer, MountsNamed, Dir
  <2>2. OneAtWork' /\ SweepSound'
    BY <1>2 DEF IInv, vars, given, table, forms, monitor, session, notes,
       OneAtWork, Working, SweepSound
  <2>3. /\ \A r \in Create : AddSound(r)'
        /\ \A d \in Delete : DeleteSound(d)'
        /\ RowsHaveTheirMount' /\ NoMountLeftBehind'
    BY <1>2 DEF IInv, vars, given, table, forms, monitor, session, notes,
       AddSound, DeleteSound, Taken, RowsHaveTheirMount, NoMountLeftBehind, Sound,
       NameOfItsOwn, Dir
  <2>. QED
    BY <2>1, <2>2, <2>3 DEF IInv
<1>. QED
  BY <1>1, <1>2

LEMMA Invariant == Spec => []IInv
<1>1. Init => IInv
  BY Initially
<1>2. IInv /\ [Next]_vars => IInv'
  BY IInvStays
<1>. QED
  BY <1>1, <1>2, PTL DEF Spec

(* Every variable of the connections has its type, for any forms.          *)
THEOREM TypeCorrect == Spec => []TypeOK
<1>1. IInv => TypeOK
  BY DEF IInv
<1>. QED
  BY <1>1, Invariant, PTL

(* A listed connection has its mount: whatever forms come and go and       *)
(* whatever fails, one whose name is its own, and which no two forms       *)
(* worked on at once and no form left half done, has the mount its own     *)
(* form asked for (create_connection, delete_connection).                  *)
THEOREM RowsAreMounted == Spec => []RowsHaveTheirMount
<1>1. IInv => RowsHaveTheirMount
  BY DEF IInv
<1>. QED
  BY <1>1, Invariant, PTL

(* And no mount of such a connection, and no password, is without a row    *)
(* once its form is done (create_connection, delete_connection).           *)
THEOREM MountsAreListed == Spec => []NoMountLeftBehind
<1>1. IInv => NoMountLeftBehind
  BY DEF IInv
<1>. QED
  BY <1>1, Invariant, PTL

(* A sweep under which no row was deleted and no flush failed records what *)
(* it found of every connection it listed, however many of the checks      *)
(* raised (check_all_connections).                                         *)
THEOREM SweepsRecord == Spec => SweepRecords
<1>1. ASSUME IInv, Next, sweep = "check", sweep' # "check", ~removed
      PROVE  \A r \in listed : result[r] # "unknown" /\ health'[r] = result[r]
  <2>1. SweepEnds
    <3>1. ASSUME NEW r \in Create
          PROVE  ~AddStep(r) /\ ~Check(r) /\ ~CheckRaises(r) /\ ~FlushFails(r)
      BY <1>1 DEF AddStep, CheckName, Provision, ProvisionFails, Insert, InsertFails,
                  Check, CheckRaises, FlushFails, monitor
    <3>2. ASSUME NEW f
          PROVE  ~DeleteStep(f) /\ ~FindRow(f) /\ ~RecheckStep(f)
      BY <1>1 DEF DeleteStep, Deprovision, Remove, RemoveFails, FindRow, RecheckStep,
                  RecheckRow, RecheckFails, monitor
    <3>3. ~SweepBegins
      BY <1>1 DEF SweepBegins
    <3>. QED
      BY <1>1, <3>1, <3>2, <3>3, Steps DEF SweepStep, MonitorStep
  <2>2. listed \subseteq rows /\ ~broken /\ dirty \subseteq listed /\ listed \subseteq Create
        /\ \A r \in listed \ todo : result[r] # "unknown"
    BY <1>1 DEF IInv, SweepSound, TypeOK
  <2>3. todo = {} /\ ~Fails
    BY <2>1, <2>2 DEF SweepEnds, Fails
  <2>. QED
    BY <2>1, <2>2, <2>3 DEF SweepEnds, Recorded
<1>2. IInv /\ [Next]_vars =>
        [sweep = "check" /\ sweep' # "check" /\ ~removed =>
           \A r \in listed : result[r] # "unknown" /\ health'[r] = result[r]]_vars
  BY <1>1
<1>. QED
  BY <1>2, Invariant, PTL DEF Spec, SweepRecords
=============================================================================
