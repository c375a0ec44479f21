----------------------- MODULE ServiceRegistryProofs -----------------------
(***************************************************************************)
(* The safety properties of ServiceRegistry for any number of services,    *)
(* providers, forms and requests of the panel.                             *)
(*                                                                         *)
(* The properties speak of moments when no save is under way; the          *)
(* inductive invariant says of every moment which request will make them   *)
(* true.  A copy of the services that is behind the table has a renewal    *)
(* ahead that will read it or has read it as it is (CopyInv), unless       *)
(* another renewal ended in between (RenewalInv).  Assignments that are    *)
(* behind have a reload ahead (OfferInv); the mutex leaves at most one     *)
(* reload between its read and its swap, and when what it read is behind,  *)
(* the request that changed the table still waits for the mutex            *)
(* (PublishInv).                                                           *)
(***************************************************************************)
EXTENDS ServiceRegistry, TLAPS

\* Request q will swap in the services as they are in the table.
Renews(q) ==
    \/ req[q].pc = "warm"
    \/ req[q].pc = "swap" /\ req[q].rows = ListActiveServices

\* f is right for the services not switched since the last reload read.
UpToDate(f) == \A s \in Service \ moved : f[s] = buildAssignments(loaded)[s]

\* A save under way has a service, a form, and picks among the loaded.
SaveInv ==
    \A r \in Request :
        /\ req[r].pc = "update" => req[r].svc \in Service /\ req[r].form \in Form
        /\ req[r].pc = "assign" => req[r].svc \in Service /\ req[r].picks \subseteq loaded

RenewalInv ==
    \A r \in Request : req[r].pc = "swap" =>
        \/ req[r].rows = ListActiveServices
        \/ req[r].lapped
        \/ \E q \in Request : Renews(q)

CopyInv == cache = ListActiveServices \/ doubt \/ \E q \in Request : Renews(q)

MutexInv == \A r \in Request : req[r].pc \in {"reload", "publish"} => reloadMu = r

PublishInv ==
    \A r \in Request : req[r].pc = "publish" =>
        UpToDate(req[r].next) \/ \E q \in Request : req[q].pc = "lock"

OfferInv ==
    \/ UpToDate(byService)
    \/ unread
    \/ \E q \in Request : req[q].pc \in {"lock", "reload", "publish"}

RegistryIInv ==
    /\ RegistryTypeOK /\ SaveInv /\ MutexInv
    /\ RenewalInv /\ CopyInv
    /\ PublishInv /\ OfferInv

-----------------------------------------------------------------------------
(* Operators *)

\* The empty tables are typed, and a row that is not there is not active.
LEMMA RowShapes ==
    /\ NoService \in ServiceRow /\ NoService.active = FALSE
    /\ NoRows \in [Service -> ServiceRow] /\ NoAssignments \in Assignments
  BY DEF NoService, ServiceRow, SubFormat, NoRows, NoAssignments, Assignments

\* An idle slot is a request in form.
LEMMA NoSaveShape ==
    /\ NoSave \in RegistryReq /\ NoSave.pc = "idle" /\ NoSave.lapped = FALSE
  <1>1. NoService \in ServiceRow /\ NoRows \in [Service -> ServiceRow] /\ NoAssignments \in Assignments
    BY RowShapes
  <1> QED BY <1>1 DEF NoSave, RegistryReq, RegistryPC

\* ListActiveServices yields rows.
LEMMA ActiveRows ==
    ASSUME services \in [Service -> ServiceRow]
    PROVE  ListActiveServices \in [Service -> ServiceRow]
  BY RowShapes DEF ListActiveServices

\* buildAssignments yields assignments.
LEMMA BuiltAssignments ==
    ASSUME assigned \in Assignments, NEW on
    PROVE  buildAssignments(on) \in Assignments
  BY DEF buildAssignments, Assignments

\* The INSERT writes a typed row.
LEMMA CreatedRow == \A f \in Form : CreateService(f) \in ServiceRow
  BY DEF CreateService, Form, ServiceRow, SubFormat

\* The UPDATE writes a typed row.
LEMMA UpdatedRow ==
    ASSUME NEW row \in ServiceRow, NEW f \in Form
    PROVE  buildUpdateParams(row, f) \in ServiceRow
  <1> DEFINE a == [row EXCEPT !.active = f.active]
             v == IF f.sub_format = None THEN a.sub_format ELSE f.sub_format
  <1>1. a \in ServiceRow
    BY DEF ServiceRow, Form
  <1>2. v \in SubFormat
    BY <1>1 DEF ServiceRow, Form
  <1> HIDE DEF a, v
  <1>3. [a EXCEPT !.sub_format = v] \in ServiceRow
    BY <1>1, <1>2 DEF ServiceRow
  <1> QED BY <1>3 DEF buildUpdateParams, a, v

\* What a request slot is told to do is all that changes in req.
LEMMA Placed ==
    ASSUME RegistryTypeOK, NEW r \in Request, NEW new \in RegistryReq,
           req' = [req EXCEPT ![r] = new]
    PROVE  /\ req' \in [Request -> RegistryReq] /\ req'[r] = new
           /\ \A q \in Request : q # r => req'[q] = req[q]
  BY DEF RegistryTypeOK

-----------------------------------------------------------------------------
(* What most steps leave alone *)

\* Requests that renew the copy are where they were.
SameRenewals ==
    \A q \in Request :
        req'[q].pc \in {"warm", "swap"} \/ req[q].pc \in {"warm", "swap"} => req'[q] = req[q]

\* Requests that reload the assignments are where they were.
SameReloads ==
    \A q \in Request :
        \/ req'[q].pc \in {"lock", "reload", "publish"}
        \/ req[q].pc \in {"lock", "reload", "publish"}
        => req'[q] = req[q]

\* A step away from services, copy and renewals keeps their invariants.
LEMMA CopyKept ==
    ASSUME RenewalInv, CopyInv, SameRenewals, UNCHANGED <<services, cache, doubt>>
    PROVE  RenewalInv' /\ CopyInv'
  <1>1. ListActiveServices' = ListActiveServices
    BY DEF ListActiveServices
  <1>2. \A q \in Request : Renews(q) => Renews(q)'
    BY <1>1 DEF SameRenewals, Renews
  <1>3. RenewalInv'
    BY <1>1, <1>2 DEF RenewalInv, SameRenewals
  <1>4. CopyInv'
    BY <1>1, <1>2 DEF CopyInv
  <1> QED BY <1>3, <1>4

\* A write of the services table, followed by a renewal of the copy.
LEMMA CopyRenewed ==
    ASSUME NEW r \in Request, req'[r].pc = "warm"
    PROVE  RenewalInv' /\ CopyInv'
  BY DEF RenewalInv, CopyInv, Renews

\* Switching a service puts it in moved; the others stay up to date.
LEMMA UpToDateKept ==
    ASSUME NEW f, UpToDate(f), UNCHANGED <<assigned, enabled, loaded>>, moved \subseteq moved',
           \A s \in Service \ moved' : services'[s].active = services[s].active
    PROVE  \A s \in Service \ moved' : f[s] = buildAssignments(loaded)'[s]
  <1>1. \A s \in Service \ moved' : buildAssignments(loaded)'[s] = buildAssignments(loaded)[s]
    BY DEF buildAssignments
  <1> QED BY <1>1 DEF UpToDate

\* A step away from assignments and reloads keeps their invariants.
LEMMA OfferKept ==
    ASSUME MutexInv, PublishInv, OfferInv, SameReloads,
           UNCHANGED <<assigned, enabled, loaded, byService, reloadMu, unread>>, moved \subseteq moved',
           \A s \in Service \ moved' : services'[s].active = services[s].active
    PROVE  MutexInv' /\ PublishInv' /\ OfferInv'
  <1>1. MutexInv'
    BY DEF MutexInv, SameReloads
  <1>2. PublishInv'
    <2>1. ASSUME NEW r \in Request, req'[r].pc = "publish", ~\E q \in Request : req'[q].pc = "lock"
          PROVE  UpToDate(req[r].next)'
      <3>1. req'[r] = req[r] /\ ~\E q \in Request : req[q].pc = "lock"
        BY <2>1 DEF SameReloads
      <3>2. UpToDate(req[r].next)
        BY <2>1, <3>1 DEF PublishInv
      <3> QED BY <3>1, <3>2, UpToDateKept DEF UpToDate
    <2> QED BY <2>1 DEF PublishInv
  <1>3. OfferInv'
    <2>1. CASE UpToDate(byService)
      BY <2>1, UpToDateKept DEF OfferInv, UpToDate
    <2>2. CASE unread
      BY <2>2 DEF OfferInv
    <2>3. CASE \E q \in Request : req[q].pc \in {"lock", "reload", "publish"}
      BY <2>3 DEF OfferInv, SameReloads
    <2> QED BY <2>1, <2>2, <2>3 DEF OfferInv
  <1> QED BY <1>1, <1>2, <1>3

-----------------------------------------------------------------------------
(* The steps *)

\* The first start has loaded empty tables.
LEMMA RegistryInitially == RegistryInit => RegistryIInv
  <1> SUFFICES ASSUME RegistryInit PROVE RegistryIInv
    OBVIOUS
  <1>1. RegistryTypeOK
    <2>1. req \in [Request -> RegistryReq]
      BY NoSaveShape DEF RegistryInit
    <2>2. faults \in 0 .. MaxFaults
      BY MaxFaultsAssumption DEF RegistryInit
    <2>3. /\ services \in [Service -> ServiceRow] /\ cache \in [Service -> ServiceRow]
          /\ assigned \in Assignments /\ byService \in Assignments
      BY RowShapes DEF RegistryInit
    <2>4. /\ loaded \subseteq Provider /\ enabled \subseteq Provider /\ reloadMu \in Request \cup {None} /\ moved \subseteq Service
          /\ doubt \in BOOLEAN /\ unread \in BOOLEAN
      BY DEF RegistryInit
    <2> QED BY <2>1, <2>2, <2>3, <2>4 DEF RegistryTypeOK
  <1>2. \A r \in Request : req[r].pc = "idle"
    BY NoSaveShape DEF RegistryInit
  <1>3. cache = ListActiveServices
    BY RowShapes DEF RegistryInit, ListActiveServices, NoRows
  <1>4. UpToDate(byService)
    BY RowShapes DEF RegistryInit, UpToDate, buildAssignments, NoRows, NoAssignments
  <1> QED BY <1>1, <1>2, <1>3, <1>4
      DEF RegistryIInv, SaveInv, MutexInv, RenewalInv, CopyInv, PublishInv, OfferInv

\* A service is created, with a renewal ahead.
LEMMA CreateStep ==
    ASSUME RegistryIInv, NEW r \in Request, NEW s \in Service, NEW f \in Forms, HandleCreate(r, s, f)
    PROVE  RegistryIInv'
  <1> DEFINE row == CreateService(f)
             new == [NoSave EXCEPT !.pc = "warm"]
  <1>t. RegistryTypeOK
    BY DEF RegistryIInv
  <1>1. row \in ServiceRow
    BY FormsAssumption, CreatedRow
  <1>2. new \in RegistryReq /\ new.pc = "warm"
    BY NoSaveShape DEF RegistryReq, RegistryPC
  <1>3. /\ req[r].pc = "idle" /\ services' = [services EXCEPT ![s] = row]
        /\ moved' = moved \cup Switched(s, row) /\ req' = [req EXCEPT ![r] = new]
        /\ UNCHANGED <<assigned, cache, enabled, loaded, byService, reloadMu, faults, doubt, unread>>
    BY DEF HandleCreate, Idle
  <1> HIDE DEF row, new
  <1>4. /\ req' \in [Request -> RegistryReq] /\ req'[r] = new
        /\ \A q \in Request : q # r => req'[q] = req[q]
    BY <1>t, <1>2, <1>3, Placed
  <1>5. /\ services' \in [Service -> ServiceRow] /\ moved' \subseteq Service /\ moved \subseteq moved'
        /\ \A x \in Service \ moved' : services'[x].active = services[x].active
    BY <1>t, <1>1, <1>3 DEF RegistryTypeOK, Switched
  <1>6. RegistryTypeOK'
    BY <1>t, <1>3, <1>4, <1>5 DEF RegistryTypeOK
  <1>7. SaveInv'
    BY <1>2, <1>3, <1>4 DEF RegistryIInv, SaveInv
  <1>8. RenewalInv' /\ CopyInv'
    BY <1>2, <1>4, CopyRenewed
  <1>9. SameReloads
    BY <1>2, <1>3, <1>4 DEF SameReloads
  <1>10. MutexInv' /\ PublishInv' /\ OfferInv'
    BY <1>3, <1>5, <1>9, OfferKept DEF RegistryIInv
  <1> QED BY <1>6, <1>7, <1>8, <1>10 DEF RegistryIInv

\* A service is updated, with a renewal ahead.
LEMMA UpdateStep ==
    ASSUME RegistryIInv, NEW r \in Request, UpdateService(r)
    PROVE  RegistryIInv'
  <1> DEFINE s == req[r].svc
             row == buildUpdateParams(req[r].row, req[r].form)
             new == [NoSave EXCEPT !.pc = "warm"]
  <1>t. RegistryTypeOK
    BY DEF RegistryIInv
  <1>0. req[r].pc = "update" /\ req[r] \in RegistryReq
    BY <1>t DEF UpdateService, SaveAt, RegistryTypeOK
  <1>1. s \in Service /\ row \in ServiceRow
    <2>1. s \in Service /\ req[r].form \in Form
      BY <1>0 DEF RegistryIInv, SaveInv
    <2>2. req[r].row \in ServiceRow
      BY <1>0 DEF RegistryReq
    <2> QED BY <2>1, <2>2, UpdatedRow
  <1>2. new \in RegistryReq /\ new.pc = "warm"
    BY NoSaveShape DEF RegistryReq, RegistryPC
  <1>3. /\ services' = [services EXCEPT ![s] = row]
        /\ moved' = moved \cup Switched(s, row) /\ req' = [req EXCEPT ![r] = new]
        /\ UNCHANGED <<assigned, cache, enabled, loaded, byService, reloadMu, faults, doubt, unread>>
    BY DEF UpdateService
  <1> HIDE DEF s, row, new
  <1>4. /\ req' \in [Request -> RegistryReq] /\ req'[r] = new
        /\ \A q \in Request : q # r => req'[q] = req[q]
    BY <1>t, <1>2, <1>3, Placed
  <1>5. /\ services' \in [Service -> ServiceRow] /\ moved' \subseteq Service /\ moved \subseteq moved'
        /\ \A x \in Service \ moved' : services'[x].active = services[x].active
    BY <1>t, <1>1, <1>3 DEF RegistryTypeOK, Switched
  <1>6. RegistryTypeOK'
    BY <1>t, <1>3, <1>4, <1>5 DEF RegistryTypeOK
  <1>7. SaveInv'
    BY <1>2, <1>3, <1>4 DEF RegistryIInv, SaveInv
  <1>8. RenewalInv' /\ CopyInv'
    BY <1>2, <1>4, CopyRenewed
  <1>9. SameReloads
    BY <1>0, <1>2, <1>4 DEF SameReloads
  <1>10. MutexInv' /\ PublishInv' /\ OfferInv'
    BY <1>3, <1>5, <1>9, OfferKept DEF RegistryIInv
  <1> QED BY <1>6, <1>7, <1>8, <1>10 DEF RegistryIInv

\* A step that only moves a request between the points before its write.
LEMMA QuietStep ==
    ASSUME RegistryIInv, NEW r \in Request, NEW new \in RegistryReq,
           req[r].pc \in {"idle", "update", "assign"}, new.pc \in {"idle", "update", "assign"},
           new.pc = "update" => new.svc \in Service /\ new.form \in Form,
           new.pc = "assign" => new.svc \in Service /\ new.picks \subseteq loaded,
           req' = [req EXCEPT ![r] = new],
           UNCHANGED <<services, assigned, cache, enabled, loaded, byService, reloadMu, faults, doubt,
                       unread, moved>>
    PROVE  RegistryIInv'
  <1>t. RegistryTypeOK
    BY DEF RegistryIInv
  <1>1. /\ req' \in [Request -> RegistryReq] /\ req'[r] = new
        /\ \A q \in Request : q # r => req'[q] = req[q]
    BY <1>t, Placed
  <1>2. RegistryTypeOK'
    BY <1>t, <1>1 DEF RegistryTypeOK
  <1>3. SaveInv'
    BY <1>1 DEF RegistryIInv, SaveInv
  <1>4. SameRenewals /\ SameReloads
    BY <1>1 DEF SameRenewals, SameReloads
  <1>5. RenewalInv' /\ CopyInv'
    BY <1>4, CopyKept DEF RegistryIInv
  <1>6. MutexInv' /\ PublishInv' /\ OfferInv'
    BY <1>4, OfferKept DEF RegistryIInv
  <1> QED BY <1>2, <1>3, <1>5, <1>6 DEF RegistryIInv

\* Reads, refused forms and failed transactions of the panel.
LEMMA QuietSteps ==
    ASSUME RegistryIInv, NEW r \in Request,
           \/ \E s \in Service, f \in Forms : FindService(r, s, f)
           \/ RefuseUpdate(r)
           \/ \E s \in Service, picks, remove \in SUBSET Provider :
                 BeginProviders(r, s, picks, remove)
           \/ SaveProvidersFails(r)
    PROVE  RegistryIInv'
  <1>t. RegistryTypeOK
    BY DEF RegistryIInv
  <1>1. ASSUME NEW s \in Service, NEW f \in Forms, FindService(r, s, f) PROVE RegistryIInv'
    <2> DEFINE new == [NoSave EXCEPT !.pc = "update", !.svc = s, !.row = services[s], !.form = f]
    <2>1. services[s] \in ServiceRow /\ f \in Form
      BY <1>t, FormsAssumption DEF RegistryTypeOK
    <2>2. new \in RegistryReq /\ new.pc = "update" /\ new.svc = s /\ new.form = f
      BY <2>1, NoSaveShape DEF RegistryReq, RegistryPC
    <2>3. /\ req[r].pc = "idle" /\ req' = [req EXCEPT ![r] = new]
          /\ UNCHANGED <<services, assigned, cache, enabled, loaded, byService, reloadMu, faults, doubt,
                         unread, moved>>
      BY <1>1 DEF FindService, Idle
    <2> HIDE DEF new
    <2> QED BY <2>1, <2>2, <2>3, QuietStep
  <1>2. ASSUME RefuseUpdate(r) \/ SaveProvidersFails(r) PROVE RegistryIInv'
    <2>1. /\ req[r].pc \in {"update", "assign"} /\ req' = [req EXCEPT ![r] = NoSave]
          /\ UNCHANGED <<services, assigned, cache, enabled, loaded, byService, reloadMu, faults, doubt,
                         unread, moved>>
      BY <1>2 DEF RefuseUpdate, SaveProvidersFails, SaveAt
    <2> QED BY <2>1, NoSaveShape, QuietStep
  <1>3. ASSUME NEW s \in Service, NEW picks \in SUBSET Provider, NEW remove \in SUBSET Provider,
               BeginProviders(r, s, picks, remove)
        PROVE  RegistryIInv'
    <2> DEFINE new == [NoSave EXCEPT !.pc = "assign", !.svc = s, !.picks = picks,
                                     !.remove = remove, !.current = assigned[s]]
    <2>1. assigned[s] \in SUBSET Provider
      BY <1>t DEF RegistryTypeOK, Assignments
    <2>2. new \in RegistryReq /\ new.pc = "assign" /\ new.svc = s /\ new.picks = picks
      BY <2>1, NoSaveShape DEF RegistryReq, RegistryPC
    <2>3. /\ req[r].pc = "idle" /\ picks \subseteq loaded /\ req' = [req EXCEPT ![r] = new]
          /\ UNCHANGED <<services, assigned, cache, enabled, loaded, byService, reloadMu, faults, doubt,
                         unread, moved>>
      BY <1>3 DEF BeginProviders, Idle
    <2> HIDE DEF new
    <2> QED BY <2>2, <2>3, QuietStep
  <1> QED BY <1>1, <1>2, <1>3

\* The renewal of the copy: the read.
LEMMA WarmupReadStep ==
    ASSUME RegistryIInv, NEW r \in Request, WarmupRead(r)
    PROVE  RegistryIInv'
  <1> DEFINE new == [req[r] EXCEPT !.pc = "swap", !.rows = ListActiveServices]
  <1>t. RegistryTypeOK
    BY DEF RegistryIInv
  <1>0. req[r] \in RegistryReq /\ req[r].pc = "warm"
    BY <1>t DEF RegistryTypeOK, WarmupRead, SaveAt
  <1>1. ListActiveServices \in [Service -> ServiceRow]
    BY <1>t, ActiveRows DEF RegistryTypeOK
  <1>2. new \in RegistryReq /\ new.pc = "swap" /\ new.rows = ListActiveServices
    BY <1>0, <1>1 DEF RegistryReq, RegistryPC
  <1>3. /\ req' = [req EXCEPT ![r] = new]
        /\ UNCHANGED <<services, assigned, cache, enabled, loaded, byService, reloadMu, faults, doubt,
                       unread, moved>>
    BY <1>t DEF WarmupRead, RegistryTypeOK
  <1> HIDE DEF new
  <1>4. /\ req' \in [Request -> RegistryReq] /\ req'[r] = new
        /\ \A q \in Request : q # r => req'[q] = req[q]
    BY <1>t, <1>2, <1>3, Placed
  <1>5. RegistryTypeOK'
    BY <1>t, <1>3, <1>4 DEF RegistryTypeOK
  <1>6. SaveInv'
    BY <1>2, <1>3, <1>4 DEF RegistryIInv, SaveInv
  <1>7. ListActiveServices' = ListActiveServices
    BY <1>3 DEF ListActiveServices
  <1>8. Renews(r)'
    BY <1>2, <1>4, <1>7 DEF Renews
  <1>9. RenewalInv' /\ CopyInv'
    BY <1>8 DEF RenewalInv, CopyInv
  <1>10. SameReloads
    BY <1>0, <1>2, <1>4 DEF SameReloads
  <1>11. MutexInv' /\ PublishInv' /\ OfferInv'
    BY <1>3, <1>10, OfferKept DEF RegistryIInv
  <1> QED BY <1>5, <1>6, <1>9, <1>11 DEF RegistryIInv

\* A renewal that ends laps the others that have read.
LEMMA EndedRenewal ==
    ASSUME RegistryIInv, NEW r \in Request, req[r].pc \in {"warm", "swap"}, EndRenewal(r)
    PROVE  /\ req' \in [Request -> RegistryReq] /\ req'[r] = NoSave
           /\ \A q \in Request : q # r =>
                 /\ req'[q].pc = req[q].pc /\ req'[q].svc = req[q].svc
                 /\ req'[q].form = req[q].form /\ req'[q].picks = req[q].picks
                 /\ req'[q].rows = req[q].rows /\ req'[q].next = req[q].next
                 /\ req[q].pc = "swap" => req'[q].lapped
                 /\ req[q].pc # "swap" => req'[q] = req[q]
  <1>1. req \in [Request -> RegistryReq]
    BY DEF RegistryIInv, RegistryTypeOK
  <1> DEFINE lap(q) == [req[q] EXCEPT !.lapped = req[q].lapped \/ SaveAt(q, "swap")]
  <1>2. ASSUME NEW q \in Request
        PROVE  /\ lap(q) \in RegistryReq
               /\ lap(q).pc = req[q].pc /\ lap(q).svc = req[q].svc
               /\ lap(q).form = req[q].form /\ lap(q).picks = req[q].picks
               /\ lap(q).rows = req[q].rows /\ lap(q).next = req[q].next
               /\ req[q].pc = "swap" => lap(q).lapped
               /\ req[q].pc # "swap" => lap(q) = req[q]
    <2> DEFINE c == req[q]
               b == c.lapped \/ SaveAt(q, "swap")
    <2>1. c \in RegistryReq
      BY <1>1
    <2>2. /\ b \in BOOLEAN /\ (c.pc = "swap" => b) /\ (c.pc # "swap" => b = c.lapped)
      BY <2>1 DEF SaveAt, RegistryReq
    <2> HIDE DEF c, b
    <2>3. /\ [c EXCEPT !.lapped = b] \in RegistryReq
          /\ [c EXCEPT !.lapped = b].pc = c.pc /\ [c EXCEPT !.lapped = b].svc = c.svc
          /\ [c EXCEPT !.lapped = b].form = c.form /\ [c EXCEPT !.lapped = b].picks = c.picks
          /\ [c EXCEPT !.lapped = b].rows = c.rows /\ [c EXCEPT !.lapped = b].next = c.next
          /\ [c EXCEPT !.lapped = b].lapped = b
          /\ b = c.lapped => [c EXCEPT !.lapped = b] = c
      BY <2>1, <2>2 DEF RegistryReq
    <2> QED BY <2>2, <2>3 DEF c, b
  <1>3. req' = [q \in Request |-> IF q = r THEN NoSave ELSE lap(q)]
    BY DEF EndRenewal
  <1> HIDE DEF lap
  <1> QED BY <1>2, <1>3, NoSaveShape

\* The renewal of the copy: the swap, or the failed read.
LEMMA WarmupEnds ==
    ASSUME RegistryIInv, NEW r \in Request, WarmupSwap(r) \/ WarmupFails(r)
    PROVE  RegistryIInv'
  <1>t. RegistryTypeOK
    BY DEF RegistryIInv
  <1>0. /\ req[r].pc \in {"warm", "swap"} /\ EndRenewal(r) /\ req[r] \in RegistryReq
        /\ UNCHANGED <<services, assigned, enabled, loaded, byService, reloadMu, unread, moved>>
    BY <1>t DEF WarmupSwap, WarmupFails, SaveAt, RegistryTypeOK
  <1>1. /\ req' \in [Request -> RegistryReq] /\ req'[r] = NoSave
        /\ \A q \in Request : q # r =>
              /\ req'[q].pc = req[q].pc /\ req'[q].svc = req[q].svc
              /\ req'[q].form = req[q].form /\ req'[q].picks = req[q].picks
              /\ req'[q].rows = req[q].rows /\ req'[q].next = req[q].next
              /\ req[q].pc = "swap" => req'[q].lapped
              /\ req[q].pc # "swap" => req'[q] = req[q]
    BY <1>0, EndedRenewal
  <1>2. faults' \in 0 .. MaxFaults
    BY <1>t, MaxFaultsAssumption DEF WarmupSwap, WarmupFails, RegistryTypeOK
  <1>3. cache' \in [Service -> ServiceRow] /\ doubt' \in BOOLEAN
    BY <1>t, <1>0 DEF WarmupSwap, WarmupFails, RegistryTypeOK, RegistryReq
  <1>4. RegistryTypeOK'
    BY <1>t, <1>0, <1>1, <1>2, <1>3 DEF RegistryTypeOK
  <1>5. SaveInv'
    BY <1>0, <1>1, NoSaveShape DEF RegistryIInv, SaveInv
  <1>6. RenewalInv'
    BY <1>1, NoSaveShape DEF RenewalInv
  <1>7. CopyInv'
    <2>1. ListActiveServices' = ListActiveServices
      BY <1>0 DEF ListActiveServices
    <2>2. \A q \in Request : q # r /\ Renews(q) => Renews(q)'
      BY <1>1, <2>1 DEF Renews
    <2>3. CASE WarmupFails(r)
      BY <2>3 DEF WarmupFails, CopyInv
    <2>4. CASE WarmupSwap(r)
      <3>1. req[r].pc = "swap" /\ cache' = req[r].rows /\ doubt' = req[r].lapped
        BY <2>4 DEF WarmupSwap, SaveAt
      <3>2. \/ req[r].rows = ListActiveServices \/ req[r].lapped
            \/ \E q \in Request : q # r /\ Renews(q)
        BY <3>1 DEF RegistryIInv, RenewalInv, Renews
      <3> QED BY <2>1, <2>2, <3>1, <3>2 DEF CopyInv
    <2> QED BY <2>3, <2>4
  <1>8. SameReloads
    BY <1>0, <1>1, NoSaveShape DEF SameReloads
  <1>9. MutexInv' /\ PublishInv' /\ OfferInv'
    BY <1>0, <1>8, OfferKept DEF RegistryIInv
  <1> QED BY <1>4, <1>5, <1>6, <1>7, <1>9 DEF RegistryIInv

\* The transaction of the assignments, which has a reload ahead.
LEMMA SaveProvidersStep ==
    ASSUME RegistryIInv, NEW r \in Request, SaveProviders(r)
    PROVE  RegistryIInv'
  <1> DEFINE new == [NoSave EXCEPT !.pc = "lock"]
             rows == kept(r) \cup req[r].picks
  <1>t. RegistryTypeOK
    BY DEF RegistryIInv
  <1>0. req[r] \in RegistryReq /\ req[r].pc = "assign" /\ req[r].svc \in Service
    BY <1>t DEF RegistryTypeOK, RegistryIInv, SaveInv, SaveProviders, SaveAt
  <1>1. rows \in SUBSET Provider
    BY <1>t, <1>0 DEF RegistryTypeOK, RegistryReq, Assignments, kept
  <1>2. new \in RegistryReq /\ new.pc = "lock"
    BY NoSaveShape DEF RegistryReq, RegistryPC
  <1>3. /\ req' = [req EXCEPT ![r] = new] /\ assigned' = [assigned EXCEPT ![req[r].svc] = rows]
        /\ UNCHANGED <<services, cache, enabled, loaded, byService, reloadMu, faults, doubt, unread, moved>>
    BY DEF SaveProviders
  <1> HIDE DEF new, rows
  <1>4. /\ req' \in [Request -> RegistryReq] /\ req'[r] = new
        /\ \A q \in Request : q # r => req'[q] = req[q]
    BY <1>t, <1>2, <1>3, Placed
  <1>5. assigned' \in Assignments
    BY <1>t, <1>0, <1>1, <1>3 DEF RegistryTypeOK, Assignments
  <1>6. RegistryTypeOK'
    BY <1>t, <1>3, <1>4, <1>5 DEF RegistryTypeOK
  <1>7. SaveInv'
    BY <1>2, <1>3, <1>4 DEF RegistryIInv, SaveInv
  <1>8. SameRenewals
    BY <1>0, <1>2, <1>4 DEF SameRenewals
  <1>9. RenewalInv' /\ CopyInv'
    BY <1>3, <1>8, CopyKept DEF RegistryIInv
  <1>10. MutexInv' /\ PublishInv' /\ OfferInv'
    BY <1>2, <1>3, <1>4 DEF RegistryIInv, MutexInv, PublishInv, OfferInv
  <1> QED BY <1>6, <1>7, <1>9, <1>10 DEF RegistryIInv

\* A reload gets the mutex, so no other is past it.
LEMMA ReloadLockStep ==
    ASSUME RegistryIInv, NEW r \in Request, ReloadLock(r)
    PROVE  RegistryIInv'
  <1> DEFINE new == [req[r] EXCEPT !.pc = "reload"]
  <1>t. RegistryTypeOK
    BY DEF RegistryIInv
  <1>0. req[r] \in RegistryReq /\ req[r].pc = "lock" /\ reloadMu = None
    BY <1>t DEF RegistryTypeOK, ReloadLock, ReloadAlone, SaveAt
  <1>1. new \in RegistryReq /\ new.pc = "reload"
    BY <1>0 DEF RegistryReq, RegistryPC
  <1>2. /\ req' = [req EXCEPT ![r] = new] /\ reloadMu' = r
        /\ UNCHANGED <<services, assigned, cache, enabled, loaded, byService, faults, doubt, unread, moved>>
    BY DEF ReloadLock, SaveTo
  <1> HIDE DEF new
  <1>3. /\ req' \in [Request -> RegistryReq] /\ req'[r] = new
        /\ \A q \in Request : q # r => req'[q] = req[q]
    BY <1>t, <1>1, <1>2, Placed
  <1>4. RegistryTypeOK'
    BY <1>t, <1>2, <1>3 DEF RegistryTypeOK
  <1>5. SaveInv'
    BY <1>1, <1>2, <1>3 DEF RegistryIInv, SaveInv
  <1>6. SameRenewals
    BY <1>0, <1>1, <1>3 DEF SameRenewals
  <1>7. RenewalInv' /\ CopyInv'
    BY <1>2, <1>6, CopyKept DEF RegistryIInv
  <1>8. \A q \in Request : req[q].pc \notin {"reload", "publish"}
    BY <1>0, RegistryNoneAssumption DEF RegistryIInv, MutexInv
  <1>9. MutexInv' /\ PublishInv' /\ OfferInv'
    BY <1>1, <1>2, <1>3, <1>8 DEF MutexInv, PublishInv, OfferInv
  <1> QED BY <1>4, <1>5, <1>7, <1>9 DEF RegistryIInv

\* What a reload reads is up to date at that moment.
LEMMA ReloadReadStep ==
    ASSUME RegistryIInv, NEW r \in Request, ReloadRead(r)
    PROVE  RegistryIInv'
  <1> DEFINE new == [req[r] EXCEPT !.pc = "publish", !.next = buildAssignments(loaded)]
  <1>t. RegistryTypeOK
    BY DEF RegistryIInv
  <1>0. req[r] \in RegistryReq /\ req[r].pc = "reload" /\ reloadMu = r
    BY <1>t DEF RegistryTypeOK, ReloadRead, SaveAt, RegistryIInv, MutexInv
  <1>b. buildAssignments(loaded) \in Assignments
    BY <1>t, BuiltAssignments DEF RegistryTypeOK
  <1>1. new \in RegistryReq /\ new.pc = "publish" /\ new.next = buildAssignments(loaded)
    BY <1>0, <1>b DEF RegistryReq, RegistryPC
  <1>2. /\ req' = [req EXCEPT ![r] = new] /\ moved' = {}
        /\ UNCHANGED <<services, assigned, cache, enabled, loaded, byService, reloadMu, faults, doubt, unread>>
    BY <1>t DEF ReloadRead, RegistryTypeOK
  <1> HIDE DEF new
  <1>3. /\ req' \in [Request -> RegistryReq] /\ req'[r] = new
        /\ \A q \in Request : q # r => req'[q] = req[q]
    BY <1>t, <1>1, <1>2, Placed
  <1>4. RegistryTypeOK'
    BY <1>t, <1>2, <1>3 DEF RegistryTypeOK
  <1>5. SaveInv'
    BY <1>1, <1>2, <1>3 DEF RegistryIInv, SaveInv
  <1>6. SameRenewals
    BY <1>0, <1>1, <1>3 DEF SameRenewals
  <1>7. RenewalInv' /\ CopyInv'
    BY <1>2, <1>6, CopyKept DEF RegistryIInv
  <1>8. \A q \in Request : q # r => req[q].pc \notin {"reload", "publish"}
    BY <1>0 DEF RegistryIInv, MutexInv
  <1>9. buildAssignments(loaded)' = buildAssignments(loaded)
    BY <1>2 DEF buildAssignments
  <1>10. UpToDate(req[r].next)'
    BY <1>1, <1>3, <1>9 DEF UpToDate
  <1>11. MutexInv' /\ PublishInv' /\ OfferInv'
    BY <1>0, <1>1, <1>2, <1>3, <1>8, <1>10 DEF MutexInv, PublishInv, OfferInv
  <1> QED BY <1>4, <1>5, <1>7, <1>11 DEF RegistryIInv

\* A reload swaps what it read, or has failed to read.
LEMMA ReloadEnds ==
    ASSUME RegistryIInv, NEW r \in Request, ReloadSwap(r) \/ ReloadFails(r)
    PROVE  RegistryIInv'
  <1>t. RegistryTypeOK
    BY DEF RegistryIInv
  <1>0. /\ req[r] \in RegistryReq /\ req[r].pc \in {"reload", "publish"}
        /\ req' = [req EXCEPT ![r] = NoSave] /\ reloadMu' = None
        /\ UNCHANGED <<services, assigned, cache, enabled, loaded, doubt, moved>>
    BY <1>t DEF RegistryTypeOK, ReloadSwap, ReloadFails, SaveAt
  <1>1. /\ req' \in [Request -> RegistryReq] /\ req'[r] = NoSave
        /\ \A q \in Request : q # r => req'[q] = req[q]
    BY <1>t, <1>0, NoSaveShape, Placed
  <1>2. faults' \in 0 .. MaxFaults
    BY <1>t, MaxFaultsAssumption DEF ReloadSwap, ReloadFails, RegistryTypeOK
  <1>3. byService' \in Assignments /\ unread' \in BOOLEAN
    BY <1>t, <1>0 DEF ReloadSwap, ReloadFails, RegistryTypeOK, RegistryReq
  <1>4. RegistryTypeOK'
    BY <1>t, <1>0, <1>1, <1>2, <1>3 DEF RegistryTypeOK
  <1>5. SaveInv'
    BY <1>0, <1>1, NoSaveShape DEF RegistryIInv, SaveInv
  <1>6. SameRenewals
    BY <1>0, <1>1, NoSaveShape DEF SameRenewals
  <1>7. RenewalInv' /\ CopyInv'
    BY <1>0, <1>6, CopyKept DEF RegistryIInv
  <1>8. \A q \in Request : q # r => req[q].pc \notin {"reload", "publish"}
    BY <1>0 DEF RegistryIInv, MutexInv
  <1>9. MutexInv' /\ PublishInv'
    BY <1>1, <1>8, NoSaveShape DEF MutexInv, PublishInv
  <1>10. OfferInv'
    <2>1. CASE ReloadFails(r)
      BY <2>1 DEF ReloadFails, OfferInv
    <2>2. CASE ReloadSwap(r)
      <3>1. req[r].pc = "publish" /\ byService' = req[r].next
        BY <2>2 DEF ReloadSwap, SaveAt
      <3>2. CASE UpToDate(req[r].next)
        <4>1. UpToDate(byService)'
          BY <1>0, <3>1, <3>2 DEF UpToDate, buildAssignments
        <4> QED BY <4>1 DEF OfferInv
      <3>3. CASE \E q \in Request : req[q].pc = "lock"
        BY <1>1, <3>1, <3>3 DEF OfferInv
      <3> QED BY <3>1, <3>2, <3>3 DEF RegistryIInv, PublishInv
    <2> QED BY <2>1, <2>2
  <1> QED BY <1>4, <1>5, <1>7, <1>9, <1>10 DEF RegistryIInv

\* An operator's switch leaves the copies behind only where moved says so.
LEMMA SwitchStep ==
    ASSUME RegistryIInv, NEW p \in Provider, SetProviderActive(p)
    PROVE  RegistryIInv'
  <1>t. RegistryTypeOK
    BY DEF RegistryIInv
  <1> DEFINE on == IF p \in enabled THEN enabled \ {p} ELSE enabled \cup {p}
             touched == {s \in Service : p \in assigned[s] \cap loaded}
  <1>1. /\ enabled' = on /\ moved' = moved \cup touched
        /\ UNCHANGED <<services, assigned, cache, loaded, byService, reloadMu, req, faults,
                       doubt, unread>>
    BY DEF SetProviderActive
  <1>2. RegistryTypeOK'
    BY <1>t, <1>1 DEF RegistryTypeOK
  <1>3. SaveInv' /\ MutexInv'
    BY <1>1 DEF RegistryIInv, SaveInv, MutexInv
  <1>4. SameRenewals
    BY <1>1 DEF SameRenewals
  <1>5. RenewalInv' /\ CopyInv'
    BY <1>1, <1>4, CopyKept DEF RegistryIInv
  <1>6. ASSUME NEW f, UpToDate(f)
        PROVE  \A s \in Service \ moved' : f[s] = buildAssignments(loaded)'[s]
    <2> SUFFICES ASSUME NEW s \in Service, s \notin moved'
                 PROVE  f[s] = buildAssignments(loaded)'[s]
      OBVIOUS
    <2>1. s \notin moved /\ p \notin assigned[s] \cap loaded
      BY <1>1
    <2>2. assigned[s] \cap on \cap loaded = assigned[s] \cap enabled \cap loaded
      BY <2>1
    <2>3. buildAssignments(loaded)'[s] = buildAssignments(loaded)[s]
      BY <1>1, <2>2 DEF buildAssignments
    <2> QED BY <1>6, <2>1, <2>3 DEF UpToDate
  <1> HIDE DEF on, touched
  <1>7. PublishInv'
    BY <1>1, <1>6 DEF RegistryIInv, PublishInv, UpToDate
  <1>8. OfferInv'
    BY <1>1, <1>6 DEF RegistryIInv, OfferInv, UpToDate
  <1> QED BY <1>2, <1>3, <1>5, <1>7, <1>8 DEF RegistryIInv

\* A restart reads both copies afresh.
LEMMA RestartStep ==
    ASSUME RegistryIInv, NEW on \in validate, Restart(on)
    PROVE  RegistryIInv'
  <1>t. RegistryTypeOK
    BY DEF RegistryIInv
  <1>1. /\ req' = [r \in Request |-> NoSave] /\ cache' = ListActiveServices /\ loaded' = on
        /\ byService' = buildAssignments(on) /\ reloadMu' = None /\ doubt' = FALSE
        /\ unread' = FALSE /\ moved' = {} /\ UNCHANGED <<services, assigned, enabled, faults>>
    BY DEF Restart, Load
  <1>2. req' \in [Request -> RegistryReq] /\ \A r \in Request : req'[r].pc = "idle"
    BY <1>1, NoSaveShape
  <1>3. cache' \in [Service -> ServiceRow]
    BY <1>t, <1>1, ActiveRows DEF RegistryTypeOK
  <1>4. byService' \in Assignments
    BY <1>t, <1>1, BuiltAssignments DEF RegistryTypeOK
  <1>5. RegistryTypeOK'
    BY <1>t, <1>1, <1>2, <1>3, <1>4 DEF RegistryTypeOK, validate
  <1>6. CopyInv'
    BY <1>1 DEF CopyInv, ListActiveServices
  <1>7. OfferInv'
    <2>1. UpToDate(byService)'
      BY <1>1 DEF UpToDate, buildAssignments
    <2> QED BY <2>1 DEF OfferInv
  <1> QED BY <1>2, <1>5, <1>6, <1>7 DEF RegistryIInv, SaveInv, MutexInv, RenewalInv, PublishInv

\* A step of somebody else changes nothing here.
LEMMA RegistryStutter == ASSUME RegistryIInv, UNCHANGED registryVars PROVE RegistryIInv'
  <1>1. RegistryTypeOK' /\ SaveInv'
    BY DEF RegistryIInv, RegistryTypeOK, SaveInv, registryVars
  <1>2. SameRenewals /\ SameReloads
    BY DEF SameRenewals, SameReloads, registryVars
  <1>3. RenewalInv' /\ CopyInv'
    BY <1>2, CopyKept DEF RegistryIInv, registryVars
  <1>4. MutexInv' /\ PublishInv' /\ OfferInv'
    BY <1>2, OfferKept DEF RegistryIInv, registryVars
  <1> QED BY <1>1, <1>3, <1>4 DEF RegistryIInv

-----------------------------------------------------------------------------
(* The theorems *)

\* Every step keeps the invariant.
LEMMA RegistryStep == RegistryIInv /\ [RegistryNext]_registryVars => RegistryIInv'
  <1> SUFFICES ASSUME RegistryIInv, [RegistryNext]_registryVars PROVE RegistryIInv'
    OBVIOUS
  <1>1. ASSUME NEW r \in Request, ServiceStep(r) PROVE RegistryIInv'
    BY <1>1, CreateStep, UpdateStep, QuietSteps, WarmupReadStep, WarmupEnds DEF ServiceStep
  <1>2. ASSUME NEW r \in Request, ProviderStep(r) PROVE RegistryIInv'
    BY <1>2, QuietSteps, SaveProvidersStep, ReloadLockStep, ReloadReadStep, ReloadEnds
    DEF ProviderStep
  <1> QED BY <1>1, <1>2, SwitchStep, RestartStep, RegistryStutter DEF RegistryNext

\* However many requests of the panel overlap, a copy that is behind the
\* tables has a renewal or a reload ahead that will bring it up to date, or
\* is known to be in doubt (service/registry.go Warmup, idp/registry.go
\* ReloadAssignments).
THEOREM RegistryInvariant == RegistrySpec => []RegistryIInv
  BY RegistryInitially, RegistryStep, PTL DEF RegistrySpec

\* Between saves the copy of the services is what the table says, unless the
\* last renewal failed or was lapped (admin/services.go invalidateCache).
THEOREM TheCopyFollowsSaves == RegistrySpec => []CacheFollowsSaves
  <1>1. RegistryIInv => CacheFollowsSaves
    BY DEF RegistryIInv, CopyInv, Renews, CacheFollowsSaves, Idle
  <1> QED BY <1>1, RegistryInvariant, PTL

\* Between saves, and with the last reload successful, a service offers the
\* providers that are assigned to it, active and loaded, and no others, unless
\* it or one of them was switched on or off since (idp/registry.go reloadMu).
THEOREM ProvidersOfferedAsAssigned == RegistrySpec => []OfferedAsAssigned
  <1>1. RegistryIInv => OfferedAsAssigned
    BY DEF RegistryIInv, OfferInv, UpToDate, OfferedAsAssigned, Idle
  <1> QED BY <1>1, RegistryInvariant, PTL

\* A save of the assignments leaves those to providers that are not loaded
\* as they are at that moment, but for the ones named for removal, whatever
\* was read for the validation (admin/services_providers.go).
THEOREM UnloadedAssignmentsStay == RegistrySpec => UnloadedAssignmentsKept
  <1> DEFINE Keeps == \A r \in Request : SaveProviders(r) =>
                        \A s \in Service :
                            assigned'[s] \ loaded =
                              (assigned[s] \ loaded)
                                \ (IF s = req[r].svc THEN req[r].remove ELSE {})
  <1>1. RegistryIInv /\ [RegistryNext]_registryVars => [Keeps]_registryVars
    <2> SUFFICES ASSUME RegistryIInv, NEW r \in Request, SaveProviders(r), NEW s \in Service
                 PROVE  assigned'[s] \ loaded =
                          (assigned[s] \ loaded)
                            \ (IF s = req[r].svc THEN req[r].remove ELSE {})
      OBVIOUS
    <2>1. req[r].pc = "assign" /\ req[r].svc \in Service /\ req[r].picks \subseteq loaded
      BY DEF RegistryIInv, SaveInv, SaveProviders, SaveAt
    <2>2. /\ assigned \in [Service -> SUBSET Provider]
          /\ assigned' = [assigned EXCEPT ![req[r].svc] = kept(r) \cup req[r].picks]
      BY DEF RegistryIInv, RegistryTypeOK, Assignments, SaveProviders
    <2>3. CASE s = req[r].svc
      <3>1. assigned'[s] = kept(r) \cup req[r].picks
        BY <2>1, <2>2, <2>3
      <3> QED BY <2>1, <2>3, <3>1 DEF kept
    <2>4. CASE s # req[r].svc
      <3>1. assigned'[s] = assigned[s]
        BY <2>1, <2>2, <2>4
      <3> QED BY <2>4, <3>1
    <2> QED BY <2>3, <2>4
  <1> QED BY <1>1, RegistryInvariant, PTL DEF RegistrySpec, UnloadedAssignmentsKept

=============================================================================
