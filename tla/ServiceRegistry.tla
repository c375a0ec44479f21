--------------------------- MODULE ServiceRegistry ---------------------------
(***************************************************************************)
(* What a running process believes about the services and their providers, *)
(* against the database the admin panel writes.  The service registry      *)
(* keeps a copy of the active services (internal/service/registry.go), the *)
(* provider registry the assignments of the providers it loaded when the   *)
(* process started (internal/idp/registry.go, config.go).  A save of the   *)
(* panel (internal/admin/services.go, services_providers.go) writes the    *)
(* database first and renews a copy afterwards; the service copy is read   *)
(* and swapped with nothing held in between, the assignments under a mutex *)
(* held over both.                                                         *)
(*                                                                         *)
(* A row keeps active and one column, sub_format, that stands for those a  *)
(* form may leave out; the other columns, positions and pictures are left  *)
(* out.  Provider rows are written past the program: active counts from    *)
(* the next reload on, the rest, the environment and the allowlist from    *)
(* the next start on.                                                      *)
(***************************************************************************)
EXTENDS Integers, FiniteSets

CONSTANTS
    Service,    \* service ids
    Provider,   \* rows of identity_providers
    Forms,      \* the forms that are sent
    Request,    \* request slots of the panel
    MaxFaults,  \* bound on failed reads of the renewals
    None

ASSUME MaxFaultsAssumption == MaxFaults \in Nat
ASSUME RegistryNoneAssumption == None \notin Request /\ None \notin Service

VARIABLES
    services,   \* the services table
    assigned,   \* the service_identity_providers table
    enabled,    \* identity_providers: the rows with active = 1
    cache,      \* service.Registry.cache
    loaded,     \* idp.Registry.providers: fixed from start to stop
    byService,  \* idp.Registry.byService
    reloadMu,   \* who holds idp.Registry.reloadMu
    req,        \* what each request slot is doing
    faults,     \* failed renewals so far
    doubt,      \* history: the last renewal of the cache failed or was lapped
    unread,     \* history: the last reload failed
    moved       \* history: services a switch of them or of one of their
                \* providers has touched since a reload read

registryVars == <<services, assigned, cache, enabled, loaded, byService, reloadMu,
                  req, faults, doubt, unread, moved>>

SubFormat == {"email", "id"}

ServiceRow == [st: {"none", "present"}, active: BOOLEAN, sub_format: SubFormat]

NoService == [st |-> "none", active |-> FALSE, sub_format |-> "email"]

\* A form that passed validation; a form without sub_format carries None.
Form == [active: BOOLEAN, sub_format: SubFormat \cup {None}]

ASSUME FormsAssumption == Forms \subseteq Form

Assignments == [Service -> SUBSET Provider]

RegistryPC == {"idle", "update", "warm", "swap", "assign", "lock", "reload", "publish"}

\* lapped only records, for the properties, that another renewal ended
\* between this one's read and its swap.
RegistryReq == [pc: RegistryPC, svc: Service \cup {None}, row: ServiceRow,
                form: Form \cup {None}, picks: SUBSET Provider, remove: SUBSET Provider,
                current: SUBSET Provider, rows: [Service -> ServiceRow],
                next: Assignments, lapped: BOOLEAN]

NoRows == [s \in Service |-> NoService]

NoAssignments == [s \in Service |-> {}]

NoSave == [pc |-> "idle", svc |-> None, row |-> NoService, form |-> None, picks |-> {},
           remove |-> {}, current |-> {}, rows |-> NoRows,
           next |-> NoAssignments, lapped |-> FALSE]

RegistryTypeOK ==
    /\ services \in [Service -> ServiceRow]
    /\ assigned \in Assignments
    /\ enabled \subseteq Provider
    /\ cache \in [Service -> ServiceRow]
    /\ loaded \subseteq Provider
    /\ byService \in Assignments
    /\ reloadMu \in Request \cup {None}
    /\ req \in [Request -> RegistryReq]
    /\ faults \in 0..MaxFaults
    /\ doubt \in BOOLEAN
    /\ unread \in BOOLEAN
    /\ moved \subseteq Service

-----------------------------------------------------------------------------
(* Statements *)

Idle(r) == req[r].pc = "idle"

SaveAt(r, pc) == req[r].pc = pc

SaveTo(r, pc) == req' = [req EXCEPT ![r].pc = pc]

ListActiveServices ==
    [s \in Service |-> IF services[s].active THEN services[s] ELSE NoService]

\* Whether the service is active or not.
findServiceByID(s) == services[s].st = "present"

\* ListServiceIdentityProviders, of active providers on active services, and
\* of these the ones of loaded providers.
buildAssignments(on) ==
    [s \in Service |-> IF services[s].active THEN assigned[s] \cap enabled \cap on ELSE {}]

\* What is switched by writing row into s.
Switched(s, row) == IF services[s].active = row.active THEN {} ELSE {s}

-----------------------------------------------------------------------------
(* Services: HandleCreate, HandleUpdate *)

\* The row the INSERT writes; a column the form left out gets its default.
CreateService(f) ==
    [st |-> "present", active |-> f.active,
     sub_format |-> IF f.sub_format = None THEN "email" ELSE f.sub_format]

\* A form whose validation or INSERT fails is shown again and nothing has
\* happened.
HandleCreate(r, s, f) ==
    /\ Idle(r)
    /\ ~findServiceByID(s)
    /\ services' = [services EXCEPT ![s] = CreateService(f)]
    /\ moved' = moved \cup Switched(s, CreateService(f))
    /\ req' = [req EXCEPT ![r] = [NoSave EXCEPT !.pc = "warm"]]
    /\ UNCHANGED <<assigned, cache, enabled, loaded, byService, reloadMu, faults, doubt, unread>>

\* HandleUpdate reads the row first: what the form leaves out comes from it.
FindService(r, s, f) ==
    /\ Idle(r)
    /\ findServiceByID(s)
    /\ req' = [req EXCEPT ![r] = [NoSave EXCEPT !.pc = "update", !.svc = s,
                                    !.row = services[s], !.form = f]]
    /\ UNCHANGED <<services, assigned, cache, enabled, loaded, byService, reloadMu,
                   faults, doubt, unread, moved>>

buildUpdateParams(existing, f) ==
    [existing EXCEPT !.active = f.active,
                     !.sub_format = IF f.sub_format = None THEN @ ELSE f.sub_format]

\* Faulty variant: the copy is renewed before the row is written.
UpdateAfterRenewal(r) ==
    /\ SaveAt(r, "update")
    /\ LET s == req[r].svc
           row == buildUpdateParams(req[r].row, req[r].form)
       IN  /\ services' = [services EXCEPT ![s] = row]
           /\ moved' = moved \cup Switched(s, row)
    /\ cache' = ListActiveServices
    /\ doubt' = FALSE
    /\ req' = [req EXCEPT ![r] = NoSave]
    /\ UNCHANGED <<assigned, enabled, loaded, byService, reloadMu, faults, unread>>

\* The UPDATE writes every column.
UpdateService(r) ==
    /\ SaveAt(r, "update")
    /\ LET s == req[r].svc
           row == buildUpdateParams(req[r].row, req[r].form)
       IN  /\ services' = [services EXCEPT ![s] = row]
           /\ moved' = moved \cup Switched(s, row)
    /\ req' = [req EXCEPT ![r] = [NoSave EXCEPT !.pc = "warm"]]
    /\ UNCHANGED <<assigned, cache, enabled, loaded, byService, reloadMu, faults, doubt, unread>>

\* The form does not validate, or the statement fails.
RefuseUpdate(r) ==
    /\ SaveAt(r, "update")
    /\ req' = [req EXCEPT ![r] = NoSave]
    /\ UNCHANGED <<services, assigned, cache, enabled, loaded, byService, reloadMu,
                   faults, doubt, unread, moved>>

-----------------------------------------------------------------------------
(* invalidateCache: Registry.Warmup reads, then swaps under the lock *)

WarmupRead(r) ==
    /\ SaveAt(r, "warm")
    /\ req' = [req EXCEPT ![r].pc = "swap", ![r].rows = ListActiveServices]
    /\ UNCHANGED <<services, assigned, cache, enabled, loaded, byService, reloadMu,
                   faults, doubt, unread, moved>>

\* Request r is answered, and laps the renewals that have read already.
EndRenewal(r) ==
    req' = [q \in Request |->
              IF q = r THEN NoSave
              ELSE [req[q] EXCEPT !.lapped = @ \/ SaveAt(q, "swap")]]

WarmupSwap(r) ==
    /\ SaveAt(r, "swap")
    /\ cache' = req[r].rows
    /\ doubt' = req[r].lapped
    /\ EndRenewal(r)
    /\ UNCHANGED <<services, assigned, enabled, loaded, byService, reloadMu, faults,
                   unread, moved>>

\* The save stands; the answer carries warn=cache.
WarmupFails(r) ==
    /\ SaveAt(r, "warm")
    /\ faults < MaxFaults
    /\ faults' = faults + 1
    /\ doubt' = TRUE
    /\ EndRenewal(r)
    /\ UNCHANGED <<services, assigned, cache, enabled, loaded, byService, reloadMu,
                   unread, moved>>

-----------------------------------------------------------------------------
(* Assignments: ProvidersHandler.HandleServiceUpdate *)

\* Only loaded providers may be picked, and only an assignment to a provider
\* that is not loaded may be removed by name; anything else is a 400.
BeginProviders(r, s, picks, remove) ==
    /\ Idle(r)
    /\ findServiceByID(s)
    /\ picks \subseteq loaded
    /\ remove \subseteq assigned[s] \ loaded
    /\ req' = [req EXCEPT ![r] = [NoSave EXCEPT !.pc = "assign", !.svc = s,
                                    !.picks = picks, !.remove = remove,
                                    !.current = assigned[s]]]
    /\ UNCHANGED <<services, assigned, cache, enabled, loaded, byService, reloadMu,
                   faults, doubt, unread, moved>>

\* Faulty variant: what is kept is taken from the list read for validation.
keptAsRead(r) == (req[r].current \ loaded) \ req[r].remove

\* Assignments to providers that are not loaded are not in the form: the
\* transaction reads them again and puts them back.
kept(r) == (assigned[req[r].svc] \ loaded) \ req[r].remove

SaveProviders(r) ==
    /\ SaveAt(r, "assign")
    /\ assigned' = [assigned EXCEPT ![req[r].svc] = kept(r) \cup req[r].picks]
    /\ req' = [req EXCEPT ![r] = [NoSave EXCEPT !.pc = "lock"]]
    /\ UNCHANGED <<services, cache, enabled, loaded, byService, reloadMu, faults,
                   doubt, unread, moved>>

\* The transaction fails and is rolled back.
SaveProvidersFails(r) ==
    /\ SaveAt(r, "assign")
    /\ req' = [req EXCEPT ![r] = NoSave]
    /\ UNCHANGED <<services, assigned, cache, enabled, loaded, byService, reloadMu,
                   faults, doubt, unread, moved>>

\* Faulty variant: reloads are not serialised.
ReloadAnyway(r) == TRUE

ReloadAlone(r) == reloadMu = None

\* ReloadAssignments takes reloadMu over the read and the swap.
ReloadLock(r) ==
    /\ SaveAt(r, "lock")
    /\ ReloadAlone(r)
    /\ reloadMu' = r
    /\ SaveTo(r, "reload")
    /\ UNCHANGED <<services, assigned, cache, enabled, loaded, byService, faults,
                   doubt, unread, moved>>

ReloadRead(r) ==
    /\ SaveAt(r, "reload")
    /\ req' = [req EXCEPT ![r].pc = "publish", ![r].next = buildAssignments(loaded)]
    /\ moved' = {}
    /\ UNCHANGED <<services, assigned, cache, enabled, loaded, byService, reloadMu,
                   faults, doubt, unread>>

ReloadSwap(r) ==
    /\ SaveAt(r, "publish")
    /\ byService' = req[r].next
    /\ reloadMu' = None
    /\ unread' = FALSE
    /\ req' = [req EXCEPT ![r] = NoSave]
    /\ UNCHANGED <<services, assigned, cache, enabled, loaded, faults, doubt, moved>>

\* The save stands and the previous assignments stay in use: warn=reload.
ReloadFails(r) ==
    /\ SaveAt(r, "reload")
    /\ faults < MaxFaults
    /\ faults' = faults + 1
    /\ reloadMu' = None
    /\ unread' = TRUE
    /\ req' = [req EXCEPT ![r] = NoSave]
    /\ UNCHANGED <<services, assigned, cache, enabled, loaded, byService, doubt, moved>>

-----------------------------------------------------------------------------
(* The process *)

\* An operator switches a provider on or off in the database; the running
\* process is not told.
SetProviderActive(p) ==
    /\ enabled' = IF p \in enabled THEN enabled \ {p} ELSE enabled \cup {p}
    /\ moved' = moved \cup {s \in Service : p \in assigned[s] \cap loaded}
    /\ UNCHANGED <<services, assigned, cache, loaded, byService, reloadMu, req,
                   faults, doubt, unread>>

\* The sets of rows validate may let through at a start: active ones, whose
\* other columns, environment and allowlist are changed past the program.
validate == SUBSET enabled

\* What main builds before it serves: Warmup, then idp.Load, which leaves out
\* the rows that are not active or do not validate, then the assignments.
Load(on) ==
    /\ cache' = ListActiveServices
    /\ loaded' = on
    /\ byService' = buildAssignments(on)

\* The process stops, whatever its requests were doing, and starts again.
Restart(on) ==
    /\ Load(on)
    /\ reloadMu' = None
    /\ req' = [r \in Request |-> NoSave]
    /\ doubt' = FALSE
    /\ unread' = FALSE
    /\ moved' = {}
    /\ UNCHANGED <<services, assigned, enabled, faults>>

RegistryInit ==
    /\ services = NoRows
    /\ assigned = NoAssignments
    /\ enabled = Provider
    /\ cache = NoRows
    /\ loaded = Provider
    /\ byService = NoAssignments
    /\ reloadMu = None
    /\ req = [r \in Request |-> NoSave]
    /\ faults = 0
    /\ doubt = FALSE
    /\ unread = FALSE
    /\ moved = {}

ServiceStep(r) ==
    \/ \E s \in Service, f \in Forms : HandleCreate(r, s, f) \/ FindService(r, s, f)
    \/ UpdateService(r)
    \/ RefuseUpdate(r)
    \/ WarmupRead(r)
    \/ WarmupSwap(r)
    \/ WarmupFails(r)

ProviderStep(r) ==
    \/ \E s \in Service, picks, remove \in SUBSET Provider : BeginProviders(r, s, picks, remove)
    \/ SaveProviders(r)
    \/ SaveProvidersFails(r)
    \/ ReloadLock(r)
    \/ ReloadRead(r)
    \/ ReloadSwap(r)
    \/ ReloadFails(r)

RegistryNext ==
    \/ \E r \in Request : ServiceStep(r) \/ ProviderStep(r)
    \/ \E p \in Provider : SetProviderActive(p)
    \/ \E on \in validate : Restart(on)

RegistrySpec == RegistryInit /\ [][RegistryNext]_registryVars

-----------------------------------------------------------------------------
(* Properties *)

\* When no save is under way, the copy the logins use is what the database
\* says, unless the last renewal failed or two renewals overlapped: Warmup
\* reads and swaps without serialising, so that of two overlapping saves the
\* one that read first may swap last and bring back what the other replaced.
\* The state is always of its type.
CacheFollowsSaves ==
    /\ RegistryTypeOK
    /\ (\A r \in Request : Idle(r)) /\ ~doubt => cache = ListActiveServices

\* When no assignment is being saved and the last reload succeeded, a
\* provider is offered for an active service exactly when it is assigned to
\* it, active and loaded: reloads are serialised, so that neither of two saves
\* can bring back the other's assignments.  Switching a service or a provider
\* on or off does not reload; the services this concerns are excepted until
\* the next reload, of whichever service, reads the tables.
OfferedAsAssigned ==
    (\A r \in Request : Idle(r)) /\ ~unread =>
        \A s \in Service \ moved :
            byService[s] = buildAssignments(loaded)[s]

\* A save of the assignments never takes away one to a provider that is not
\* loaded, and so not in the form, unless it was named for removal, and never
\* brings one back that another save removed.
UnloadedAssignmentsKept ==
    [][\A r \in Request : SaveProviders(r) =>
          \A s \in Service :
              assigned'[s] \ loaded =
                  (assigned[s] \ loaded) \ (IF s = req[r].svc THEN req[r].remove ELSE {})]_registryVars

=============================================================================
