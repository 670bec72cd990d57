----------------------------- MODULE Lifecycle ------------------------------
(***************************************************************************)
(* windbag_image resources over the runs of terraform: what terraform      *)
(* stores of them, and what they leave on workers and in registries.       *)
(* Resources are handled at the same time, by one provider, and may have   *)
(* workers in common; there they meet in the docker daemon and, when their *)
(* ids are the same, in the files of the build context.                    *)
(*                                                                         *)
(* The inside of an operation is that of ImageCreate and ImageRead; here   *)
(* it is cut into the steps at which resources meet.                       *)
(***************************************************************************)
EXTENDS ImageReference

CONSTANTS
    Resources,
    Workers,
    Setups,      \* of each resource the last tag and the workers it may have, which of them
                 \* have registry blocks, and whether foreign layers are pushed
    MaxVersion,  \* bound: how often the user edits the sources of a resource
    MaxOps,      \* bound: how many operations terraform starts
    Faults,      \* operations may fail, and terraform be killed
    Nothing      \* no file, no context, no image

ASSUME SetupsAssumption ==
    \A s \in Setups : /\ s.image \in [Resources -> Seq(Component) \ {<<>>}]
                      /\ s.hosts \in [Resources -> SUBSET Workers]
                      /\ s.registries \subseteq Resources
                      /\ s.foreign \in BOOLEAN
                      /\ \A q, r \in Resources : q # r => s.image[q] # s.image[r]
ASSUME ResourcesAssumption == "off" \notin Resources /\ "none" \notin Resources
ASSUME BoundsAssumption == MaxVersion \in Nat \ {0} /\ MaxOps \in Nat /\ Faults \in BOOLEAN

Versions == 1 .. MaxVersion
Sources == [by : Resources, version : Versions]
Contexts == [top : Sources, mixed : BOOLEAN]
Builds == [top : Sources, mixed : BOOLEAN, file : Sources]
Pushed == [top : Sources, mixed : BOOLEAN, file : Sources, foreign : BOOLEAN]
Ids == UNION {{resourceWindbagImageID(s.image[r]) : r \in Resources} : s \in Setups}

ASSUME NothingAssumption == Nothing \notin Sources \cup Contexts \cup Builds \cup Pushed

(* What the user wants, what terraform stores, what an operation works on. *)
(* recorded[w] is the version in the build context recorded for w, 0 for   *)
(* none (the code records the paths only).                                 *)
Configs == [version : Versions, workers : SUBSET Workers]
Recorded == [Workers -> 0 .. MaxVersion]
Stored == [version : Versions, workers : SUBSET Workers, recorded : Recorded, tainted : BOOLEAN]
Data == [version : Versions, workers : SUBSET Workers, recorded : Recorded, id : BOOLEAN]

ASSUME StoredAssumption == Nothing \notin Stored

VARIABLES
    setup,       \* the setup
    config,      \* config[r]: the configuration of r
    stored,      \* stored[r]: what terraform's state has of r
    ops,         \* operations started
    step,        \* step[r]: what the operation of r is at
    kind,        \* kind[r]: create, update or refresh
    data,        \* data[r]: its resource data
    pending,     \* pending[r]: the workers its step has still to look at
    running,     \* running[r]: the workers a docker build of it runs on
    failed,      \* failed[r]: one of its builds failed
    last,        \* last[r]: r was the last to begin (a history variable)
    dropped,     \* since the provider was configured one without registry blocks began
                 \* (a history variable)
    allowed,     \* registries for foreign layers in the provider: off (nil), none, or of r
    daemon,      \* daemon[w]: whose registries the daemon of w allows, or none
    zip,         \* zip[w][i]: the archive of id i on w
    context,     \* context[w][i]: the directory it is expanded to
    dockerfile,  \* dockerfile[w][i]
    local,       \* local[r][w]: the image under the tags of r on w
    list         \* list[r][w]: what the published list of r names for w

userVars == <<setup, config>>
opVars == <<step, kind, data, pending, running, failed, last>>
fileVars == <<zip, context, dockerfile>>
vars == <<setup, config, stored, ops, step, kind, data, pending, running, failed, last, dropped,
          allowed, daemon, zip, context, dockerfile, local, list>>

id(r) == resourceWindbagImageID(setup.image[r])

(* If foreign layers are to be pushed, the provider starts with an empty   *)
(* list of registries, otherwise with none.                                *)
Configured == IF setup.foreign THEN "none" ELSE "off"

NoRecords == [w \in Workers |-> 0]

TypeOK ==
    /\ setup \in Setups
    /\ config \in [Resources -> Configs]
    /\ stored \in [Resources -> Stored \cup {Nothing}]
    /\ ops \in 0 .. MaxOps
    /\ step \in [Resources -> {"idle", "provision", "ship", "expand", "file", "login", "build"}]
    /\ kind \in [Resources -> {"create", "update", "refresh"}]
    /\ data \in [Resources -> Data]
    /\ pending \in [Resources -> SUBSET Workers]
    /\ running \in [Resources -> SUBSET Workers]
    /\ failed \in [Resources -> BOOLEAN]
    /\ last \in [Resources -> BOOLEAN]
    /\ dropped \in BOOLEAN
    /\ allowed \in Resources \cup {"off", "none"}
    /\ daemon \in [Workers -> Resources \cup {"none"}]
    /\ zip \in [Workers -> [Ids -> Sources \cup {Nothing}]]
    /\ context \in [Workers -> [Ids -> Contexts \cup {Nothing}]]
    /\ dockerfile \in [Workers -> [Ids -> Sources \cup {Nothing}]]
    /\ local \in [Resources -> [Workers -> Builds \cup {Nothing}]]
    /\ list \in [Resources -> [Workers -> Pushed \cup {Nothing}]]

Init ==
    /\ setup \in Setups
    /\ config = [r \in Resources |-> [version |-> 1, workers |-> setup.hosts[r]]]
    /\ stored = [r \in Resources |-> Nothing]
    /\ ops = 0
    /\ step = [r \in Resources |-> "idle"]
    /\ kind = [r \in Resources |-> "create"]
    /\ data = [r \in Resources |->
                 [version |-> 1, workers |-> {}, recorded |-> NoRecords, id |-> FALSE]]
    /\ pending = [r \in Resources |-> {}]
    /\ running = [r \in Resources |-> {}]
    /\ failed = [r \in Resources |-> FALSE]
    /\ last = [r \in Resources |-> FALSE]
    /\ dropped = FALSE
    /\ allowed = Configured
    /\ daemon = [w \in Workers |-> "none"]
    /\ zip = [w \in Workers |-> [i \in Ids |-> Nothing]]
    /\ context = [w \in Workers |-> [i \in Ids |-> Nothing]]
    /\ dockerfile = [w \in Workers |-> [i \in Ids |-> Nothing]]
    /\ local = [r \in Resources |-> [w \in Workers |-> Nothing]]
    /\ list = [r \in Resources |-> [w \in Workers |-> Nothing]]

-----------------------------------------------------------------------------
(* The user and terraform.                                                 *)

(* The user changes the sources of a resource, or its workers.             *)
Edit(r) ==
    /\ step[r] = "idle"
    /\ \/ /\ config[r].version < MaxVersion
          /\ config' = [config EXCEPT ![r].version = @ + 1]
       \/ \E ws \in SUBSET setup.hosts[r] \ {{}, config[r].workers} :
             config' = [config EXCEPT ![r].workers = ws]
    /\ UNCHANGED <<setup, stored, ops, opVars, dropped, allowed, daemon, fileVars, local, list>>

(* A run of terraform starts the provider afresh.                          *)
configure ==
    /\ \A r \in Resources : step[r] = "idle"
    /\ dropped' = FALSE
    /\ allowed' = Configured
    /\ UNCHANGED <<userVars, stored, ops, opVars, daemon, fileVars, local, list>>

(* Mutant: only the last resource enters its registries.                  *)
RegistriesOnce(r) == IF allowed = "none" THEN r ELSE allowed

(* If foreign layers are to be pushed, the provider's registries are       *)
(* replaced by those of the resource.  Of one that has none that is nil,   *)
(* and ends the pushing for all who begin behind it.                       *)
Registries(r) == IF allowed = "off" \/ r \notin setup.registries THEN "off" ELSE r

Begins(r, k, records) ==
    /\ step[r] = "idle" /\ ops < MaxOps /\ config[r].workers # {}
    /\ ops' = ops + 1
    /\ step' = [step EXCEPT ![r] = "provision"]
    /\ kind' = [kind EXCEPT ![r] = k]
    /\ data' = [data EXCEPT ![r] = [version  |-> config[r].version,
                                    workers  |-> config[r].workers,
                                    recorded |-> records,
                                    id       |-> FALSE]]
    /\ pending' = [pending EXCEPT ![r] = config[r].workers]
    /\ last' = [s \in Resources |-> s = r]
    /\ dropped' = (dropped \/ r \notin setup.registries)
    /\ allowed' = Registries(r)
    /\ UNCHANGED <<userVars, running, failed, daemon, fileVars, local, list>>

(* Mutant: a tainted resource is created with the records it had.          *)
CreateTainted(r) ==
    /\ stored[r] # Nothing => stored[r].tainted
    /\ stored' = [stored EXCEPT ![r] = Nothing]
    /\ Begins(r, "create", IF stored[r] = Nothing THEN NoRecords ELSE stored[r].recorded)

(* A resource terraform has nothing of is created; a tainted one is        *)
(* deleted before, which leaves everything behind but the id.              *)
Create(r) ==
    /\ stored[r] # Nothing => stored[r].tainted
    /\ stored' = [stored EXCEPT ![r] = Nothing]
    /\ Begins(r, "create", NoRecords)

(* One that differs from its configuration is created again, without its   *)
(* id, but with the build contexts of the workers it had.                  *)
Update(r) ==
    /\ stored[r] # Nothing /\ ~stored[r].tainted
    /\ config[r].version # stored[r].version \/ config[r].workers # stored[r].workers
    /\ Begins(r, "update", [w \in Workers |-> IF w \in config[r].workers \cap stored[r].workers
                                             THEN stored[r].recorded[w] ELSE 0])
    /\ UNCHANGED stored

(* A refresh, or an update of push alone: Read.                            *)
Refresh(r) ==
    /\ step[r] = "idle" /\ ops < MaxOps /\ stored[r] # Nothing
    /\ ops' = ops + 1
    /\ step' = [step EXCEPT ![r] = "build"]
    /\ kind' = [kind EXCEPT ![r] = "refresh"]
    /\ data' = [data EXCEPT ![r] = [version  |-> stored[r].version,
                                    workers  |-> stored[r].workers,
                                    recorded |-> stored[r].recorded,
                                    id       |-> TRUE]]
    /\ pending' = [pending EXCEPT ![r] = stored[r].workers]
    /\ UNCHANGED <<userVars, stored, running, failed, last, dropped, allowed, daemon, fileVars, local, list>>

(* Destroying a resource clears its id.                                    *)
Delete(r) ==
    /\ step[r] = "idle" /\ stored[r] # Nothing
    /\ stored' = [stored EXCEPT ![r] = Nothing]
    /\ UNCHANGED <<userVars, ops, opVars, dropped, allowed, daemon, fileVars, local, list>>

(* Mutant: the data is stored whatever became of the operation.            *)
StoredAlways(r, ok) ==
    [version  |-> data[r].version, workers |-> data[r].workers,
     recorded |-> data[r].recorded, tainted |-> ~ok]

(* What terraform stores: the data if it has an id, tainted if it is of a  *)
(* failed create; otherwise, and after a refresh, what it had.             *)
StoredAfter(r, ok) ==
    IF data[r].id /\ kind[r] # "refresh"
    THEN [version  |-> data[r].version, workers |-> data[r].workers,
          recorded |-> data[r].recorded, tainted |-> ~ok /\ kind[r] = "create"]
    ELSE stored[r]

Ends(r, ok) ==
    /\ step' = [step EXCEPT ![r] = "idle"]
    /\ pending' = [pending EXCEPT ![r] = {}]
    /\ failed' = [failed EXCEPT ![r] = FALSE]
    /\ stored' = [stored EXCEPT ![r] = StoredAfter(r, ok)]
    /\ UNCHANGED <<userVars, ops, kind, data, running, last, dropped, allowed, daemon, fileVars, local>>

(* Terraform, or the provider, is killed: nothing more is stored.          *)
Killed ==
    /\ Faults
    /\ \E r \in Resources : step[r] # "idle"
    /\ step' = [r \in Resources |-> "idle"]
    /\ pending' = [r \in Resources |-> {}]
    /\ running' = [r \in Resources |-> {}]
    /\ failed' = [r \in Resources |-> FALSE]
    /\ dropped' = FALSE
    /\ allowed' = Configured
    /\ UNCHANGED <<userVars, stored, ops, kind, data, last, daemon, fileVars, local, list>>

-----------------------------------------------------------------------------
(* Create, with the workers it dials, ships to and logs in on.             *)

createFrame == UNCHANGED <<userVars, stored, ops, kind, last, dropped, allowed, local, list>>

(* docker.ps1, with what the provider has at that moment: an empty list is *)
(* not rendered.  The daemon is restarted in any case, under whatever is   *)
(* built there.                                                            *)
Provision(r, w) ==
    /\ step[r] = "provision"
    /\ w \in pending[r]
    /\ daemon' = IF allowed \in Resources THEN [daemon EXCEPT ![w] = allowed] ELSE daemon
    /\ failed' = [s \in Resources |-> failed[s] \/ w \in running[s]]
    /\ running' = [s \in Resources |-> running[s] \ {w}]
    /\ pending' = [pending EXCEPT ![r] = @ \ {w}]
    /\ step' = [step EXCEPT ![r] = IF pending[r] = {w} THEN "ship" ELSE @]
    /\ UNCHANGED <<data, fileVars>>
    /\ createFrame

shipFrame ==
    /\ UNCHANGED <<running, failed, daemon>>
    /\ createFrame

Source(r) == [by |-> r, version |-> data[r].version]

(* A worker without a recorded context gets the archive ...                *)
ShipArchive(r, w) ==
    /\ step[r] = "ship"
    /\ w \in data[r].workers /\ data[r].recorded[w] = 0
    /\ zip' = [zip EXCEPT ![w][id(r)] = Source(r)]
    /\ pending' = [pending EXCEPT ![r] = {w}]
    /\ step' = [step EXCEPT ![r] = "expand"]
    /\ UNCHANGED <<data, context, dockerfile>>
    /\ shipFrame

(* Mutant: the archive is expanded without regard to the id.               *)
DirectoryShared(r) == CHOOSE i \in Ids : TRUE

Directory(r) == id(r)

(* ... which is expanded over what is there ...                            *)
Expand(r, w) ==
    /\ step[r] = "expand"
    /\ w \in pending[r]
    /\ LET was == context[w][Directory(r)]
           new == zip[w][id(r)]
       IN  context' = [context EXCEPT ![w][Directory(r)] =
                         [top   |-> new,
                          mixed |-> was # Nothing /\ (was.mixed \/ was.top # new)]]
    /\ step' = [step EXCEPT ![r] = "file"]
    /\ UNCHANGED <<data, pending, zip, dockerfile>>
    /\ shipFrame

(* ... and the Dockerfile; then the context is recorded.                   *)
ShipDockerfile(r, w) ==
    /\ step[r] = "file"
    /\ w \in pending[r]
    /\ dockerfile' = [dockerfile EXCEPT ![w][id(r)] = Source(r)]
    /\ data' = [data EXCEPT ![r].recorded[w] = data[r].version]
    /\ pending' = [pending EXCEPT ![r] = {}]
    /\ step' = [step EXCEPT ![r] = "ship"]
    /\ UNCHANGED <<zip, context>>
    /\ shipFrame

(* Mutant: the logins start without a look at the workers.                 *)
LogInAtOnce(r) ==
    /\ step[r] = "ship"
    /\ step' = [step EXCEPT ![r] = "login"]
    /\ UNCHANGED <<data, pending, fileVars>>
    /\ shipFrame

LogIn(r) ==
    /\ step[r] = "ship"
    /\ \A w \in data[r].workers : data[r].recorded[w] # 0
    /\ step' = [step EXCEPT ![r] = "login"]
    /\ UNCHANGED <<data, pending, fileVars>>
    /\ shipFrame

(* Behind the logins the id is set, and Read called.                       *)
SetId(r) ==
    /\ step[r] = "login"
    /\ data' = [data EXCEPT ![r].id = TRUE]
    /\ pending' = [pending EXCEPT ![r] = data[r].workers]
    /\ step' = [step EXCEPT ![r] = "build"]
    /\ UNCHANGED fileVars
    /\ shipFrame

Fails(r) ==
    /\ Faults
    /\ \/ step[r] \in {"provision", "ship", "expand", "file", "login"}
       \/ step[r] = "build" /\ pending[r] = data[r].workers /\ running[r] = {}
    /\ Ends(r, FALSE)
    /\ UNCHANGED list

-----------------------------------------------------------------------------
(* Read.                                                                   *)

readFrame == UNCHANGED <<userVars, stored, ops, step, kind, data, last, dropped, allowed, daemon, fileVars, list>>

(* docker build takes the files as they are when it starts.  (The image is *)
(* there when it ends; nobody looks before.)                               *)
StartBuild(r, w) ==
    /\ step[r] = "build"
    /\ w \in pending[r]
    /\ pending' = [pending EXCEPT ![r] = @ \ {w}]
    /\ running' = [running EXCEPT ![r] = @ \cup {w}]
    /\ local' = [local EXCEPT ![r][w] = [top   |-> context[w][Directory(r)].top,
                                         mixed |-> context[w][Directory(r)].mixed,
                                         file  |-> dockerfile[w][id(r)]]]
    /\ UNCHANGED failed
    /\ readFrame

EndBuild(r, w) ==
    /\ w \in running[r]
    /\ running' = [running EXCEPT ![r] = @ \ {w}]
    /\ failed' \in {failed} \cup (IF Faults THEN {[failed EXCEPT ![r] = TRUE]} ELSE {})
    /\ UNCHANGED <<pending, local>>
    /\ readFrame

BuiltAll(r) == step[r] = "build" /\ pending[r] = {} /\ running[r] = {}

(* Push and manifest.  The daemon of a worker pushes foreign layers only   *)
(* to registries it allows.                                                *)
Publish(r) ==
    /\ BuiltAll(r)
    /\ ~failed[r]
    /\ list' = [list EXCEPT ![r] =
                  [w \in Workers |->
                     IF w \notin data[r].workers THEN Nothing
                     ELSE [top     |-> local[r][w].top,
                           mixed   |-> local[r][w].mixed,
                           file    |-> local[r][w].file,
                           foreign |-> daemon[w] = r]]]
    /\ Ends(r, TRUE)

BuildFails(r) ==
    /\ BuiltAll(r)
    /\ failed[r]
    /\ Ends(r, FALSE)
    /\ UNCHANGED list

-----------------------------------------------------------------------------
Terraform(r) == Create(r) \/ Update(r) \/ Refresh(r) \/ Delete(r)

Work(r) ==
    \/ \E w \in Workers : Provision(r, w) \/ ShipArchive(r, w) \/ Expand(r, w) \/ ShipDockerfile(r, w)
    \/ LogIn(r) \/ SetId(r)
    \/ \E w \in Workers : StartBuild(r, w) \/ EndBuild(r, w)
    \/ Publish(r) \/ BuildFails(r) \/ Fails(r)

Next ==
    \/ \E r \in Resources : Edit(r) \/ Terraform(r) \/ Work(r)
    \/ configure
    \/ Killed

Spec == Init /\ [][Next]_vars

-----------------------------------------------------------------------------
(* Nobody else has the id of r on w.                                       *)
Private(r, w) == \A s \in Resources \ {r} : id(s) # id(r) \/ w \notin setup.hosts[s]

(* What terraform stores has a build context recorded for every worker,    *)
(* and the files are there: refresh can build it at any time, whatever     *)
(* failed or was edited, deleted or killed in between.                     *)
StoredIsShipped ==
    \A r \in Resources : stored[r] # Nothing =>
        \A w \in stored[r].workers :
            /\ stored[r].recorded[w] # 0
            /\ context[w][id(r)] # Nothing
            /\ dockerfile[w][id(r)] # Nothing

(* An image is published from the sources and with the Dockerfile of its   *)
(* resource, unless another resource has the same id on the worker.        *)
PublishedIsOwn ==
    \A r \in Resources, w \in Workers :
        list[r][w] # Nothing /\ Private(r, w) =>
            list[r][w].top.by = r /\ list[r][w].file.by = r

(* What is published is of the version recorded for the worker; a create   *)
(* publishes the version it was asked for.                                 *)
PublishesRecorded ==
    [][\A r \in Resources, w \in Workers :
         list'[r] # list[r] /\ list'[r][w] # Nothing /\ Private(r, w) =>
             /\ list'[r][w].top.version = data[r].recorded[w]
             /\ list'[r][w].file.version = data[r].recorded[w]
             /\ kind[r] = "create" => data[r].recorded[w] = data[r].version]_vars

(* Where foreign layers are to be pushed, a create or an update of a       *)
(* resource with registry blocks pushes them, unless another resource      *)
(* began meanwhile, or one without registry blocks at any time since the   *)
(* provider was configured.                                                *)
ForeignLayersPushed ==
    [][\A r \in Resources, w \in Workers :
         /\ list'[r] # list[r] /\ list'[r][w] # Nothing
         /\ setup.foreign /\ r \in setup.registries /\ kind[r] # "refresh"
         /\ last[r] /\ ~dropped
         => list'[r][w].foreign]_vars

-----------------------------------------------------------------------------
(* The inductive invariant these rest on.                                  *)

InHosts ==
    \A r \in Resources :
        /\ config[r].workers \subseteq setup.hosts[r]
        /\ data[r].workers \subseteq setup.hosts[r]
        /\ stored[r] # Nothing => stored[r].workers \subseteq setup.hosts[r]

(* The files of version v are on w, those of r if nobody else writes them. *)
Has(file, r, v, w) ==
    /\ file[w][id(r)] # Nothing
    /\ Private(r, w) => file[w][id(r)] = [by |-> r, version |-> v]

HasContext(r, v, w) ==
    /\ context[w][id(r)] # Nothing
    /\ Private(r, w) => context[w][id(r)].top = [by |-> r, version |-> v]

Shipped(r, v, w) == v # 0 /\ HasContext(r, v, w) /\ Has(dockerfile, r, v, w)

StoredShipped ==
    \A r \in Resources : stored[r] # Nothing =>
        \A w \in stored[r].workers : Shipped(r, stored[r].recorded[w], w)

RecordedShipped ==
    \A r \in Resources : step[r] # "idle" =>
        \A w \in data[r].workers :
            /\ data[r].recorded[w] # 0 => Shipped(r, data[r].recorded[w], w)
            /\ step[r] \in {"login", "build"} => data[r].recorded[w] # 0

(* Every kind of operation keeps to its own part of what is stored.        *)
KindInStep ==
    \A r \in Resources : step[r] # "idle" =>
        /\ data[r].id => step[r] = "build"
        /\ kind[r] = "refresh" => step[r] = "build"
        /\ kind[r] = "create" =>
             /\ stored[r] = Nothing
             /\ \A w \in data[r].workers : data[r].recorded[w] \in {0, data[r].version}
        /\ kind[r] = "update" /\ stored[r] # Nothing =>
             \A w \in data[r].workers \cap stored[r].workers : data[r].recorded[w] # 0

(* Shipping is at one worker, which has no context recorded yet.           *)
ShippingInStep ==
    \A r \in Resources :
        /\ step[r] \in {"expand", "file"} =>
             \A w \in pending[r] : /\ w \in data[r].workers /\ data[r].recorded[w] = 0
                                   /\ pending[r] = {w}
        /\ step[r] = "expand" => \A w \in pending[r] : Has(zip, r, data[r].version, w)
        /\ step[r] = "file" => \A w \in pending[r] : HasContext(r, data[r].version, w)

BuiltFromRecorded ==
    \A r \in Resources : step[r] = "build" =>
        /\ pending[r] \subseteq data[r].workers
        /\ \A w \in data[r].workers \ pending[r] :
              /\ local[r][w] # Nothing
              /\ Private(r, w) =>
                   /\ local[r][w].top = [by |-> r, version |-> data[r].recorded[w]]
                   /\ local[r][w].file = [by |-> r, version |-> data[r].recorded[w]]

(* The provider pushes foreign layers as configured until a resource       *)
(* without registry blocks begins; and while it does, the daemons of the   *)
(* last to begin allow its registries, once they are provisioned.          *)
DaemonsAllow ==
    /\ setup.foreign /\ ~dropped => allowed # "off"
    /\ \A r \in Resources :
          step[r] # "idle" /\ kind[r] # "refresh" /\ last[r] /\ allowed # "off" =>
              /\ allowed = r
              /\ \A w \in data[r].workers :
                     step[r] # "provision" \/ w \notin pending[r] => daemon[w] = r

IInv ==
    /\ TypeOK
    /\ InHosts
    /\ StoredShipped
    /\ RecordedShipped
    /\ KindInStep
    /\ ShippingInStep
    /\ BuiltFromRecorded
    /\ DaemonsAllow
    /\ PublishedIsOwn
=============================================================================
