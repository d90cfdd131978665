--------------------------- MODULE ColumnFamilies ---------------------------
(***************************************************************************)
(* RedisPipelineBootstrap::initializeRocksDb: the column families that a   *)
(* start of the server lists, opens, creates and drops, according to the   *)
(* group configurations on its command line.  Each creation and each drop  *)
(* is durable by itself, so a process that dies in between leaves a        *)
(* database that is neither the old nor the new one; the next process may  *)
(* have the same configuration or another one.                             *)
(*                                                                         *)
(* A family is the name of a configurator and a shard of its group, or     *)
(* Single if it is not a group: the names of the code are taken to differ. *)
(***************************************************************************)
EXTENDS Integers

CONSTANTS
  Names,    \* keys of rocksDbCfConfiguratorMap
  Others,   \* names cf_group_configs may have that are not among those keys
  Default,  \* defaultColumnFamilyName()
  Metadata, \* metadataColumnFamilyName()
  NoGroup,  \* there is no group configuration for a name
  Configs   \* configurations, see below

\* What cf_group_configs and drop_cf_group_configs say of one name.
Ranges == [start: Nat, count: Nat, increment: Nat]

ASSUME ConfigsAssumption ==
  /\ Others \cap (Names \cup {Default, Metadata}) = {}
  /\ \A g \in Configs :
       /\ \A n \in Names \cup Others : g.groups[n] \in Ranges \cup {NoGroup}
       /\ \A n \in Names : g.drops[n] \in Ranges \cup {NoGroup}

Single == -1

\* processRocksDbColumnFamilyGroup: the families of the group n with the range r.
Group(n, r) == {<<n, r.start + i * r.increment>> : i \in 0..(r.count - 1)}

Always == {<<Default, Single>>, <<Metadata, Single>>}

\* The keys of columnFamilyOptionsMap_ and of dropColumnFamilyOptionsMap.
Required(g) ==
  Always \cup
  UNION {IF g.groups[n] = NoGroup THEN {<<n, Single>>} ELSE Group(n, g.groups[n]) : n \in Names}

Dropped(g) ==
  UNION {IF g.drops[n] = NoGroup THEN {} ELSE Group(n, g.drops[n]) : n \in Names}

\* The families of the groups without a configurator: they are never created,
\* but the loop that builds the groups looks them up.
LookedUp(g) ==
  UNION {IF g.groups[n] = NoGroup THEN {} ELSE Group(n, g.groups[n]) : n \in Others}

VARIABLES
  created,  \* does the database exist?
  existing, \* its column families
  stage,    \* how far initializeRocksDb is; "down" when there is no process
  config,   \* configuration of this process, or of the last one
  listed,   \* existingColumnFamilies
  families, \* keys of columnFamilyMap_
  failed,   \* families whose drop failed
  last,     \* configurations of the last process that opened the database
  fatal     \* why the last process died by itself

familiesVars == <<created, existing, stage, config, listed, families, failed, last, fatal>>

FamiliesInit ==
  /\ created = FALSE /\ existing = {}
  /\ stage = "down" /\ config \in Configs
  /\ listed = {} /\ families = {} /\ failed = {}
  /\ last = {}
  /\ fatal = "none"

Die(why) ==
  /\ stage' = "down"
  /\ fatal' = why
-----------------------------------------------------------------------------
(* Variants with a plausible mistake, for mutation tests of the properties. *)

\* Open the families of the configuration and ignore the others.
OpenKnown(create) ==
  /\ stage = "open"
  /\ created \/ create
  /\ created' = TRUE
  /\ listed' = IF created THEN existing ELSE {<<Default, Single>>}
  /\ existing' = listed'
  /\ families' = listed'
  /\ last' = {config}
  /\ stage' = "create"
  /\ UNCHANGED <<config, failed, fatal>>

\* Leave the loop of drops before its end.
EndDropEarly ==
  /\ stage = "drop"
  /\ IF Required(config) \cup LookedUp(config) \subseteq families
     THEN stage' = "serving" /\ UNCHANGED fatal
     ELSE Die("family not found")
  /\ UNCHANGED <<created, existing, config, listed, families, failed, last>>
-----------------------------------------------------------------------------
\* A process is started; a family that is required must not be dropped.
Begin(g) ==
  /\ stage = "down"
  /\ config' = g
  /\ listed' = {} /\ families' = {} /\ failed' = {}
  /\ IF Required(g) \cap Dropped(g) = {}
     THEN stage' = "open" /\ fatal' = "none"
     ELSE Die("overlap")
  /\ UNCHANGED <<created, existing, last>>

\* List the families of the database, or of the one to create, and open it.
Open(create) ==
  /\ stage = "open"
  /\ LET found == IF created THEN existing ELSE {<<Default, Single>>}
     IN  IF ~(found \subseteq Required(config) \cup Dropped(config))
         THEN /\ Die("unknown family")
              /\ UNCHANGED <<created, existing, listed, families, last>>
         ELSE IF ~(created \/ create)
         THEN /\ Die("open")
              /\ UNCHANGED <<created, existing, listed, families, last>>
         ELSE /\ created' = TRUE
              /\ existing' = found
              /\ listed' = found
              /\ families' = found
              /\ last' = {config}
              /\ stage' = "create"
              /\ UNCHANGED fatal
  /\ UNCHANGED <<config, failed>>

\* Create the families that were not listed, in the order of the map.
CreateFamily(f) ==
  /\ stage = "create"
  /\ f \in Required(config) \ (listed \cup families)
  /\ existing' = existing \cup {f}
  /\ families' = families \cup {f}
  /\ UNCHANGED <<created, stage, config, listed, failed, last, fatal>>

EndCreate ==
  /\ stage = "create"
  /\ Required(config) \subseteq listed \cup families
  /\ stage' = "drop"
  /\ UNCHANGED <<created, existing, config, listed, families, failed, last, fatal>>

\* Drop a family; the status of DropColumnFamily is not looked at.
DropFamily(f, ok) ==
  /\ stage = "drop"
  /\ f \in Dropped(config) \cap families
  /\ existing' = IF ok THEN existing \ {f} ELSE existing
  /\ failed' = IF ok THEN failed ELSE failed \cup {f}
  /\ families' = families \ {f}
  /\ UNCHANGED <<created, stage, config, listed, last, fatal>>

\* Build the groups, of every name in cf_group_configs, and check that every
\* required family is there.
EndDrop ==
  /\ stage = "drop"
  /\ Dropped(config) \cap families = {}
  /\ IF Required(config) \cup LookedUp(config) \subseteq families
     THEN stage' = "serving" /\ UNCHANGED fatal
     ELSE Die("family not found")
  /\ UNCHANGED <<created, existing, config, listed, families, failed, last>>

\* The server stops, or the process dies, aborts on a failed creation included.
Stop ==
  /\ stage # "down"
  /\ Die("none")
  /\ UNCHANGED <<created, existing, config, listed, families, failed, last>>

FamiliesNext ==
  \/ \E g \in Configs : Begin(g)
  \/ \E create \in BOOLEAN : Open(create)
  \/ \E f \in Required(config) : CreateFamily(f)
  \/ EndCreate
  \/ \E f \in families, ok \in BOOLEAN : DropFamily(f, ok)
  \/ EndDrop
  \/ Stop

FamiliesSpec == FamiliesInit /\ [][FamiliesNext]_familiesVars
-----------------------------------------------------------------------------
AllFamilies == Always \cup UNION {Required(g) \cup Dropped(g) : g \in Configs}

\* Type correctness: families in memory and in the database belong to some
\* configuration of initializeRocksDb().
FamiliesTypeOK ==
  /\ created \in BOOLEAN
  /\ existing \subseteq AllFamilies
  /\ stage \in {"down", "open", "create", "drop", "serving"}
  /\ config \in Configs
  /\ listed \subseteq AllFamilies
  /\ families \subseteq AllFamilies
  /\ failed \subseteq AllFamilies
  /\ last \subseteq Configs
  /\ fatal \in {"none", "overlap", "unknown family", "open", "family not found"}

\* A process that died at any point after it opened the database can be
\* started again with its configuration: every family the database then has
\* is one that the configuration knows.
RestartPossible == \A g \in last : existing \subseteq Required(g) \cup Dropped(g)

\* The CHECKs behind the loops fail for one cause only, a group without a
\* configurator: whatever an earlier process created, dropped or failed to drop,
\* the families that the configuration does configure are found.  And such a
\* configuration never serves.
ChecksHold ==
  /\ fatal = "family not found" => LookedUp(config) # {}
  /\ stage = "serving" => LookedUp(config) = {}

\* A server that serves has a handle for exactly the families it requires, all
\* in the database, and apart from drops that failed the database has no other:
\* the next start needs no drop_cf_group_configs.
ServingExact ==
  stage = "serving" => /\ families = Required(config)
                       /\ Required(config) \subseteq existing
                       /\ existing \subseteq Required(config) \cup failed

\* A family, with its data, goes away only in a process that was told to drop
\* it and does not require it.
DropsAreAsked ==
  [][\A f \in existing \ existing' : f \in Dropped(config) /\ f \notin Required(config)]_familiesVars
=============================================================================
