--------------------------- MODULE DatabaseProofs ---------------------------
(***************************************************************************)
(* Proofs about what survives restarts: the column families opened and     *)
(* dropped by initializeRocksDb (ColumnFamilies), for every set of names   *)
(* and configurations; the one-off flags (OneOffFlags), for every set of   *)
(* versions, number of consumers and bound of the clock; and the backups   *)
(* that freeze() lists (Freeze), for every number of writes and tables.    *)
(***************************************************************************)
EXTENDS ColumnFamilies, OneOffFlags, Freeze, TLAPS

(***************************************************************************)
(* Column families.  RestartPossible holds in the middle of a start        *)
(* because a process adds and removes only families that its own           *)
(* configuration knows; ChecksHold and ServingExact need the stages        *)
(* spelled out: what is open, and how it compares with what exists, after  *)
(* each loop of initializeRocksDb.                                         *)
(***************************************************************************)

WeakTypes ==
  /\ created \in BOOLEAN
  /\ stage \in {"down", "open", "create", "drop", "serving"}
  /\ config \in Configs
  /\ last \subseteq Configs
  /\ fatal \in {"none", "overlap", "unknown family", "open", "family not found"}

NotThere == ~created => existing = {}

\* The check of the configuration, and whose families the database has.
ConfigInv ==
  /\ stage # "down" => Required(config) \cap Dropped(config) = {}
  /\ stage \in {"create", "drop", "serving"} => created /\ last = {config}

\* The handles and the families after each loop.
HandlesInv ==
  /\ stage = "open" => listed = {} /\ families = {} /\ failed = {}
  /\ stage = "create" => listed \subseteq families /\ families = existing /\ failed = {}
  /\ stage = "drop" => /\ Required(config) \subseteq families /\ families \subseteq existing
                       /\ existing \subseteq families \cup failed
  /\ stage = "serving" => /\ families = Required(config) /\ Required(config) \subseteq existing
                          /\ existing \subseteq Required(config) \cup failed

\* Families that are remembered come from some configuration.
Sources ==
  /\ existing \subseteq AllFamilies /\ listed \subseteq AllFamilies
  /\ families \subseteq AllFamilies /\ failed \subseteq AllFamilies

FamiliesInv ==
  /\ WeakTypes /\ NotThere /\ ConfigInv /\ HandlesInv
  /\ RestartPossible /\ Sources /\ ChecksHold

\* The families of a configuration are among all families, and the default one is.
LEMMA KnownFamilies ==
  /\ \A g \in Configs : Required(g) \subseteq AllFamilies /\ Dropped(g) \subseteq AllFamilies
  /\ <<Default, Single>> \in AllFamilies
BY DEF AllFamilies, Always

\* A family that is only looked up is not a required one.
LEMMA NotRequired == \A g \in Configs : LookedUp(g) \cap Required(g) = {}
<1> SUFFICES ASSUME NEW g \in Configs, NEW f \in LookedUp(g) PROVE f \notin Required(g)
  OBVIOUS
<1>1. PICK n \in Others : f \in Group(n, g.groups[n])
  BY DEF LookedUp
<1>2. f[1] = n
  BY <1>1 DEF Group
<1>3. n \notin Names \cup {Default, Metadata}
  BY ConfigsAssumption
<1>4. \A m \in Names : \A h \in Group(m, g.groups[m]) : h[1] = m
  BY DEF Group
<1>5. \A h \in Required(g) : h[1] \in Names \cup {Default, Metadata}
  BY <1>4 DEF Required, Always
<1> QED BY <1>2, <1>3, <1>5

\* Before the first start there is no database and no process.
LEMMA FamiliesInitInv == FamiliesInit => FamiliesInv
BY DEF FamiliesInit, FamiliesInv, WeakTypes, NotThere, ConfigInv, HandlesInv, RestartPossible,
       Sources, ChecksHold

\* A start changes nothing in the database; it goes on only without overlap.
LEMMA BeginInv == ASSUME FamiliesInv, NEW g \in Configs, Begin(g) PROVE FamiliesInv'
<1>1. WeakTypes' /\ NotThere' /\ RestartPossible' /\ Sources' /\ ChecksHold'
  BY DEF FamiliesInv, WeakTypes, NotThere, RestartPossible, Sources, ChecksHold, Begin, Die
<1>2. ConfigInv'
  BY DEF FamiliesInv, ConfigInv, Begin, Die
<1>3. HandlesInv'
  BY DEF FamiliesInv, HandlesInv, Begin, Die
<1> QED BY <1>1, <1>2, <1>3 DEF FamiliesInv

\* Opening refuses families the configuration does not know.
LEMMA OpenInv == ASSUME FamiliesInv, NEW create \in BOOLEAN, Open(create) PROVE FamiliesInv'
<1> DEFINE found == IF created THEN existing ELSE {<<Default, Single>>}
<1>1. CASE stage' = "down"
  BY <1>1 DEF FamiliesInv, WeakTypes, NotThere, ConfigInv, HandlesInv, RestartPossible, Sources,
              ChecksHold, Open, Die
<1>2. CASE stage' # "down"
  <2>1. /\ found \subseteq Required(config) \cup Dropped(config)
        /\ created' = TRUE /\ existing' = found /\ listed' = found /\ families' = found
        /\ last' = {config} /\ stage' = "create" /\ stage = "open"
        /\ UNCHANGED <<fatal, config, failed>>
    BY <1>2 DEF Open, Die
  <2>2. found \subseteq AllFamilies
    BY KnownFamilies DEF FamiliesInv, Sources
  <2> HIDE DEF found
  <2>3. WeakTypes' /\ NotThere'
    BY <2>1 DEF FamiliesInv, WeakTypes, NotThere
  <2>4. ConfigInv' /\ HandlesInv'
    BY <2>1 DEF FamiliesInv, ConfigInv, HandlesInv
  <2>5. RestartPossible' /\ Sources'
    BY <2>1, <2>2 DEF FamiliesInv, RestartPossible, Sources
  <2>6. ChecksHold'
    BY <2>1 DEF FamiliesInv, ChecksHold
  <2> QED BY <2>3, <2>4, <2>5, <2>6 DEF FamiliesInv
<1> QED BY <1>1, <1>2

\* A created family is a required one.
LEMMA CreateInv ==
  ASSUME FamiliesInv, NEW f \in Required(config), CreateFamily(f) PROVE FamiliesInv'
<1>1. WeakTypes' /\ ConfigInv' /\ ChecksHold'
  BY DEF FamiliesInv, WeakTypes, ConfigInv, ChecksHold, CreateFamily
<1>2. NotThere'
  BY DEF FamiliesInv, NotThere, ConfigInv, CreateFamily
<1>3. HandlesInv'
  BY DEF FamiliesInv, HandlesInv, CreateFamily
<1>4. RestartPossible'
  BY DEF FamiliesInv, ConfigInv, RestartPossible, CreateFamily
<1>5. Sources'
  BY KnownFamilies DEF FamiliesInv, WeakTypes, Sources, CreateFamily
<1> QED BY <1>1, <1>2, <1>3, <1>4, <1>5 DEF FamiliesInv

\* The end of the loop of creations.
LEMMA EndCreateInv == ASSUME FamiliesInv, EndCreate PROVE FamiliesInv'
<1>1. WeakTypes' /\ NotThere' /\ ConfigInv' /\ RestartPossible' /\ Sources' /\ ChecksHold'
  BY DEF FamiliesInv, WeakTypes, NotThere, ConfigInv, RestartPossible, Sources, ChecksHold,
         EndCreate
<1>2. HandlesInv'
  BY DEF FamiliesInv, HandlesInv, EndCreate
<1> QED BY <1>1, <1>2 DEF FamiliesInv

\* A family that is dropped is not required; if the drop failed, it is still there.
LEMMA DropInv ==
  ASSUME FamiliesInv, NEW f \in families, NEW ok \in BOOLEAN, DropFamily(f, ok) PROVE FamiliesInv'
<1>1. WeakTypes' /\ ConfigInv' /\ ChecksHold'
  BY DEF FamiliesInv, WeakTypes, ConfigInv, ChecksHold, DropFamily
<1>2. NotThere' /\ RestartPossible'
  BY DEF FamiliesInv, NotThere, RestartPossible, DropFamily
<1>3. HandlesInv'
  BY DEF FamiliesInv, ConfigInv, HandlesInv, DropFamily
<1>4. Sources'
  BY DEF FamiliesInv, Sources, DropFamily
<1> QED BY <1>1, <1>2, <1>3, <1>4 DEF FamiliesInv

\* At the end what is open is what is required, so the checks fail only for a
\* family that is looked up without being required.
LEMMA EndDropInv == ASSUME FamiliesInv, EndDrop PROVE FamiliesInv'
<1>1. Required(config) \subseteq families
  BY DEF FamiliesInv, HandlesInv, EndDrop
<1>2. stage = "drop" /\ Dropped(config) \cap families = {}
      /\ UNCHANGED <<created, existing, config, listed, families, failed, last>>
  BY DEF EndDrop
<1>3. families = Required(config)
  BY <1>1, <1>2 DEF FamiliesInv, ConfigInv, HandlesInv, RestartPossible
<1>4. NotThere' /\ RestartPossible' /\ Sources'
  BY <1>2 DEF FamiliesInv, NotThere, RestartPossible, Sources
<1>5. CASE LookedUp(config) \subseteq families
  <2>1. stage' = "serving" /\ fatal' = fatal
    BY <1>1, <1>5 DEF EndDrop
  <2>2. LookedUp(config) = {}
    BY <1>3, <1>5, NotRequired DEF FamiliesInv, WeakTypes
  <2>3. WeakTypes' /\ ConfigInv'
    BY <1>2, <2>1 DEF FamiliesInv, WeakTypes, ConfigInv
  <2>4. HandlesInv'
    BY <1>2, <1>3, <2>1 DEF FamiliesInv, HandlesInv
  <2>5. ChecksHold'
    BY <1>2, <2>1, <2>2 DEF FamiliesInv, ChecksHold
  <2> QED BY <1>4, <2>3, <2>4, <2>5 DEF FamiliesInv
<1>6. CASE ~(LookedUp(config) \subseteq families)
  <2>1. stage' = "down" /\ fatal' = "family not found"
    BY <1>6 DEF EndDrop, Die
  <2>2. WeakTypes' /\ ConfigInv' /\ HandlesInv'
    BY <1>2, <2>1 DEF FamiliesInv, WeakTypes, ConfigInv, HandlesInv
  <2>3. ChecksHold'
    BY <1>2, <1>6, <2>1 DEF ChecksHold
  <2> QED BY <1>4, <2>2, <2>3 DEF FamiliesInv
<1> QED BY <1>5, <1>6

\* A process may go away at any point.
LEMMA StopInv == ASSUME FamiliesInv, Stop PROVE FamiliesInv'
BY DEF FamiliesInv, WeakTypes, NotThere, ConfigInv, HandlesInv, RestartPossible, Sources,
       ChecksHold, Stop, Die

\* Every step of the boot sequence keeps the invariant.
LEMMA NextInv == FamiliesInv /\ [FamiliesNext]_familiesVars => FamiliesInv'
<1> SUFFICES ASSUME FamiliesInv, [FamiliesNext]_familiesVars PROVE FamiliesInv'
  OBVIOUS
<1>1. CASE FamiliesNext
  BY <1>1, BeginInv, OpenInv, CreateInv, EndCreateInv, DropInv, EndDropInv, StopInv DEF FamiliesNext
<1>2. CASE UNCHANGED familiesVars
  BY <1>2 DEF familiesVars, FamiliesInv, WeakTypes, NotThere, ConfigInv, HandlesInv,
              RestartPossible, Sources, ChecksHold
<1> QED BY <1>1, <1>2

\* The invariant holds in every behaviour.
LEMMA FamiliesInvariance == FamiliesSpec => []FamiliesInv
BY FamiliesInitInv, NextInv, PTL DEF FamiliesSpec

\* Type correctness: every family in memory or in the database belongs to some
\* configuration the server was started with.
THEOREM FamiliesTypeCorrect == FamiliesSpec => []FamiliesTypeOK
<1>1. FamiliesInv => FamiliesTypeOK
  BY DEF FamiliesInv, WeakTypes, Sources, FamiliesTypeOK
<1> QED BY <1>1, FamiliesInvariance, PTL

\* A process that died in the middle of initializeRocksDb can be started again
\* with the same configuration.
THEOREM RestartAlwaysPossible == FamiliesSpec => []RestartPossible
<1>1. FamiliesInv => RestartPossible
  BY DEF FamiliesInv
<1> QED BY <1>1, FamiliesInvariance, PTL

\* The CHECKs behind the loops of initializeRocksDb fail only for a configuration
\* with a group that has no configurator, and such a configuration never serves.
THEOREM ChecksAlwaysHold == FamiliesSpec => []ChecksHold
<1>1. FamiliesInv => ChecksHold
  BY DEF FamiliesInv
<1> QED BY <1>1, FamiliesInvariance, PTL

\* A server that serves has exactly the families it requires.
THEOREM ServesExactly == FamiliesSpec => []ServingExact
<1>1. FamiliesInv => ServingExact
  BY DEF FamiliesInv, HandlesInv, ServingExact
<1> QED BY <1>1, FamiliesInvariance, PTL

\* No family goes away unless the running process was told to drop it and does
\* not require it.
THEOREM DropsOnlyAsked == FamiliesSpec => DropsAreAsked
<1> DEFINE Asked ==
      \A f \in existing \ existing' : f \in Dropped(config) /\ f \notin Required(config)
<1>1. FamiliesInv /\ [FamiliesNext]_familiesVars => [Asked]_familiesVars
  <2> SUFFICES ASSUME FamiliesInv, FamiliesNext PROVE Asked
    OBVIOUS
  <2>1. CASE \E g \in Configs : Begin(g)
    BY <2>1 DEF Begin
  <2>2. CASE \E create \in BOOLEAN : Open(create)
    BY <2>2 DEF Open, FamiliesInv, NotThere, WeakTypes
  <2>3. CASE \E f \in Required(config) : CreateFamily(f)
    BY <2>3 DEF CreateFamily
  <2>4. CASE EndCreate \/ EndDrop \/ Stop
    BY <2>4 DEF EndCreate, EndDrop, Stop
  <2>5. CASE \E f \in families, ok \in BOOLEAN : DropFamily(f, ok)
    BY <2>5 DEF DropFamily, FamiliesInv, ConfigInv
  <2> QED BY <2>1, <2>2, <2>3, <2>4, <2>5 DEF FamiliesNext
<1> QED BY <1>1, FamiliesInvariance, PTL DEF FamiliesSpec, DropsAreAsked

-----------------------------------------------------------------------------
(***************************************************************************)
(* One-off flags.                                                          *)
(***************************************************************************)

\* FlagsTypeOK, and what the other conjuncts add: there is a database once consumers
\* are linked, and no stored version without one;
\* a version that was served is stored, older than the stored one, or past;
\* if the flags of the process can still be applied, they were applied to every
\* consumer linked so far, because the clock only goes forward and the stored
\* version does not change between Launch and Persist.
SettledInv == \A v \in served : v <= stored \/ v < clock

AppliedInv ==
  phase \in {"link", "started"} /\ CanApplyOneOffFlags(version)
    => \A c \in 1..linked : resets[version][c] > 0

LinkedInv == (phase = "boot" => linked = 0) /\ (phase = "started" => linked = N)

DatabaseInv ==
  /\ phase \in {"link", "started", "serving"} => exists = TRUE
  /\ exists = FALSE => stored = Unspecified

IndInv == FlagsTypeOK /\ DatabaseInv /\ SettledInv /\ AppliedInv /\ LinkedInv /\ PersistedWasApplied

\* The type invariant alone is inductive.
LEMMA TypeStep == FlagsTypeOK /\ [FlagsNext]_flagsVars => FlagsTypeOK'
<1> SUFFICES ASSUME FlagsTypeOK, [FlagsNext]_flagsVars PROVE FlagsTypeOK'
  OBVIOUS
<1> USE FlagsAssumption
<1>1. CASE Tick
  BY <1>1 DEF FlagsTypeOK, Tick
<1>2. ASSUME NEW v \in Versions \cup {Unspecified}, Launch(v) PROVE FlagsTypeOK'
  BY <1>2 DEF FlagsTypeOK, Launch
<1>3. CASE OpenDatabase
  BY <1>3 DEF FlagsTypeOK, OpenDatabase
<1>4. ASSUME NEW b \in BOOLEAN, CreateDatabase(b) PROVE FlagsTypeOK'
  BY <1>4 DEF FlagsTypeOK, CreateDatabase
<1>5. CASE LinkConsumer
  <2>1. (version \in Versions /\ linked + 1 \in 1..N) \/ ~CanApplyOneOffFlags(version)
    BY <1>5 DEF FlagsTypeOK, LinkConsumer, CanApplyOneOffFlags, Unspecified
  <2>2. resets' \in [Versions -> [1..N -> 0..MaxResets]]
    <3>1. CASE CanApplyOneOffFlags(version)
      <4> DEFINE row == [resets[version] EXCEPT ![linked + 1] = @ + 1]
      <4>1. /\ resets' = [resets EXCEPT ![version] = row]
            /\ version \in Versions /\ linked + 1 \in 1..N
            /\ resets[version][linked + 1] < MaxResets
        BY <1>5, <2>1, <3>1 DEF LinkConsumer
      <4>2. resets[version] \in [1..N -> 0..MaxResets]
        BY <4>1 DEF FlagsTypeOK
      <4>3. row \in [1..N -> 0..MaxResets]
        <5>1. resets[version][linked + 1] + 1 \in 0..MaxResets
          BY <4>1, <4>2
        <5> QED
          BY <4>1, <4>2, <5>1
      <4> HIDE DEF row
      <4> QED
        BY <4>1, <4>3 DEF FlagsTypeOK
    <3>2. CASE ~CanApplyOneOffFlags(version)
      BY <1>5, <3>2 DEF FlagsTypeOK, LinkConsumer
    <3> QED
      BY <3>1, <3>2
  <2> QED
    BY <1>5, <2>2 DEF FlagsTypeOK, LinkConsumer
<1>6. CASE StartComponents
  BY <1>6 DEF FlagsTypeOK, StartComponents
<1>7. CASE Persist
  BY <1>7 DEF FlagsTypeOK, Persist
<1>8. CASE Shutdown
  BY <1>8 DEF FlagsTypeOK, Shutdown
<1>9. CASE UNCHANGED flagsVars
  BY <1>9 DEF FlagsTypeOK, flagsVars
<1> QED
  BY <1>1, <1>2, <1>3, <1>4, <1>5, <1>6, <1>7, <1>8, <1>9 DEF FlagsNext

\* The inductive invariant holds initially.
LEMMA InitInv == FlagsInit => IndInv
<1> USE FlagsAssumption
<1> SUFFICES ASSUME FlagsInit PROVE IndInv
  OBVIOUS
<1>1. FlagsTypeOK
  <2>1. resets \in [Versions -> [1..N -> 0..MaxResets]]
    BY DEF FlagsInit
  <2>2. clock \in 0..MaxClock /\ linked \in 0..N
    BY DEF FlagsInit
  <2>3. /\ exists \in BOOLEAN /\ served \subseteq Versions
        /\ phase \in {"down", "boot", "link", "started", "serving"}
    BY DEF FlagsInit
  <2>4. stored \in Versions \cup {Unspecified} /\ version \in Versions \cup {Unspecified}
    BY DEF FlagsInit
  <2> QED
    BY <2>1, <2>2, <2>3, <2>4 DEF FlagsTypeOK
<1>4. DatabaseInv
  BY DEF FlagsInit, DatabaseInv
<1>2. SettledInv /\ PersistedWasApplied
  BY DEF FlagsInit, SettledInv, PersistedWasApplied, Unspecified
<1>3. AppliedInv /\ LinkedInv
  BY DEF FlagsInit, AppliedInv, LinkedInv
<1> QED
  BY <1>1, <1>2, <1>3, <1>4 DEF IndInv

\* Linking a consumer leaves the counts of other flags alone and counts its own.
LEMMA ResetsGrow ==
  ASSUME FlagsTypeOK, LinkConsumer
  PROVE  \A v \in Versions, c \in 1..N : resets[v][c] > 0 => resets'[v][c] > 0
<1> SUFFICES ASSUME NEW v \in Versions, NEW c \in 1..N, resets[v][c] > 0 PROVE resets'[v][c] > 0
  OBVIOUS
<1>1. resets[v] \in [1..N -> 0..MaxResets] /\ resets[v][c] \in Nat
  <2>1. resets[v] \in [1..N -> 0..MaxResets]
    BY DEF FlagsTypeOK
  <2>2. resets[v][c] \in 0..MaxResets
    BY <2>1
  <2> QED
    BY <2>1, <2>2, FlagsAssumption
<1>2. CASE CanApplyOneOffFlags(version) /\ v = version
  <2>1. resets'[v] = [resets[v] EXCEPT ![linked + 1] = @ + 1]
    BY <1>2 DEF FlagsTypeOK, LinkConsumer
  <2> QED
    BY <1>1, <2>1
<1>3. CASE ~(CanApplyOneOffFlags(version) /\ v = version)
  <2>1. resets'[v] = resets[v]
    BY <1>3 DEF FlagsTypeOK, LinkConsumer
  <2> QED
    BY <2>1
<1> QED
  BY <1>2, <1>3

\* The flag of the consumer just linked is counted.
LEMMA ResetCounted ==
  ASSUME FlagsTypeOK, LinkConsumer, CanApplyOneOffFlags(version), version \in Versions,
         linked + 1 \in 1..N
  PROVE  resets'[version][linked + 1] > 0
<1>1. resets[version] \in [1..N -> 0..MaxResets] /\ resets[version][linked + 1] \in Nat
  BY FlagsAssumption DEF FlagsTypeOK
<1>2. resets'[version] = [resets[version] EXCEPT ![linked + 1] = @ + 1]
  BY DEF FlagsTypeOK, LinkConsumer
<1>3. resets'[version][linked + 1] = resets[version][linked + 1] + 1
  BY <1>1, <1>2
<1> QED
  BY <1>1, <1>3

\* Flags are applied only for a version newer than the stored one.
LEMMA AppliedIsNewer ==
  ASSUME FlagsTypeOK, DatabaseInv, CanApplyOneOffFlags(version)
  PROVE  version \in Versions /\ stored < version /\ clock <= version
<1>1. version \in Versions /\ clock <= version /\ version >= 0
  BY FlagsAssumption DEF FlagsTypeOK, CanApplyOneOffFlags, Unspecified
<1>2. CASE exists = TRUE
  BY <1>1, <1>2 DEF CanApplyOneOffFlags
<1>3. CASE exists = FALSE
  BY <1>1, <1>3, FlagsAssumption DEF DatabaseInv, Unspecified
<1> QED
  BY <1>1, <1>2, <1>3 DEF FlagsTypeOK

\* Every step preserves DatabaseInv.
LEMMA DatabaseStep == FlagsTypeOK /\ DatabaseInv /\ [FlagsNext]_flagsVars => DatabaseInv'
  BY DEF FlagsTypeOK, DatabaseInv, FlagsNext, flagsVars, Tick, Launch, OpenDatabase, CreateDatabase,
         LinkConsumer, StartComponents, Persist, Shutdown

\* Every step preserves the inductive invariant.
LEMMA StepInv == IndInv /\ [FlagsNext]_flagsVars => IndInv'
<1> SUFFICES ASSUME IndInv, [FlagsNext]_flagsVars PROVE IndInv'
  OBVIOUS
<1> USE FlagsAssumption
<1>0. FlagsTypeOK /\ FlagsTypeOK' /\ DatabaseInv'
  BY TypeStep, DatabaseStep DEF IndInv
<1>t. /\ clock \in Int /\ clock' \in Int /\ stored \in Int /\ stored' \in Int
      /\ version \in Int /\ linked \in Int /\ \A v \in Versions : v \in Int
  BY <1>0 DEF FlagsTypeOK, Unspecified
<1>1. CASE Tick
  <2>1. SettledInv'
    BY <1>0, <1>t, <1>1 DEF IndInv, SettledInv, Tick, FlagsTypeOK
  <2>2. CanApplyOneOffFlags(version)' => CanApplyOneOffFlags(version)
    BY <1>t, <1>1 DEF Tick, CanApplyOneOffFlags
  <2>3. AppliedInv' /\ LinkedInv' /\ PersistedWasApplied'
    BY <1>1, <2>2 DEF IndInv, AppliedInv, LinkedInv, PersistedWasApplied, Tick
  <2> QED
    BY <1>0, <2>1, <2>3 DEF IndInv
<1>2. ASSUME NEW v \in Versions \cup {Unspecified}, Launch(v) PROVE IndInv'
  BY <1>0, <1>2 DEF IndInv, SettledInv, AppliedInv, LinkedInv, PersistedWasApplied, Launch
<1>3. CASE OpenDatabase
  <2>1. linked' = 0 /\ SettledInv' /\ LinkedInv' /\ PersistedWasApplied'
    BY <1>3 DEF IndInv, SettledInv, LinkedInv, PersistedWasApplied, OpenDatabase
  <2>2. AppliedInv'
    BY <2>1 DEF AppliedInv
  <2> QED
    BY <1>0, <2>1, <2>2 DEF IndInv
<1>4. ASSUME NEW b \in BOOLEAN, CreateDatabase(b) PROVE IndInv'
  <2>1. linked' = 0 /\ SettledInv' /\ LinkedInv' /\ PersistedWasApplied'
    BY <1>4 DEF IndInv, SettledInv, LinkedInv, PersistedWasApplied, CreateDatabase
  <2>2. AppliedInv'
    BY <2>1 DEF AppliedInv
  <2> QED
    BY <1>0, <2>1, <2>2 DEF IndInv
<1>5. CASE LinkConsumer
  <2>1. SettledInv' /\ LinkedInv'
    BY <1>5 DEF IndInv, SettledInv, LinkedInv, LinkConsumer
  <2>2. \A v \in Versions, c \in 1..N : resets[v][c] > 0 => resets'[v][c] > 0
    BY <1>0, <1>5, ResetsGrow
  <2>3. PersistedWasApplied'
    BY <1>0, <1>5, <2>2 DEF IndInv, PersistedWasApplied, LinkConsumer, FlagsTypeOK
  <2>4. ASSUME CanApplyOneOffFlags(version)' PROVE \A c \in 1..linked' : resets'[version'][c] > 0
    <3>1. CanApplyOneOffFlags(version) /\ version' = version /\ version \in Versions
      BY <1>0, <1>5, <2>4 DEF CanApplyOneOffFlags, LinkConsumer, FlagsTypeOK, Unspecified
    <3>2. \A c \in 1..linked : resets[version][c] > 0
      BY <1>5, <3>1 DEF IndInv, AppliedInv, LinkConsumer
    <3>3. /\ linked' = linked + 1 /\ linked \in 0..N /\ linked + 1 \in 1..N
          /\ \A c \in 1..linked : c \in 1..N
      BY <1>0, <1>5 DEF LinkConsumer, FlagsTypeOK
    <3>4. resets'[version][linked + 1] > 0
      BY <1>0, <1>5, <3>1, <3>3, ResetCounted
    <3>5. \A c \in 1..linked : resets'[version][c] > 0
      BY <2>2, <3>1, <3>2, <3>3
    <3> QED
      BY <1>t, <3>1, <3>3, <3>4, <3>5
  <2>5. AppliedInv'
    BY <2>4 DEF AppliedInv
  <2> QED
    BY <1>0, <2>1, <2>3, <2>5 DEF IndInv
<1>6. CASE StartComponents
  <2>1. SettledInv' /\ LinkedInv' /\ PersistedWasApplied'
    BY <1>6 DEF IndInv, SettledInv, LinkedInv, PersistedWasApplied, StartComponents
  <2>2. AppliedInv'
    BY <1>6 DEF IndInv, AppliedInv, StartComponents, CanApplyOneOffFlags
  <2> QED
    BY <1>0, <2>1, <2>2 DEF IndInv
<1>7. CASE Persist
  <2>1. SettledInv'
    <3>1. CASE CanApplyOneOffFlags(version)
      <4>1. stored' = version /\ stored < version /\ clock' = clock
        BY <1>7, <3>1, AppliedIsNewer DEF IndInv, Persist
      <4>2. ASSUME NEW v \in served' PROVE v <= stored' \/ v < clock'
        BY <1>0, <1>t, <1>7, <4>1, <4>2 DEF IndInv, SettledInv, Persist, FlagsTypeOK
      <4> QED
        BY <4>2 DEF SettledInv
    <3>2. CASE ~CanApplyOneOffFlags(version)
      <4>1. stored' = stored /\ clock' = clock /\ exists = TRUE
        BY <1>7, <3>2 DEF IndInv, DatabaseInv, Persist
      <4>2. version \in Versions => version <= stored \/ version < clock
        BY <1>t, <3>2, <4>1 DEF CanApplyOneOffFlags
      <4>3. ASSUME NEW v \in served' PROVE v <= stored' \/ v < clock'
        BY <1>7, <4>1, <4>2 DEF IndInv, SettledInv, Persist
      <4> QED
        BY <4>3 DEF SettledInv
    <3> QED
      BY <3>1, <3>2
  <2>2. PersistedWasApplied'
    BY <1>7 DEF IndInv, PersistedWasApplied, AppliedInv, LinkedInv, Persist
  <2>3. AppliedInv' /\ LinkedInv'
    BY <1>7 DEF AppliedInv, LinkedInv, Persist
  <2> QED
    BY <1>0, <2>1, <2>2, <2>3 DEF IndInv
<1>8. CASE Shutdown
  BY <1>0, <1>8 DEF IndInv, SettledInv, AppliedInv, LinkedInv, PersistedWasApplied, Shutdown
<1>9. CASE UNCHANGED flagsVars
  <2>1. AppliedInv'
    BY <1>9 DEF IndInv, AppliedInv, CanApplyOneOffFlags, flagsVars
  <2>2. SettledInv' /\ LinkedInv' /\ PersistedWasApplied'
    BY <1>9 DEF IndInv, SettledInv, LinkedInv, PersistedWasApplied, flagsVars
  <2> QED
    BY <1>0, <2>1, <2>2 DEF IndInv
<1> QED
  BY <1>1, <1>2, <1>3, <1>4, <1>5, <1>6, <1>7, <1>8, <1>9 DEF FlagsNext

\* FlagsTypeOK is an invariant of the boot sequence.
THEOREM TypeCorrect == FlagsSpec => []FlagsTypeOK
<1>1. FlagsInit => FlagsTypeOK
  BY InitInv DEF IndInv
<1> QED
  BY <1>1, TypeStep, PTL DEF FlagsSpec

\* The inductive invariant is an invariant.
LEMMA Invariance == FlagsSpec => []IndInv
  BY InitInv, StepInv, PTL DEF FlagsSpec

\* When a version is in the database, its one-off flag was applied to every
\* consumer: persistVersionTimestamp asks canApplyOneOffFlags again, and the
\* answer can only have changed from true to false since the first consumer.
THEOREM PersistedApplied == FlagsSpec => []PersistedWasApplied
<1>1. IndInv => PersistedWasApplied
  BY DEF IndInv
<1> QED
  BY <1>1, Invariance, PTL

\* After a process has served with a version, its flags are never applied again.
THEOREM ServedSettled == FlagsSpec => ServedNotReapplied
<1>1. IndInv /\ [FlagsNext]_flagsVars => [\A v \in served : resets'[v] = resets[v]]_flagsVars
  <2> SUFFICES ASSUME IndInv, [FlagsNext]_flagsVars, NEW v \in served PROVE resets'[v] = resets[v]
    OBVIOUS
  <2> USE FlagsAssumption
  <2>1. CASE LinkConsumer /\ CanApplyOneOffFlags(version)
    <3>1. version # v
      <4>1. stored < version /\ clock <= version /\ (v <= stored \/ v < clock)
        BY <2>1, AppliedIsNewer DEF IndInv, SettledInv
      <4>2. stored \in Int /\ clock \in Int /\ version \in Int /\ v \in Int
        BY DEF IndInv, FlagsTypeOK, Unspecified
      <4> QED
        BY <4>1, <4>2
    <3>2. v \in Versions
      BY DEF IndInv, FlagsTypeOK
    <3> QED
      BY <2>1, <3>1, <3>2 DEF LinkConsumer, IndInv, FlagsTypeOK
  <2>2. CASE ~(LinkConsumer /\ CanApplyOneOffFlags(version))
    BY <2>2 DEF FlagsNext, flagsVars, Tick, Launch, OpenDatabase, CreateDatabase, LinkConsumer,
                StartComponents, Persist, Shutdown
  <2> QED
    BY <2>1, <2>2
<1> QED
  BY <1>1, Invariance, PTL DEF FlagsSpec, ServedNotReapplied

\* The stored version never decreases.
THEOREM StoredGrows == FlagsSpec => StoredMonotone
<1>1. IndInv /\ [FlagsNext]_flagsVars => [stored' >= stored]_flagsVars
  <2> SUFFICES ASSUME IndInv, [FlagsNext]_flagsVars PROVE stored' >= stored
    OBVIOUS
  <2>1. stored \in Int
    BY FlagsAssumption DEF IndInv, FlagsTypeOK, Unspecified
  <2>2. CASE Persist
    <3>1. CanApplyOneOffFlags(version) => version \in Nat /\ stored < version
      BY FlagsAssumption, AppliedIsNewer DEF IndInv
    <3> QED
      BY <2>1, <2>2, <3>1 DEF Persist
  <2>3. CASE ~Persist
    BY <2>1, <2>3 DEF FlagsNext, flagsVars, Tick, Launch, OpenDatabase, CreateDatabase, LinkConsumer,
                      StartComponents, Shutdown
  <2> QED
    BY <2>2, <2>3
<1> QED
  BY <1>1, Invariance, PTL DEF FlagsSpec, StoredMonotone

(***************************************************************************)
(* Backups.  The tables that freeze() lists stay on disk because deletions *)
(* are disabled until thaw(); they and the listed logs hold every write    *)
(* that was there when the freeze began because, at any moment, a log      *)
(* begins where the live tables end.                                       *)
(***************************************************************************)

\* Where a write is: in one of the tables.
InTable(S, x) == \E f \in S : x \in (f.lo + 1)..f.hi

\* S holds the writes 1..k and no others.
Covers(S, k) ==
  /\ \A f \in S : f.lo < f.hi /\ f.hi <= k
  /\ \A x \in 1..k : InTable(S, x)

\* The log being written is the last one, and the live tables hold exactly the
\* writes before it.
FilesInv ==
  /\ \E m \in logs : \A l \in logs : l <= m
  /\ \A l \in logs : l <= numWrites
  /\ Covers(live, CurrentLog)

\* While a backup is made deletions are disabled, so the listed tables stay, and
\* so does a log that begins where the listed tables end.
BackupInv ==
  /\ pc \in {"disabled", "listing", "frozen"} => disabled > 0 /\ begun <= numWrites
  /\ pc = "listing" =>
       liveFiles \subseteq tables /\ \E k \in logs : Covers(liveFiles, k)

FreezeInv == FreezeTypeOK /\ FilesInv /\ BackupInv /\ ListedKept /\ BackupComplete
-----------------------------------------------------------------------------
(* Maxima, logs and what they hold. *)

LOCAL INSTANCE WellFoundedInduction

\* A set of naturals that is not empty has a least member.
LEMMA LeastNatural ==
  ASSUME NEW S, S \subseteq Nat, S # {} PROVE \E n \in S : \A m \in S : n <= m
<1>1. \E n \in S : \A m \in S : ~(<<m, n>> \in OpToRel(<, Nat))
  BY NatLessThanWellFounded, WFMin
<1>2. PICK n \in S : \A m \in S : ~(<<m, n>> \in OpToRel(<, Nat))
  BY <1>1
<1>3. \A m \in S : ~(m < n)
  BY <1>2, Zenon DEF OpToRel
<1>4. \A m \in S : m \in Int
  OBVIOUS
<1>5. ASSUME NEW m \in S PROVE n <= m
  <2>1. m \in Int /\ n \in Int /\ ~(m < n)
    BY <1>3, <1>4
  <2>. QED
    BY <2>1
<1>. QED
  BY <1>5

\* So a set of naturals with a bound has a greatest member.
LEMMA GreatestBelow ==
  ASSUME NEW S, S \subseteq Nat, S # {}, NEW b \in Nat, \A s \in S : s <= b
  PROVE  \E n \in S : \A m \in S : m <= n
<1> DEFINE T == {b - s : s \in S}
<1>1. T \subseteq Nat /\ T # {}
  <2>1. \A s \in S : b - s \in Nat
    OBVIOUS
  <2>. QED
    BY <2>1
<1>2. PICK d \in T : \A e \in T : d <= e
  <2> HIDE DEF T
  <2>. QED
    BY <1>1, LeastNatural
<1>3. PICK n \in S : d = b - n
  OBVIOUS
<1>4. ASSUME NEW m \in S PROVE m <= n
  <2>1. b - m \in T
    OBVIOUS
  <2>2. b - n <= b - m
    BY <1>2, <1>3, <2>1
  <2>3. m \in Nat /\ n \in Nat
    OBVIOUS
  <2>. QED
    BY <2>2, <2>3
<1>. QED
  BY <1>4

\* MaxOf is the greatest member where there is one.
LEMMA MaxIs ==
  ASSUME NEW S, S \subseteq Nat, NEW m \in S, \A y \in S : y <= m
  PROVE  MaxOf(S) = m
<1>1. MaxOf(S) \in S /\ \A y \in S : y <= MaxOf(S)
  BY Zenon DEF MaxOf
<1>2. m <= MaxOf(S) /\ MaxOf(S) <= m /\ m \in Nat /\ MaxOf(S) \in Nat
  BY <1>1
<1>. QED
  BY <1>2

\* The log being written is the last log.
LEMMA CurrentLogIs ==
  ASSUME FreezeTypeOK, FilesInv
  PROVE  /\ CurrentLog \in logs /\ CurrentLog \in Writes /\ CurrentLog \in Nat
         /\ \A l \in logs : l <= CurrentLog
<1>1. logs \subseteq Writes /\ logs \subseteq Nat
  BY FreezeAssumption DEF FreezeTypeOK, Writes
<1>2. PICK m \in logs : \A l \in logs : l <= m
  BY DEF FilesInv
<1>3. CurrentLog = m
  BY <1>1, <1>2, MaxIs DEF CurrentLog
<1>. QED
  BY <1>1, <1>2, <1>3

\* A log ends where the next one begins, the last one with the last write.
LEMMA LogEndIs ==
  ASSUME FreezeTypeOK, FilesInv, NEW l \in logs
  PROVE  /\ LogEnd(l) \in Nat /\ LogEnd(l) <= numWrites
         /\ \/ LogEnd(l) = numWrites
            \/ LogEnd(l) \in logs /\ l < LogEnd(l)
         /\ \A m \in logs : m > l => LogEnd(l) <= m
<1> DEFINE later == {m \in logs : m > l}
<1>1. logs \subseteq Nat /\ numWrites \in Nat /\ \A m \in logs : m <= numWrites
  BY FreezeAssumption DEF FreezeTypeOK, Writes, FilesInv
<1>2. CASE later = {}
  <2>1. LogEnd(l) = numWrites
    BY <1>2 DEF LogEnd
  <2>. QED
    BY <1>1, <1>2, <2>1
<1>3. CASE later # {}
  <2>1. \E m \in later : \A k \in later : m <= k
    <3>1. later \subseteq Nat
      BY <1>1
    <3> HIDE DEF later
    <3>. QED
      BY <1>3, <3>1, LeastNatural
  <2>2. LogEnd(l) = CHOOSE m \in later : \A k \in later : m <= k
    BY <1>3 DEF LogEnd
  <2>3. LogEnd(l) \in later /\ \A k \in later : LogEnd(l) <= k
    <3> HIDE DEF later
    <3>. QED
      BY <2>1, <2>2, Zenon
  <2>. QED
    BY <1>1, <2>3
<1>. QED
  BY <1>2, <1>3

\* Tables that hold the writes up to the beginning of a log, and all the logs,
\* hold every write.
LEMMA AllWrites ==
  ASSUME FreezeTypeOK, FilesInv, NEW F, F \subseteq Tables,
         NEW k \in logs, Covers(F, k)
  PROVE  (UNION {(f.lo + 1)..f.hi : f \in F})
           \cup (UNION {(w.lo + 1)..w.upto : w \in SortedWalFiles}) = 1..numWrites
<1> DEFINE A == UNION {(f.lo + 1)..f.hi : f \in F}
           B == UNION {(w.lo + 1)..w.upto : w \in SortedWalFiles}
<1>1. logs \subseteq Nat /\ numWrites \in Nat /\ \A m \in logs : m <= numWrites
  BY FreezeAssumption DEF FreezeTypeOK, Writes, FilesInv
<1>2. \A f \in F : f.lo \in Nat /\ f.hi \in Nat
  BY FreezeAssumption DEF Tables, Writes
<1>3. ASSUME NEW x \in A PROVE x \in 1..numWrites
  <2>1. PICK f \in F : x \in (f.lo + 1)..f.hi
    OBVIOUS
  <2>2. f.lo \in Nat /\ f.hi \in Nat /\ f.hi <= k /\ k <= numWrites /\ k \in Nat
    BY <1>1, <1>2 DEF Covers
  <2>. QED
    BY <1>1, <2>1, <2>2
<1>4. ASSUME NEW x \in B PROVE x \in 1..numWrites
  <2>1. PICK l \in logs : x \in (l + 1)..LogEnd(l)
    BY DEF SortedWalFiles
  <2>2. l \in Nat /\ LogEnd(l) \in Nat /\ LogEnd(l) <= numWrites
    BY <1>1, LogEndIs
  <2>. QED
    BY <1>1, <2>1, <2>2
<1>5. ASSUME NEW x \in 1..numWrites, x <= k PROVE x \in A
  <2>1. x \in 1..k
    BY <1>1, <1>5
  <2>2. PICK f \in F : x \in (f.lo + 1)..f.hi
    BY <2>1 DEF Covers, InTable
  <2>. QED
    BY <2>2
<1>6. ASSUME NEW x \in 1..numWrites, k < x PROVE x \in B
  <2> DEFINE before == {l \in logs : l < x}
  <2>1. PICK l \in before : \A m \in before : m <= l
    <3>1. before \subseteq Nat /\ k \in before /\ \A m \in before : m <= numWrites
      BY <1>1, <1>6
    <3> HIDE DEF before
    <3>. QED
      BY <1>1, <3>1, GreatestBelow
  <2>2. l \in logs /\ l < x /\ l \in Nat
    BY <1>1
  <2>3. x <= LogEnd(l)
    <3>1. LogEnd(l) \in Nat /\ (LogEnd(l) = numWrites \/ (LogEnd(l) \in logs /\ l < LogEnd(l)))
      BY <2>2, LogEndIs
    <3>2. CASE LogEnd(l) = numWrites
      BY <3>2
    <3>3. CASE LogEnd(l) \in logs /\ l < LogEnd(l)
      <4>1. LogEnd(l) \notin before
        BY <2>1, <2>2, <3>1, <3>3
      <4>. QED
        BY <3>1, <3>3, <4>1
    <3>. QED
      BY <3>1, <3>2, <3>3
  <2>4. x \in (l + 1)..LogEnd(l)
    BY <2>2, <2>3, LogEndIs
  <2>5. [lo |-> l, upto |-> LogEnd(l)] \in SortedWalFiles
    BY <2>2 DEF SortedWalFiles
  <2> DEFINE w == [lo |-> l, upto |-> LogEnd(l)]
  <2>6. w \in SortedWalFiles /\ (w.lo + 1)..w.upto = (l + 1)..LogEnd(l)
    BY <2>5
  <2> HIDE DEF w
  <2>. QED
    BY <2>4, <2>6
<1>7. \A x \in 1..numWrites : x <= k \/ k < x
  BY <1>1
<1>8. A \cup B = 1..numWrites
  <2> HIDE DEF A, B
  <2>. QED
    BY <1>3, <1>4, <1>5, <1>6, <1>7
<1>. QED
  BY <1>8
-----------------------------------------------------------------------------
(* The invariant. *)

\* A new database has one log and no table.
LEMMA FreezeInitInv == FreezeInit => FreezeInv
<1> SUFFICES ASSUME FreezeInit PROVE FreezeInv
  OBVIOUS
<1>1. FreezeTypeOK
  BY FreezeAssumption DEF FreezeInit, FreezeTypeOK, Writes
<1>2. CurrentLog = 0
  <2>1. logs = {0} /\ logs \subseteq Nat /\ \A l \in logs : l <= 0
    BY DEF FreezeInit
  <2>. QED
    BY <2>1, MaxIs DEF CurrentLog
<1>3. FilesInv
  BY <1>2 DEF FreezeInit, FilesInv, Covers
<1>. QED
  BY <1>1, <1>3 DEF FreezeInit, FreezeInv, BackupInv, ListedKept, BackupComplete

\* A new table that holds the writes after the ones of S.
LEMMA CoversMore ==
  ASSUME NEW S, S \subseteq Tables, NEW k \in Nat, NEW n \in Nat, k < n, Covers(S, k),
         NEW f, f.lo = k, f.hi = n
  PROVE  Covers(S \cup {f}, n)
<1>1. \A g \in S : g.lo \in Nat /\ g.hi \in Nat /\ g.lo < g.hi /\ g.hi <= k
  BY FreezeAssumption DEF Tables, Writes, Covers
<1>2. \A g \in S \cup {f} : g.lo < g.hi /\ g.hi <= n
  BY <1>1
<1>3. ASSUME NEW x \in 1..n PROVE InTable(S \cup {f}, x)
  <2>1. CASE x \in 1..k
    BY <2>1 DEF Covers, InTable
  <2>2. CASE x \in (k + 1)..n
    BY <2>2 DEF InTable
  <2>. QED
    BY <2>1, <2>2
<1>. QED
  BY <1>2, <1>3 DEF Covers

\* The tables rewritten as one.
LEMMA CoversMerged ==
  ASSUME NEW S, S \subseteq Tables, S # {}, NEW k \in Nat, Covers(S, k)
  PROVE  MaxOf({f.hi : f \in S}) = k /\ k > 0
<1> DEFINE his == {f.hi : f \in S}
<1>1. \A g \in S : g.lo \in Nat /\ g.hi \in Nat /\ g.lo < g.hi /\ g.hi <= k
  BY FreezeAssumption DEF Tables, Writes, Covers
<1>2. k > 0
  BY <1>1
<1>3. PICK f \in S : k \in (f.lo + 1)..f.hi
  BY <1>2 DEF Covers, InTable
<1>4. f.hi = k
  BY <1>1, <1>3
<1>5. his \subseteq Nat /\ k \in his /\ \A y \in his : y <= k
  BY <1>1, <1>4
<1>6. MaxOf(his) = k
  <2> HIDE DEF his
  <2>. QED
    BY <1>5, MaxIs
<1>. QED
  BY <1>2, <1>6

\* A write goes into the log being written.
LEMMA WriteStep == FreezeInv /\ Write => FreezeInv'
<1> SUFFICES ASSUME FreezeInv, Write PROVE FreezeInv'
  OBVIOUS
<1> USE DEF FreezeInv
<1>1. numWrites \in Nat /\ numWrites' = numWrites + 1 /\ numWrites' \in Writes /\ numWrites <= numWrites'
  BY FreezeAssumption DEF Write, FreezeTypeOK, Writes
<1>2. /\ UNCHANGED <<live, tables, logs, numTables, disabled, crashes>>
      /\ UNCHANGED <<pc, begun, liveFiles, walLogs>>
  BY DEF Write, backup
<1>3. FreezeTypeOK'
  BY ONLY <1>1, <1>2, FreezeTypeOK DEF FreezeTypeOK
<1>4. CurrentLog' = CurrentLog
  BY <1>2 DEF CurrentLog
<1>5. logs \subseteq Nat
  BY FreezeAssumption DEF FreezeTypeOK, Writes
<1>6. FilesInv'
  BY <1>1, <1>2, <1>4, <1>5 DEF FilesInv, Covers, InTable
<1>7. begun \in Nat
  BY FreezeAssumption DEF FreezeTypeOK, Writes
<1>8. BackupInv'
  BY <1>1, <1>2, <1>7 DEF BackupInv, Covers, InTable
<1>9. ListedKept'
  BY <1>2 DEF ListedKept
<1>10. BackupComplete'
  <2>1. begun..numWrites \subseteq (begun..numWrites)'
    BY <1>1, <1>2, <1>7
  <2>2. Copied' = Copied
    BY <1>2 DEF Copied
  <2>. QED
    BY <1>2, <2>1, <2>2 DEF BackupComplete
<1>. QED
  BY <1>3, <1>6, <1>8, <1>9, <1>10

\* A flush during a listing adds a table and a log, and takes none away.
LEMMA FlushStep == FreezeInv /\ Flush => FreezeInv'
<1> SUFFICES ASSUME FreezeInv, Flush PROVE FreezeInv'
  OBVIOUS
<1> USE DEF FreezeInv
<1> DEFINE new == [lo |-> CurrentLog, hi |-> numWrites, id |-> numTables + 1]
<1>1. /\ live' = live \cup {new} /\ tables' = tables \cup {new}
      /\ logs' = logs \cup {numWrites} /\ numTables' = numTables + 1
      /\ CurrentLog < numWrites /\ numTables < MaxTables
  BY DEF Flush
<1>2. UNCHANGED <<numWrites, disabled, crashes, pc, begun, liveFiles, walLogs>>
  BY DEF Flush, backup
<1>3. /\ CurrentLog \in Writes /\ CurrentLog \in Nat /\ numWrites \in Writes /\ numWrites \in Nat
      /\ logs \subseteq Nat
  BY CurrentLogIs, FreezeAssumption DEF FreezeTypeOK, Writes
<1>4. numTables \in 0..MaxTables /\ numTables + 1 \in 1..MaxTables
  BY <1>1, FreezeAssumption DEF FreezeTypeOK
<1>5. new \in Tables
  BY <1>3, <1>4 DEF Tables
<1>6. new.lo = CurrentLog /\ new.hi = numWrites
  OBVIOUS
<1> HIDE DEF new
<1>7. FreezeTypeOK'
  <2>1. (numTables \in 0..MaxTables)'
    BY <1>1, <1>4, FreezeAssumption
  <2>. QED
    BY ONLY <1>1, <1>2, <1>3, <1>5, <2>1, FreezeTypeOK DEF FreezeTypeOK
<1>8. CurrentLog' = numWrites
  <2>1. logs' \subseteq Nat /\ numWrites \in logs' /\ \A l \in logs' : l <= numWrites
    BY <1>1, <1>3 DEF FilesInv
  <2>. QED
    BY <2>1, MaxIs DEF CurrentLog
<1>9. FilesInv'
  <2>1. Covers(live \cup {new}, numWrites)
    <3>1. live \subseteq Tables /\ Covers(live, CurrentLog)
      BY DEF FreezeTypeOK, FilesInv
    <3>. QED
      BY <1>1, <1>3, <1>6, <3>1, CoversMore
  <2>2. Covers(live, CurrentLog)'
    BY <1>1, <1>2, <1>8, <2>1 DEF Covers, InTable
  <2>3. \A l \in logs' : l <= numWrites
    BY <1>1, <1>3 DEF FilesInv
  <2>. QED
    BY <1>1, <1>2, <2>2, <2>3 DEF FilesInv
<1>10. BackupInv'
  <2>1. logs \subseteq logs' /\ tables \subseteq tables'
    BY <1>1
  <2>. QED
    BY <1>2, <2>1 DEF BackupInv, Covers, InTable
<1>11. ListedKept'
  BY <1>1, <1>2 DEF ListedKept
<1>12. BackupComplete'
  BY <1>2 DEF BackupComplete, Copied
<1>. QED
  BY <1>7, <1>9, <1>10, <1>11, <1>12

\* A compaction takes no file away either; what it replaces stays on disk.
LEMMA CompactionStep == FreezeInv /\ ForceCompaction => FreezeInv'
<1> SUFFICES ASSUME FreezeInv, ForceCompaction PROVE FreezeInv'
  OBVIOUS
<1> USE DEF FreezeInv
<1> DEFINE new == [lo |-> 0, hi |-> MaxOf({f.hi : f \in live}), id |-> numTables + 1]
<1>1. /\ live' = {new} /\ tables' = tables \cup {new} /\ numTables' = numTables + 1
      /\ live # {} /\ numTables < MaxTables
  BY DEF ForceCompaction
<1>2. UNCHANGED <<numWrites, logs, disabled, crashes, pc, begun, liveFiles, walLogs>>
  BY DEF ForceCompaction, backup
<1>3. CurrentLog \in Writes /\ CurrentLog \in Nat /\ 0 \in Writes
  BY CurrentLogIs, FreezeAssumption DEF Writes
<1>4. numTables \in 0..MaxTables /\ numTables + 1 \in 1..MaxTables
  BY <1>1, FreezeAssumption DEF FreezeTypeOK
<1>5. MaxOf({f.hi : f \in live}) = CurrentLog /\ CurrentLog > 0
  <2>1. live \subseteq Tables /\ Covers(live, CurrentLog)
    BY DEF FreezeTypeOK, FilesInv
  <2>. QED
    BY <1>1, <1>3, <2>1, CoversMerged
<1>6. new \in Tables
  BY <1>3, <1>4, <1>5 DEF Tables
<1>7. new.lo = 0 /\ new.hi = CurrentLog
  BY <1>5
<1> HIDE DEF new
<1>8. FreezeTypeOK'
  <2>1. (numTables \in 0..MaxTables)'
    BY <1>1, <1>4, FreezeAssumption
  <2>. QED
    BY ONLY <1>1, <1>2, <1>6, <2>1, FreezeTypeOK DEF FreezeTypeOK
<1>9. CurrentLog' = CurrentLog
  BY <1>2 DEF CurrentLog
<1>10. FilesInv'
  <2>1. Covers({new}, CurrentLog)
    BY <1>3, <1>5, <1>7 DEF Covers, InTable
  <2>2. Covers(live, CurrentLog)'
    BY <1>1, <1>9, <2>1 DEF Covers, InTable
  <2>. QED
    BY <1>2, <2>2 DEF FilesInv
<1>11. BackupInv'
  <2>1. tables \subseteq tables'
    BY <1>1
  <2>. QED
    BY <1>2, <2>1 DEF BackupInv, Covers, InTable
<1>12. ListedKept'
  BY <1>1, <1>2 DEF ListedKept
<1>13. BackupComplete'
  BY <1>2 DEF BackupComplete, Copied
<1>. QED
  BY <1>8, <1>10, <1>11, <1>12, <1>13

\* Deletions do not happen while a backup is made.
LEMMA DeletionStep == FreezeInv /\ DeleteObsoleteFiles => FreezeInv'
<1> SUFFICES ASSUME FreezeInv, DeleteObsoleteFiles PROVE FreezeInv'
  OBVIOUS
<1> USE DEF FreezeInv
<1>1. /\ tables' = live /\ logs' = {CurrentLog} /\ disabled = 0
      /\ UNCHANGED <<numWrites, live, numTables, disabled, crashes, pc, begun, liveFiles, walLogs>>
  BY DEF DeleteObsoleteFiles, backup
<1>2. CurrentLog \in logs /\ CurrentLog \in Nat
  BY CurrentLogIs
<1>3. FreezeTypeOK'
  BY ONLY <1>1, <1>2, FreezeTypeOK DEF FreezeTypeOK
<1>4. CurrentLog' = CurrentLog
  <2>1. logs' \subseteq Nat /\ CurrentLog \in logs' /\ \A l \in logs' : l <= CurrentLog
    BY <1>1, <1>2
  <2>. QED
    BY <2>1, MaxIs DEF CurrentLog
<1>5. FilesInv'
  <2>1. Covers(live, CurrentLog)'
    BY <1>1, <1>4 DEF FilesInv, Covers, InTable
  <2>2. \A l \in logs' : l <= CurrentLog /\ l <= numWrites
    BY <1>1, <1>2 DEF FilesInv
  <2>. QED
    BY <1>1, <2>1, <2>2 DEF FilesInv
<1>6. pc \notin {"disabled", "listing", "frozen"}
  BY <1>1 DEF BackupInv
<1>. QED
  BY <1>1, <1>3, <1>5, <1>6 DEF BackupInv, ListedKept, BackupComplete

\* The first two calls of freeze().
LEMMA ListingStep == FreezeInv /\ (FreezeDisables \/ GetLiveFiles) => FreezeInv'
<1> SUFFICES ASSUME FreezeInv, FreezeDisables \/ GetLiveFiles PROVE FreezeInv'
  OBVIOUS
<1> USE DEF FreezeInv
<1>1. UNCHANGED <<numWrites, live, tables, logs, numTables, walLogs, crashes>>
  BY DEF FreezeDisables, GetLiveFiles, files
<1>2. FilesInv'
  BY <1>1 DEF FilesInv, Covers, InTable, CurrentLog
<1>3. numWrites \in Nat /\ disabled \in Nat /\ live \subseteq Tables
  BY FreezeAssumption DEF FreezeTypeOK, Writes
<1>4. CASE FreezeDisables
  <2>1. /\ begun' = numWrites /\ liveFiles' = liveFiles
        /\ \/ disabled' = disabled + 1 /\ pc' = "disabled"
           \/ disabled' = disabled /\ pc' = "failed"
    BY <1>4 DEF FreezeDisables, DisableFileDeletions
  <2>2. disabled' \in Nat /\ pc' \in {"disabled", "failed"} /\ (pc' = "disabled" => disabled' > 0)
    BY <1>3, <2>1
  <2>3. FreezeTypeOK'
    BY ONLY <1>1, <2>1, <2>2, FreezeTypeOK DEF FreezeTypeOK
  <2>4. BackupInv'
    BY <1>1, <1>3, <2>1, <2>2 DEF BackupInv
  <2>. QED
    BY <1>2, <2>2, <2>3, <2>4 DEF ListedKept, BackupComplete
<1>5. CASE GetLiveFiles
  <2>1. /\ begun' = begun /\ disabled' = disabled /\ pc = "disabled"
        /\ \/ liveFiles' = live /\ pc' = "listing"
           \/ liveFiles' = liveFiles /\ pc' = "failed"
    BY <1>5 DEF GetLiveFiles
  <2>2. FreezeTypeOK'
    BY ONLY <1>1, <1>3, <2>1, FreezeTypeOK DEF FreezeTypeOK
  <2>3. disabled > 0 /\ begun <= numWrites
    BY <2>1 DEF BackupInv
  <2>4. CurrentLog \in logs /\ Covers(live, CurrentLog) /\ live \subseteq tables
    BY CurrentLogIs DEF FilesInv, FreezeTypeOK
  <2>5. BackupInv'
    BY <1>1, <2>1, <2>3, <2>4 DEF BackupInv, Covers, InTable
  <2>. QED
    BY <1>2, <2>1, <2>2, <2>5 DEF ListedKept, BackupComplete
<1>. QED
  BY <1>4, <1>5

\* The last call of freeze(): the logs that are listed take over where the
\* listed tables end, whatever was flushed in between.
LEMMA ListedStep == FreezeInv /\ GetSortedWalFiles => FreezeInv'
<1> SUFFICES ASSUME FreezeInv, GetSortedWalFiles PROVE FreezeInv'
  OBVIOUS
<1> USE DEF FreezeInv
<1>1. /\ UNCHANGED <<numWrites, live, tables, logs, numTables, disabled, begun, liveFiles, crashes>>
      /\ pc = "listing"
      /\ \/ walLogs' = SortedWalFiles /\ pc' = "frozen"
         \/ walLogs' = walLogs /\ pc' = "failed"
  BY DEF GetSortedWalFiles, files
<1>2. FilesInv'
  BY <1>1 DEF FilesInv, Covers, InTable, CurrentLog
<1>3. SortedWalFiles \subseteq LogSizes
  <2>1. ASSUME NEW l \in logs PROVE [lo |-> l, upto |-> LogEnd(l)] \in LogSizes
    <3>1. l \in Writes /\ numWrites \in Writes
      BY DEF FreezeTypeOK
    <3>2. LogEnd(l) \in Nat /\ LogEnd(l) <= numWrites
      BY LogEndIs
    <3>3. LogEnd(l) \in Writes
      BY <3>1, <3>2, FreezeAssumption DEF Writes
    <3>. QED
      BY <3>1, <3>3 DEF LogSizes
  <2>. QED
    BY <2>1 DEF SortedWalFiles
<1>4. FreezeTypeOK'
  BY ONLY <1>1, <1>3, FreezeTypeOK DEF FreezeTypeOK
<1>5. /\ disabled > 0 /\ begun <= numWrites
      /\ liveFiles \subseteq tables /\ \E k \in logs : Covers(liveFiles, k)
  BY <1>1 DEF BackupInv
<1>6. BackupInv'
  BY <1>1, <1>5 DEF BackupInv
<1>7. ListedKept'
  <2>1. {w.lo : w \in SortedWalFiles} \subseteq logs
    BY DEF SortedWalFiles
  <2>. QED
    BY <1>1, <1>5, <2>1 DEF ListedKept
<1>8. BackupComplete'
  <2>1. SUFFICES ASSUME walLogs' = SortedWalFiles PROVE BackupComplete'
    BY <1>1 DEF BackupComplete
  <2>2. PICK k \in logs : Covers(liveFiles, k)
    BY <1>5
  <2>3. liveFiles \subseteq Tables
    BY DEF FreezeTypeOK
  <2>4. Copied' = 1..numWrites
    BY <1>1, <2>1, <2>2, <2>3, AllWrites DEF Copied
  <2>5. numWrites \in begun..numWrites
    BY <1>5, FreezeAssumption DEF FreezeTypeOK, Writes
  <2>. QED
    BY <1>1, <2>4, <2>5 DEF BackupComplete
<1>. QED
  BY <1>2, <1>4, <1>6, <1>7, <1>8

\* thaw() ends the backup.
LEMMA ThawStep == FreezeInv /\ Thaw => FreezeInv'
<1> SUFFICES ASSUME FreezeInv, Thaw PROVE FreezeInv'
  OBVIOUS
<1> USE DEF FreezeInv
<1>1. /\ UNCHANGED <<numWrites, live, tables, logs, numTables, crashes>>
      /\ disabled' = 0 /\ pc' = "idle" /\ begun' = 0 /\ liveFiles' = {} /\ walLogs' = {}
  BY DEF Thaw, files, EnableFileDeletions, ForgetFiles
<1>2. 0 \in Writes
  BY FreezeAssumption DEF Writes
<1>3. FreezeTypeOK'
  BY ONLY <1>1, <1>2, FreezeTypeOK DEF FreezeTypeOK
<1>4. FilesInv'
  BY <1>1 DEF FilesInv, Covers, InTable, CurrentLog
<1>. QED
  BY <1>1, <1>3, <1>4 DEF BackupInv, ListedKept, BackupComplete

\* A crash ends it too, and the log becomes a table when the database is opened.
LEMMA CrashStep == FreezeInv /\ CrashAndReopen => FreezeInv'
<1> SUFFICES ASSUME FreezeInv, CrashAndReopen PROVE FreezeInv'
  OBVIOUS
<1> USE DEF FreezeInv
<1> DEFINE new == [lo |-> CurrentLog, hi |-> numWrites, id |-> numTables + 1]
<1>1. /\ tables' = live' /\ logs' = {numWrites} /\ numWrites' = numWrites
      /\ disabled' = 0 /\ pc' = "idle" /\ begun' = 0 /\ liveFiles' = {} /\ walLogs' = {}
      /\ crashes < MaxCrashes /\ crashes' = crashes + 1
  BY DEF CrashAndReopen, ForgetFiles
<1>2. /\ CurrentLog \in logs /\ CurrentLog \in Writes /\ CurrentLog \in Nat
      /\ numWrites \in Writes /\ numWrites \in Nat /\ 0 \in Writes /\ CurrentLog <= numWrites
  BY CurrentLogIs, FreezeAssumption DEF FreezeTypeOK, Writes, FilesInv
<1>3. live \subseteq Tables /\ Covers(live, CurrentLog)
  BY DEF FreezeTypeOK, FilesInv
<1>4. live' \subseteq Tables /\ numTables' \in 0..MaxTables /\ Covers(live', numWrites)
  <2>1. CASE CurrentLog = numWrites
    <3>1. live' = live /\ numTables' = numTables
      BY <2>1 DEF CrashAndReopen
    <3>. QED
      BY <1>3, <2>1, <3>1 DEF FreezeTypeOK
  <2>2. CASE CurrentLog # numWrites
    <3>1. live' = live \cup {new} /\ numTables' = numTables + 1 /\ numTables < MaxTables
      BY <2>2 DEF CrashAndReopen
    <3>2. numTables \in 0..MaxTables
      BY DEF FreezeTypeOK
    <3>3. numTables' \in 0..MaxTables /\ numTables + 1 \in 1..MaxTables
      BY <3>1, <3>2, FreezeAssumption
    <3>4. new \in Tables
      BY <1>2, <3>3 DEF Tables
    <3>5. new.lo = CurrentLog /\ new.hi = numWrites
      OBVIOUS
    <3> HIDE DEF new
    <3>6. Covers(live \cup {new}, numWrites)
      BY <1>2, <1>3, <2>2, <3>5, CoversMore
    <3>. QED
      BY <1>3, <3>1, <3>3, <3>4, <3>6
  <2>. QED
    BY <2>1, <2>2
<1>5. FreezeTypeOK'
  <2>1. (crashes \in 0..MaxCrashes)'
    BY <1>1, FreezeAssumption DEF FreezeTypeOK
  <2>. QED
    BY ONLY <1>1, <1>2, <1>4, <2>1, FreezeTypeOK DEF FreezeTypeOK
<1>6. CurrentLog' = numWrites
  <2>1. logs' \subseteq Nat /\ numWrites \in logs' /\ \A l \in logs' : l <= numWrites
    BY <1>1, <1>2
  <2>. QED
    BY <2>1, MaxIs DEF CurrentLog
<1>7. FilesInv'
  <2>1. Covers(live, CurrentLog)'
    BY <1>4, <1>6 DEF Covers, InTable
  <2>. QED
    BY <1>1, <1>2, <2>1 DEF FilesInv
<1>. QED
  BY <1>1, <1>5, <1>7 DEF BackupInv, ListedKept, BackupComplete

\* Every step of the database and of the backup client keeps the invariant.
LEMMA FreezeStep == FreezeInv /\ [FreezeNext]_freezeVars => FreezeInv'
<1>1. FreezeInv /\ UNCHANGED freezeVars => FreezeInv'
  BY DEF freezeVars, files, backup, FreezeInv, FreezeTypeOK, FilesInv, Covers, InTable,
         CurrentLog, BackupInv, ListedKept, BackupComplete, Copied
<1>. QED
  BY <1>1, WriteStep, FlushStep, CompactionStep, DeletionStep, ListingStep, ListedStep,
     ThawStep, CrashStep DEF FreezeNext

\* So the invariant holds in every reachable state.
LEMMA FreezeInvariance == FreezeSpec => []FreezeInv
  BY FreezeInitInv, FreezeStep, PTL DEF FreezeSpec

\* ListedKept for any number of writes, tables, failed freezes and crashes: no
\* file freeze() listed is deleted before thaw().
THEOREM ListedFilesKept == FreezeSpec => []ListedKept
<1>1. FreezeInv => ListedKept
  BY DEF FreezeInv
<1>. QED
  BY <1>1, FreezeInvariance, PTL

\* BackupComplete likewise: the files freeze() lists hold every write made
\* before it, and no write without all the earlier ones, although tables and
\* logs are listed by two calls with flushes and compactions in between.
THEOREM BackupsComplete == FreezeSpec => []BackupComplete
<1>1. FreezeInv => BackupComplete
  BY DEF FreezeInv
<1>. QED
  BY <1>1, FreezeInvariance, PTL
=============================================================================
