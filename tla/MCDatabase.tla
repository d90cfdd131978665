------------------------------ MODULE MCDatabase ------------------------------
(***************************************************************************)
(* Instances for TLC of what is in the database when a process dies and    *)
(* when the next one starts: its column families, the one-off flags, the   *)
(* backups of freeze(), the transactions of the connections, and the       *)
(* formats of archives, keys and ids.  The models share no state, so a     *)
(* behaviour uses one.                                                     *)
(***************************************************************************)
EXTENDS ColumnFamilies, OneOffFlags, Freeze, TransactionalRedisHandler, KeyEncoding,
        SmyteId, TLC

CONSTANTS c1, c2

ConnectionSymmetry == Permutations({c1, c2})

Shards(start, count, increment) == [start |-> start, count |-> count, increment |-> increment]

\* The name "data" is a group in most configurations, "index" is a single
\* family, "old" has no configurator.
Config(group, old, drop) ==
  [groups |-> [n \in Names \cup Others |->
                 IF n = "data" THEN group ELSE IF n = "old" THEN old ELSE NoGroup],
   drops |-> [n \in Names |-> IF n = "data" THEN drop ELSE NoGroup]]

\* All shards; two that are not neighbours; the last two with the first one to
\* drop; one with the others to drop; an overlap; no group; a group without a
\* configurator, and an empty one.
MCConfigs ==
  {Config(Shards(0, 3, 1), NoGroup, NoGroup),
   Config(Shards(0, 2, 2), NoGroup, NoGroup),
   Config(Shards(1, 2, 1), NoGroup, Shards(0, 1, 1)),
   Config(Shards(1, 1, 1), Shards(0, 0, 1), Shards(0, 2, 2)),
   Config(Shards(0, 2, 1), NoGroup, Shards(1, 2, 1)),
   Config(NoGroup, NoGroup, Shards(0, 3, 1)),
   Config(Shards(1, 2, 1), Shards(0, 1, 1), Shards(0, 1, 1))}

Typed(type, val) == [type |-> type, val |-> val]

\* Bytes of two values: the longest string has three, and one is too long.
MCTyped ==
  {Typed("uint8_t", 1)} \cup {Typed("uint16_t", n) : n \in 0..3}
    \cup {Typed("int64_t", n) : n \in {-128, -1, 0, 5, 127}}
    \cup {Typed("uint64_t", n) : n \in {0, 128, 255}}
    \cup {Typed("string", s) : s \in {<<>>, <<0>>, <<1, 0, 1>>, <<1, 1, 1, 1>>}}
    \cup {Typed("vector", s) : s \in {<<>>, <<<<0, 1>>>>, <<<<1, 0>>, <<1, 1>>, <<0, 0>>>>}}
MCArchives == {<<a>> : a \in MCTyped} \cup {<<a, b>> : a \in MCTyped, b \in MCTyped}

\* Bytes on both sides of the limits, and strings that escaping makes.
MCKeyBytes == {0, 32, 33, 37, 125, 126, 255}
MCKeyParts == {<<>>} \cup {<<a>> : a \in MCKeyBytes} \cup {<<37, 50, 53>>, <<37, 55, 69>>}
MCKeys ==
  [parts : MCKeyParts \X MCKeyParts, id : {0}] \cup [parts : {<<<<>>, <<>>>>}, id : {1, 2, 3, 64, 127}]

\* Two shards, offsets that wrap, and the first, the last and a late millisecond.
MCInputs == [offset : 0..5, timestamp : {10, 11, 13, 14}, shard : 0..1]
-------------------------------------------------------------------------------
VARIABLE model  \* the one a behaviour uses

formats == <<archive, keys, messages>>
everything == <<model, familiesVars, flagsVars, freezeVars, vars, formats>>

\* The value of config before the first start matters only to ColumnFamilies.
MCInit ==
  /\ model \in {"families", "flags", "freeze", "transactions", "archive", "keys", "ids"}
  /\ FamiliesInit /\ FlagsInit /\ FreezeInit /\ Init /\ ArchiveInit /\ KeysInit /\ IdsInit
  /\ model # "families" => config = CHOOSE g \in Configs : TRUE

MCNext ==
  /\ UNCHANGED model
  /\ \/ /\ model = "families" /\ FamiliesNext
        /\ UNCHANGED <<flagsVars, freezeVars, vars, formats>>
     \/ /\ model = "flags" /\ FlagsNext
        /\ UNCHANGED <<familiesVars, freezeVars, vars, formats>>
     \/ /\ model = "freeze" /\ FreezeNext
        /\ UNCHANGED <<familiesVars, flagsVars, vars, formats>>
     \/ /\ model = "transactions" /\ Next
        /\ UNCHANGED <<familiesVars, flagsVars, freezeVars, formats>>
     \/ /\ model = "archive" /\ ArchiveNext
        /\ UNCHANGED <<familiesVars, flagsVars, freezeVars, vars, keys, messages>>
     \/ /\ model = "keys" /\ KeysNext
        /\ UNCHANGED <<familiesVars, flagsVars, freezeVars, vars, archive, messages>>
     \/ /\ model = "ids" /\ IdsNext
        /\ UNCHANGED <<familiesVars, flagsVars, freezeVars, vars, archive, keys>>

MCSpec == MCInit /\ [][MCNext]_everything
===============================================================================
