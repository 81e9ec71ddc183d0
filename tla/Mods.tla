-------------------------------- MODULE Mods --------------------------------
(***************************************************************************)
(* The mod list of one server (modules/mods/mod-manager.ts, routes/mods.ts)*)
(* and the presets it is filled from.  Every change reads the list, makes  *)
(* another one of it, and rewrites the rows wholesale: what a handler read *)
(* may be old when it writes, and two transactions may overlap, each of    *)
(* which deletes the rows it can see.  The game's own file is written last.*)
(***************************************************************************)
EXTENDS Integers, Sequences, SequencesExt, FiniteSets

CONSTANTS
  Numbers, Guids,  \* mod ids, as a Workshop number or an upper-case GUID
  Raw,             \* ids as they stand in a preset file, of any shape
  Upper,           \* what toUpperCase makes of each of them
  Games,           \* the titles looked at: "arma3", "reforger"
  Orders,          \* orders a request may give
  MaxMods,         \* bound on a list
  Handlers, MaxChanges  \* requests in flight, and the bound on all of them

ASSUME ModsAssumption ==
  /\ Orders \subseteq Nat /\ {MaxMods, MaxChanges} \subseteq Nat
  /\ Upper \in [Raw -> Numbers \cup Guids \cup Raw]

ModIds == Numbers \cup Guids

VARIABLES
  game,      \* the server's title; never changes
  modRows,   \* rows: [mod, order, enabled, by], by the change that wrote it
  modFile,   \* the mods the game's own list names, in its order
  preset,    \* a saved preset: [list, imported]
  editor,    \* handler -> [stage, list, victims, behind, by]
  changes,   \* changes begun
  mixed      \* whether two transactions overlapped (records what happened)

modsVars == <<game, modRows, modFile, preset, editor, changes, mixed>>

Entry(mod, order, enabled) == [mod |-> mod, order |-> order, enabled |-> enabled]
Resting == [stage |-> "none", list |-> <<>>, victims |-> {}, behind |-> {}, by |-> 0]

ModsInit ==
  /\ game \in Games
  /\ modRows = {} /\ modFile = <<>>
  /\ preset = [list |-> <<>>, imported |-> FALSE]
  /\ editor = [h \in Handlers |-> Resting] /\ changes = 0 /\ mixed = FALSE

(* Lists *)

\* The entries of a list that are in a set, in their order.
Among(list, entries) ==
  LET Kept[n \in 0..Len(list)] ==
        IF n = 0 THEN <<>>
        ELSE IF list[n] \in entries THEN Append(Kept[n - 1], list[n]) ELSE Kept[n - 1]
  IN  Kept[Len(list)]

Suits(g, mod) == mod \in (IF g = "arma3" THEN Numbers ELSE Guids)
ValidateModId(mod) == Suits(game, mod)

\* Every id valid, and none twice.
Acceptable(list) ==
  /\ \A i \in DOMAIN list : ValidateModId(list[i].mod)
  /\ \A i, j \in DOMAIN list : list[i].mod = list[j].mod => i = j

\* Sorted by the order given, equal ones as they came.
Sorted(list) ==
  LET rank(i) == Cardinality({j \in DOMAIN list :
                   list[j].order < list[i].order \/ (list[j].order = list[i].order /\ j <= i)})
  IN  [r \in DOMAIN list |-> list[CHOOSE i \in DOMAIN list : rank(i) = r]]

\* Mutated: a sorted list keeps the orders it was given.
NormaliseMut(list) == Sorted(list)
Normalise(list) == LET s == Sorted(list) IN [i \in DOMAIN s |-> [s[i] EXCEPT !.order = i - 1]]

\* The rows in their order; rows of the same order come as the database likes.
ServerModLists ==
  {[i \in DOMAIN s |-> Entry(s[i].mod, s[i].order, s[i].enabled)] :
     s \in {t \in SetToSeqs(modRows) : \A i, j \in DOMAIN t : i < j => t[i].order <= t[j].order}}

(* Presets *)

\* What each format takes for a mod id: the Launcher's links, a config.json, the panel's own export.
Accepts(format) ==
  CASE format = "arma3-html" -> Numbers
    [] format = "reforger-json" -> Guids
    [] format = "asp-json" -> Numbers \cup Guids

\* Mutated: an id that was seen before is taken again.
AddModMut(list, mod) == Append(list, Entry(mod, Len(list), TRUE))
\* Entries with an id that was seen before are left out.
AddMod(list, mod) ==
  IF mod \in {list[i].mod : i \in DOMAIN list} THEN list ELSE Append(list, Entry(mod, Len(list), TRUE))

ParsePreset(format, payload) ==
  LET id(raw) == IF format = "arma3-html" THEN raw ELSE Upper[raw]
      Parsed[n \in 0..Len(payload)] ==
        IF n = 0 THEN <<>>
        ELSE IF id(payload[n]) \in Accepts(format) THEN AddMod(Parsed[n - 1], id(payload[n])) ELSE Parsed[n - 1]
  IN  Parsed[Len(payload)]

\* Only what suits the game is kept, and nothing at all is refused.
Importable == [g \in Games |->
  {LET parsed == ParsePreset(format, payload)
   IN  Among(parsed, {e \in ToSet(parsed) : Suits(g, e.mod)}) :
     format \in {"arma3-html", "reforger-json", "asp-json"}, payload \in BoundedSeq(Raw, MaxMods)} \ {<<>>}]

ImportPreset ==
  /\ \E valid \in Importable[game] : preset' = [list |-> valid, imported |-> TRUE]
  /\ UNCHANGED <<game, modRows, modFile, editor, changes, mixed>>

\* A preset made from a list, which may name a mod twice; or one deleted.
SavePreset ==
  /\ \/ \E mod \in {m \in ModIds : ValidateModId(m)} :
           preset' = [list |-> <<Entry(mod, 0, TRUE), Entry(mod, 1, TRUE)>>, imported |-> FALSE]
     \/ preset' = [list |-> <<>>, imported |-> FALSE]
  /\ UNCHANGED <<game, modRows, modFile, editor, changes, mixed>>

(* Changing the list *)

\* What a request makes of the list it has read: a new one, one mod more or
\* less, another order, another version or switch, or a preset in place of it
\* or after it.
Mods(list) == {list[i].mod : i \in DOMAIN list}
Requested(read) ==
  {<<Entry(m, o, e)>> : m \in ModIds, o \in Orders, e \in BOOLEAN}
  \cup {Append(read, Entry(m, Len(read), TRUE)) : m \in {n \in ModIds \ Mods(read) : ValidateModId(n)}}
  \cup {Among(read, {e \in ToSet(read) : e.mod # m}) : m \in Mods(read)}
  \cup {[i \in DOMAIN read |-> [read[Len(read) + 1 - i] EXCEPT !.order = i - 1]]}
  \cup {[i \in DOMAIN read |-> IF i = k THEN [read[i] EXCEPT !.enabled = ~ read[i].enabled] ELSE read[i]] :
          k \in DOMAIN read}
  \cup {preset.list}
  \cup {read \o [i \in 1..Len(fresh) |-> [fresh[i] EXCEPT !.order = Len(read) + i - 1]] :
          fresh \in {Among(preset.list, {e \in ToSet(preset.list) : e.mod \notin Mods(read)})}}

\* A list with a bad id, or one id twice, is refused before anything is written.
PlanMods(h) ==
  /\ editor[h] = Resting /\ changes < MaxChanges
  /\ \E read \in ServerModLists : \E list \in Requested(read) :
       /\ Len(list) <= MaxMods
       /\ Acceptable(list)
       /\ changes' = changes + 1
       /\ editor' = [editor EXCEPT ![h] =
            [Resting EXCEPT !.stage = "planned", !.list = Normalise(list), !.by = changes']]
  /\ UNCHANGED <<game, modRows, modFile, preset, mixed>>

\* The transaction deletes the rows it can see.  Rows another one is deleting
\* are waited for, and are gone then: what that one inserted is not seen.
DeleteRows(h) ==
  /\ editor[h].stage = "planned"
  /\ editor' = [editor EXCEPT ![h].stage = "deleting", ![h].victims = modRows, ![h].behind =
       {editor[g].by : g \in {f \in Handlers : editor[f].stage = "deleting" /\ editor[f].victims \cap modRows # {}}}]
  /\ mixed' = (mixed \/ \E g \in Handlers : editor[g].stage = "deleting")
  /\ UNCHANGED <<game, modRows, modFile, preset, changes>>

\* The rows of the list come in their place, unless one of its mods has a row by now.
CommitRows(h) ==
  LET left == modRows \ editor[h].victims
      rows == {[mod |-> e.mod, order |-> e.order, enabled |-> e.enabled, by |-> editor[h].by] :
                 e \in ToSet(editor[h].list)}
      clash == \E r \in left : r.mod \in Mods(editor[h].list)
  IN  /\ editor[h].stage = "deleting"
      /\ \A g \in Handlers : editor[g].stage = "deleting" => editor[g].by \notin editor[h].behind
      /\ modRows' = IF clash THEN modRows ELSE left \cup rows
      /\ editor' = [editor EXCEPT ![h] = IF clash THEN Resting ELSE [@ EXCEPT !.stage = "committed"]]
      /\ UNCHANGED <<game, modFile, preset, changes, mixed>>

\* The list is read back, and then the game's own list is written from it.
ReadBack(h) ==
  /\ editor[h].stage = "committed"
  /\ \E list \in ServerModLists :
       editor' = [editor EXCEPT ![h].stage = "written", ![h].list = list]
  /\ UNCHANGED <<game, modRows, modFile, preset, changes, mixed>>

WriteMods(h) ==
  /\ editor[h].stage = "written"
  /\ modFile' = Among(editor[h].list, {e \in ToSet(editor[h].list) : e.enabled})
  /\ editor' = [editor EXCEPT ![h] = Resting]
  /\ UNCHANGED <<game, modRows, preset, changes, mixed>>

ModsNext ==
  \/ ImportPreset \/ SavePreset
  \/ \E h \in Handlers : PlanMods(h) \/ DeleteRows(h) \/ CommitRows(h) \/ ReadBack(h) \/ WriteMods(h)

ModsSpec == ModsInit /\ [][ModsNext]_modsVars

(* Properties *)

OrderTight == {r.order : r \in modRows} = 0..(Cardinality(modRows) - 1)
PresetUsable == preset.imported => Acceptable(preset.list)

\* The load order is 0..n-1, with neither gaps nor ties, whatever orders the
\* requests give and however old the list was that they were made from, so
\* long as no two transactions overlap; and a preset that could be imported is
\* never refused when it is applied (setServerMods, parsePreset).
ModsSound == (~ mixed => OrderTight) /\ PresetUsable

\* "Normalise load order to 0..n-1 so gaps and ties cannot accumulate."
\* (mod-manager.ts)
TiesNeverCome == OrderTight
=============================================================================
