-------------------------- MODULE OperationsProofs --------------------------
(***************************************************************************)
(* What holds of what runs beside a server, for every set of sessions,     *)
(* paths, uploads and sockets: the players of a tunnel, the files of a     *)
(* server, its console, which implements the log of ConsoleLog, the answer *)
(* to a command, the forwarded ports and the mod list.                     *)
(***************************************************************************)
EXTENDS RelayClient, Files, Console, Rcon, Forwarding, Mods, FiniteSetTheorems, SequenceTheorems, WellFoundedInduction, TLAPS

(***************************************************************************)
(* The players' sockets of a tunnel.                                       *)
(***************************************************************************)
ChannelsTyped ==
  /\ DOMAIN channels = SessionIds
  /\ \A s \in SessionIds : IsFiniteSet(channels[s])

PInv == ChannelsTyped /\ PlayersBounded

\* A tunnel's sockets may change to any number within the bound.
LEMMA ChannelsMove ==
  ASSUME PInv, NEW s \in SessionIds, NEW kept, channels' = [channels EXCEPT ![s] = kept], keeping' = keeping,
         IsFiniteSet(kept), kept # {} => s \in keeping /\ Cardinality(kept) <= MaxPlayers
  PROVE  PInv'
BY DEF PInv, ChannelsTyped, PlayersBounded

\* Taking sockets away keeps the bound.
LEMMA FewerChannels ==
  ASSUME PInv, NEW s \in SessionIds, NEW kept \in SUBSET channels[s], channels' = [channels EXCEPT ![s] = kept],
         keeping' = keeping
  PROVE  PInv'
<1>1. IsFiniteSet(channels[s]) BY DEF PInv, ChannelsTyped
<1>2. IsFiniteSet(kept) /\ Cardinality(kept) <= Cardinality(channels[s]) BY <1>1, FS_Subset
<1>3. Cardinality(kept) \in Nat /\ Cardinality(channels[s]) \in Nat BY <1>1, <1>2, FS_CardinalityType
<1>4. kept # {} => s \in keeping /\ Cardinality(kept) <= MaxPlayers
  BY <1>2, <1>3, RelayClientAssumption DEF PInv, PlayersBounded
<1> QED BY <1>2, <1>4, ChannelsMove

\* Every step of the client keeps the bound.
LEMMA RelayClientStep == PInv /\ [RelayClientNext]_relayClientVars => PInv'
<1> SUFFICES ASSUME PInv, [RelayClientNext]_relayClientVars PROVE PInv' OBVIOUS
<1> USE RelayClientAssumption
<1>1. ASSUME channels' = channels, keeping' = keeping PROVE PInv'
  BY <1>1 DEF PInv, ChannelsTyped, PlayersBounded
<1>2. ASSUME NEW c \in Openers, EstablishDataPlane(c) PROVE PInv'
  <2>1. channels' = channels /\ keeping \subseteq keeping' BY <1>2 DEF EstablishDataPlane
  <2> QED BY <2>1 DEF PInv, ChannelsTyped, PlayersBounded
<1>3. ASSUME NEW s \in SessionIds, PruneClients(s) PROVE PInv'
  <2>1. channels' = [channels EXCEPT ![s] = channels[s] \ idle[s]] /\ keeping' = keeping
    BY <1>3 DEF PruneClients
  <2> QED BY <2>1, FewerChannels
<1>4. ASSUME NEW s \in SessionIds, NEW p \in Players, ForwardPacket(s, p) PROVE PInv'
  <2> DEFINE kept == IF p \notin channels[s] /\ Cardinality(channels[s]) >= MaxPlayers
                     THEN channels[s] \ idle[s] ELSE channels[s]
             room == p \in kept \/ Cardinality(kept) < MaxPlayers
  <2>1. /\ s \in keeping /\ keeping' = keeping
        /\ channels' = [channels EXCEPT ![s] = IF room THEN kept \cup {p} ELSE kept]
    BY <1>4 DEF ForwardPacket
  <2>2. kept \in SUBSET channels[s] OBVIOUS
  <2> HIDE DEF kept
  <2>3. CASE ~room \/ p \in kept
    <3>1. channels' = [channels EXCEPT ![s] = kept]
      <4>1. p \in kept => kept \cup {p} = kept OBVIOUS
      <4> QED BY <2>1, <2>3, <4>1
    <3> QED BY <2>1, <2>2, <3>1, FewerChannels
  <2>4. CASE room /\ p \notin kept
    <3>1. IsFiniteSet(kept) BY <2>2, FS_Subset DEF PInv, ChannelsTyped
    <3>2. IsFiniteSet(kept \cup {p}) /\ Cardinality(kept \cup {p}) = Cardinality(kept) + 1
      BY <2>4, <3>1, FS_AddElement
    <3>3. Cardinality(kept \cup {p}) <= MaxPlayers BY <2>4, <3>1, <3>2, FS_CardinalityType
    <3>4. channels' = [channels EXCEPT ![s] = kept \cup {p}] BY <2>1, <2>4
    <3> QED BY <2>1, <3>2, <3>3, <3>4, ChannelsMove
  <2> QED BY <2>3, <2>4
<1>5. ASSUME NEW s \in SessionIds, NEW p \in Players, CloseChannel(s, p) PROVE PInv'
  <2>1. channels' = [channels EXCEPT ![s] = channels[s] \ {p}] /\ keeping' = keeping
    BY <1>5 DEF CloseChannel
  <2> QED BY <2>1, FewerChannels
<1>6. ASSUME NEW k \in TunnelKeys, CloseRelayTunnel(k) PROVE PInv'
  <2> DEFINE s == tunnelOf[k]
  <2>1. keeping' = keeping \ {s} /\ channels' = [channels EXCEPT ![s] = {}]
    BY <1>6 DEF CloseRelayTunnel, Closed
  <2> HIDE DEF s
  <2>2. \A t \in SessionIds : channels'[t] = IF t = s THEN {} ELSE channels[t]
    BY <2>1 DEF PInv, ChannelsTyped
  <2>3. IsFiniteSet({}) BY FS_EmptySet
  <2> QED BY <2>1, <2>2, <2>3 DEF PInv, ChannelsTyped, PlayersBounded
<1> QED
  BY <1>1, <1>2, <1>3, <1>4, <1>5, <1>6
     DEF RelayClientNext, OpenTunnel, AllocateOnRelay, FallSilent, RelayForgets, relayClientVars

\* No player's socket outlives its tunnel and none has too many of them, for
\* any number of tunnels, sessions and players.
THEOREM PlayersAlwaysBounded == RelayClientSpec => []PlayersBounded
<1>1. RelayClientInit => PInv
  BY FS_EmptySet DEF RelayClientInit, PInv, ChannelsTyped, PlayersBounded
<1>2. PInv => PlayersBounded BY DEF PInv
<1> QED BY <1>1, <1>2, RelayClientStep, PTL DEF RelayClientSpec

(***************************************************************************)
(* The files of a server.                                                  *)
(***************************************************************************)
FilesTyped ==
  /\ opens \in Nat /\ opens <= MaxOpens /\ crashes \in Nat
  /\ names \in [Paths -> 0..opens]
  /\ folders \subseteq Folders /\ spoilt \subseteq Nat
  /\ body \in [FileIds -> {"empty", "part", "whole"}]
  /\ fileOp \in [Uploads -> [stage : {"none", "open", "written", "sized"}, path : Paths, file : 0..opens,
                             kind : {"none", "save", "upload", "download"}, whole : BOOLEAN]]

NamesSound ==
  /\ \A p \in Paths : names[p] # NoFile => p[1] \in folders /\ ResolveWithin(p)
  /\ \A p, q \in Paths : names[p] = names[q] /\ p # q => names[p] = NoFile

Writes(u) == fileOp[u].stage \in {"open", "written"}

\* Whoever writes has a file of its own, which leads nowhere but from the name
\* it was opened under, and knows whether all of it is there.
WritersSound ==
  /\ \A u \in Uploads : Writes(u) => fileOp[u].file # NoFile
  /\ \A u, v \in Uploads : Writes(u) /\ Writes(v) /\ u # v => fileOp[u].file # fileOp[v].file
  /\ \A u \in Uploads, p \in Paths : Writes(u) /\ names[p] = fileOp[u].file => p = fileOp[u].path
  /\ \A u \in Uploads : fileOp[u].stage = "written" /\ fileOp[u].whole => body[fileOp[u].file] = "whole"

\* A file that is not whole has someone who is still writing it, or was left so by a failure.
PartsHaveWriters ==
  \A p \in Paths : names[p] # NoFile =>
    body[names[p]] = "whole" \/ names[p] \in spoilt \/ \E u \in Uploads : Writes(u) /\ fileOp[u].file = names[p]

FInv == FilesTyped /\ NamesSound /\ (~ disturbed /\ crashes = 0 => WritersSound /\ PartsHaveWriters)

\* Opening a file to write, a new one or one that is there, keeps the invariant.
LEMMA OpenForStep ==
  ASSUME FInv, NEW u \in Uploads, fileOp[u] = NoOp, NEW path \in Paths, ResolveWithin(path),
         NEW kind \in {"save", "upload"}, OpenFor(u, path, kind)
  PROVE  FInv'
<1> USE FilesAssumption DEF FInv
<1> DEFINE f == IF names[path] = NoFile THEN opens + 1 ELSE names[path]
           op == [stage |-> "open", path |-> path, file |-> f, kind |-> kind, whole |-> FALSE]
<1>1. /\ opens' = (IF names[path] = NoFile THEN opens + 1 ELSE opens) /\ f \in FileIds
      /\ folders' = folders \cup {path[1]} /\ names' = [names EXCEPT ![path] = f]
      /\ body' = [body EXCEPT ![f] = "empty"] /\ fileOp' = [fileOp EXCEPT ![u] = op] /\ crashes' = crashes
      /\ ~ disturbed' => ~ disturbed /\ Writing(f) = {}
      /\ spoilt' = spoilt \ {f}
  BY DEF OpenFor, WithFolder
<1>2. /\ opens' \in Nat /\ opens <= opens' /\ opens' <= MaxOpens /\ f \in 1..opens'
      /\ \A q \in Paths \ {path} : names[q] # f
  BY <1>1 DEF FilesTyped, FileIds, NamesSound, NoFile
<1>3. op \in [stage : {"none", "open", "written", "sized"}, path : Paths, file : 0..opens',
              kind : {"none", "save", "upload", "download"}, whole : BOOLEAN]
      /\ op.stage = "open" /\ op.path = path /\ op.file = f
  BY <1>2
<1>4. path[1] \in Folders BY DEF ResolveWithin, Folders
<1> HIDE DEF f, op
<1>5. 0..opens \subseteq 0..opens' BY <1>2 DEF FilesTyped
<1>6. FilesTyped'
  <2>1. names' \in [Paths -> 0..opens'] BY <1>1, <1>2, <1>5 DEF FilesTyped
  <2>2. body' \in [FileIds -> {"empty", "part", "whole"}] BY <1>1 DEF FilesTyped
  <2>3. fileOp' \in [Uploads -> [stage : {"none", "open", "written", "sized"}, path : Paths, file : 0..opens',
                                 kind : {"none", "save", "upload", "download"}, whole : BOOLEAN]]
    BY <1>1, <1>3, <1>5 DEF FilesTyped
  <2> QED BY <1>1, <1>2, <1>4, <2>1, <2>2, <2>3 DEF FilesTyped
<1>7. names'[path] = f /\ f # NoFile /\ \A q \in Paths \ {path} : names'[q] = names[q]
  BY <1>1, <1>2 DEF FilesTyped, NoFile
<1>8. NamesSound' BY <1>1, <1>2, <1>7 DEF NamesSound, ResolveWithin
<1>9. ASSUME ~ disturbed', crashes' = 0 PROVE WritersSound' /\ PartsHaveWriters'
  <2>1. WritersSound /\ PartsHaveWriters /\ \A v \in Uploads : Writes(v) => fileOp[v].file # f
    BY <1>1, <1>9 DEF Writing, Writes
  <2>2. /\ fileOp'[u] = op /\ Writes(u)' /\ \A v \in Uploads \ {u} : fileOp'[v] = fileOp[v] /\ Writes(v)' = Writes(v)
        /\ ~ Writes(u)
    BY <1>1, <1>3 DEF FilesTyped, Writes, NoOp
  <2>3. \A g \in FileIds \ {f} : body'[g] = body[g] BY <1>1 DEF FilesTyped
  <2>4. \A v \in Uploads : fileOp[v].file \in 0..opens BY DEF FilesTyped
  <2>5. \A v \in Uploads \ {u} : Writes(v) => fileOp[v].file \in FileIds \ {f}
    BY <2>1, <2>4 DEF WritersSound, FilesTyped, FileIds, NoFile
  <2>6. WritersSound'
    <3>1. \A v \in Uploads : Writes(v)' => fileOp'[v].file # NoFile
      BY <1>3, <1>7, <2>1, <2>2 DEF WritersSound
    <3>2. \A v, w \in Uploads : Writes(v)' /\ Writes(w)' /\ v # w => fileOp'[v].file # fileOp'[w].file
      BY <1>3, <2>1, <2>2 DEF WritersSound
    <3>3. \A v \in Uploads, p \in Paths : Writes(v)' /\ names'[p] = fileOp'[v].file => p = fileOp'[v].path
      <4> SUFFICES ASSUME NEW v \in Uploads, NEW p \in Paths, Writes(v)', names'[p] = fileOp'[v].file
                   PROVE  p = fileOp'[v].path OBVIOUS
      <4>1. CASE v = u BY <4>1, <1>2, <1>3, <1>7, <2>2
      <4>2. CASE v # u BY <4>2, <1>7, <2>1, <2>2 DEF WritersSound
      <4> QED BY <4>1, <4>2
    <3>4. \A v \in Uploads : fileOp'[v].stage = "written" /\ fileOp'[v].whole => body'[fileOp'[v].file] = "whole"
      BY <1>3, <2>1, <2>2, <2>3, <2>5 DEF WritersSound, Writes
    <3> QED BY <3>1, <3>2, <3>3, <3>4 DEF WritersSound
  <2>7. PartsHaveWriters'
    <3> SUFFICES ASSUME NEW p \in Paths, names'[p] # NoFile
                 PROVE  body'[names'[p]] = "whole" \/ names'[p] \in spoilt' \/ \E v \in Uploads : Writes(v)' /\ fileOp'[v].file = names'[p]
      BY DEF PartsHaveWriters
    <3>1. CASE p = path BY <3>1, <1>3, <1>7, <2>2
    <3>2. CASE p # path
      <4>1. names'[p] = names[p] /\ names[p] \in FileIds \ {f}
        BY <3>2, <1>2, <1>7 DEF FilesTyped, FileIds, NoFile
      <4> QED BY <4>1, <1>1, <2>1, <2>2, <2>3 DEF PartsHaveWriters
    <3> QED BY <3>1, <3>2
  <2> QED BY <2>6, <2>7
<1> QED BY <1>6, <1>8, <1>9

\* And so does every other step.
LEMMA FilesStep == FInv /\ [FilesNext]_filesVars => FInv'
<1> SUFFICES ASSUME FInv, [FilesNext]_filesVars PROVE FInv' OBVIOUS
<1> USE FilesAssumption DEF FInv
<1>1. ASSUME NEW u \in Uploads, WriteTextFile(u) \/ UploadFile(u) PROVE FInv'
  BY <1>1, OpenForStep DEF WriteTextFile, UploadFile
<1>2. ASSUME NEW u \in Uploads, Receive(u) PROVE FInv'
  <2>0. PICK left \in {"empty", "part", "whole"} :
          /\ body' = [body EXCEPT ![fileOp[u].file] = left]
          /\ fileOp' = [fileOp EXCEPT ![u].stage = "written", ![u].whole = (left = "whole")]
    BY <1>2 DEF Receive
  <2> DEFINE whole == (left = "whole")
  <2>1. /\ body' = [body EXCEPT ![fileOp[u].file] = left] /\ (whole => left = "whole") /\ whole \in BOOLEAN
        /\ fileOp' = [fileOp EXCEPT ![u].stage = "written", ![u].whole = whole]
    BY <2>0
  <2> HIDE DEF whole
  <2>2. fileOp[u].stage = "open" /\ UNCHANGED <<names, folders, opens, spoilt, disturbed, crashes>> BY <1>2 DEF Receive
  <2>3. FilesTyped'
    <3>1. body' \in [FileIds -> {"empty", "part", "whole"}] BY <2>1 DEF FilesTyped
    <3>2. PICK op : op = [fileOp[u] EXCEPT !.stage = "written", !.whole = whole] OBVIOUS
    <3>3. op \in [stage : {"none", "open", "written", "sized"}, path : Paths, file : 0..opens,
                  kind : {"none", "save", "upload", "download"}, whole : BOOLEAN]
      <4>1. PICK was : was = fileOp[u] OBVIOUS
      <4>2. was \in [stage : {"none", "open", "written", "sized"}, path : Paths, file : 0..opens,
                     kind : {"none", "save", "upload", "download"}, whole : BOOLEAN]
        BY <4>1 DEF FilesTyped
      <4> QED BY <2>1, <3>2, <4>1, <4>2
    <3>4. fileOp' = [fileOp EXCEPT ![u] = op] BY <2>1, <3>2
    <3>5. fileOp' \in [Uploads -> [stage : {"none", "open", "written", "sized"}, path : Paths, file : 0..opens,
                                   kind : {"none", "save", "upload", "download"}, whole : BOOLEAN]]
      BY <3>3, <3>4 DEF FilesTyped
    <3> QED BY <2>2, <3>1, <3>5 DEF FilesTyped
  <2>4. NamesSound' BY <2>2 DEF NamesSound, ResolveWithin
  <2>5. ASSUME ~ disturbed', crashes' = 0 PROVE WritersSound' /\ PartsHaveWriters'
    <3>1. WritersSound /\ PartsHaveWriters BY <2>2, <2>5
    <3>2. /\ fileOp'[u].file = fileOp[u].file /\ fileOp'[u].path = fileOp[u].path /\ fileOp'[u].whole = whole
          /\ Writes(u) /\ Writes(u)'
          /\ \A v \in Uploads \ {u} : fileOp'[v] = fileOp[v] /\ Writes(v)' = Writes(v)
      BY <2>1, <2>2 DEF FilesTyped, Writes
    <3>3. fileOp[u].file \in FileIds
      BY <3>1, <3>2 DEF FilesTyped, WritersSound, FileIds, NoFile
    <3>4. /\ whole => body'[fileOp[u].file] = "whole"
          /\ \A g : g # fileOp[u].file => body'[g] = body[g]
      BY <2>1, <3>3 DEF FilesTyped
    <3>5. WritersSound'
      <4>1. \A v \in Uploads : Writes(v)' => fileOp'[v].file # NoFile BY <3>1, <3>2 DEF WritersSound
      <4>2. \A v, w \in Uploads : Writes(v)' /\ Writes(w)' /\ v # w => fileOp'[v].file # fileOp'[w].file
        BY <3>1, <3>2 DEF WritersSound
      <4>3. \A v \in Uploads, p \in Paths : Writes(v)' /\ names'[p] = fileOp'[v].file => p = fileOp'[v].path
        BY <2>2, <3>1, <3>2 DEF WritersSound
      <4>4. \A v \in Uploads : fileOp'[v].stage = "written" /\ fileOp'[v].whole => body'[fileOp'[v].file] = "whole"
        BY <3>1, <3>2, <3>4 DEF WritersSound, Writes
      <4> QED BY <4>1, <4>2, <4>3, <4>4 DEF WritersSound
    <3>6. PartsHaveWriters' BY <2>2, <3>1, <3>2, <3>4 DEF PartsHaveWriters
    <3> QED BY <3>5, <3>6
  <2> QED BY <2>3, <2>4, <2>5
<1>3. ASSUME NEW u \in Uploads, FinishWrite(u) PROVE FInv'
  <2>0. fileOp[u].path \in Paths /\ fileOp[u].file \in Nat /\ Without({}) = names
    BY DEF FilesTyped, Without
  <2>1. PICK gone \in SUBSET Paths :
          /\ fileOp[u].stage = "written" /\ names' = Without(gone) /\ fileOp' = [fileOp EXCEPT ![u] = NoOp]
          /\ UNCHANGED <<folders, body, opens, disturbed, crashes>>
          /\ spoilt \subseteq spoilt' /\ spoilt' \subseteq spoilt \cup {fileOp[u].file}
          /\ fileOp[u].whole \/ fileOp[u].path \in gone \/ fileOp[u].file \in spoilt'
    <3>1. CASE /\ names' = Without(Removed(fileOp[u]))
               /\ spoilt' = IF fileOp[u].kind = "save" /\ ~ fileOp[u].whole THEN spoilt \cup {fileOp[u].file} ELSE spoilt
      BY <1>3, <2>0, <3>1 DEF FinishWrite, Removed
    <3>2. CASE UNCHANGED names /\ spoilt' = spoilt \cup {fileOp[u].file}
      BY <1>3, <2>0, <3>2 DEF FinishWrite
    <3> QED BY <1>3, <3>1, <3>2 DEF FinishWrite
  <2>2. \A p \in Paths : names'[p] = IF p \in gone THEN NoFile ELSE names[p] BY <2>1 DEF Without
  <2>3. FilesTyped'
    <3>1. NoFile \in 0..opens /\ <<"root", "config">> \in Paths
      BY DEF FilesTyped, NoFile, Paths, Folders, Names
    <3>2. names' \in [Paths -> 0..opens] BY <2>1, <2>2, <3>1 DEF FilesTyped, Without
    <3>3. fileOp' \in [Uploads -> [stage : {"none", "open", "written", "sized"}, path : Paths, file : 0..opens,
                                  kind : {"none", "save", "upload", "download"}, whole : BOOLEAN]]
      BY <2>1, <3>1 DEF FilesTyped, NoOp
    <3>4. spoilt' \subseteq Nat BY <2>0, <2>1 DEF FilesTyped
    <3> QED BY <2>1, <3>2, <3>3, <3>4 DEF FilesTyped
  <2>4. NamesSound'
    <3>1. folders' = folders BY <2>1
    <3>2. \A p \in Paths : names'[p] # NoFile => names'[p] = names[p] BY <2>2
    <3>3. \A p \in Paths : names'[p] # NoFile => p[1] \in folders' /\ ResolveWithin(p)
      BY <3>1, <3>2 DEF NamesSound
    <3>4. \A p, q \in Paths : names'[p] = names'[q] /\ p # q => names'[p] = NoFile
      BY <3>2 DEF NamesSound
    <3> QED BY <3>3, <3>4 DEF NamesSound, ResolveWithin
  <2>5. /\ ~ Writes(u)' /\ fileOp'[u].stage = "none"
        /\ \A v \in Uploads \ {u} : fileOp'[v] = fileOp[v] /\ Writes(v)' = Writes(v)
    BY <2>1 DEF FilesTyped, Writes, NoOp
  <2>6. ASSUME ~ disturbed', crashes' = 0 PROVE WritersSound' /\ PartsHaveWriters'
    <3>1. WritersSound /\ PartsHaveWriters BY <2>1, <2>6
    <3>2. WritersSound'
      <4>1. \A v \in Uploads : Writes(v)' => fileOp'[v].file # NoFile BY <3>1, <2>5 DEF WritersSound
      <4>2. \A v, w \in Uploads : Writes(v)' /\ Writes(w)' /\ v # w => fileOp'[v].file # fileOp'[w].file
        BY <3>1, <2>5 DEF WritersSound
      <4>3. \A v \in Uploads, p \in Paths : Writes(v)' /\ names'[p] = fileOp'[v].file => p = fileOp'[v].path
        BY <2>2, <3>1, <2>5, <4>1 DEF WritersSound
      <4>4. \A v \in Uploads : fileOp'[v].stage = "written" /\ fileOp'[v].whole => body'[fileOp'[v].file] = "whole"
        BY <2>1, <3>1, <2>5 DEF WritersSound
      <4> QED BY <4>1, <4>2, <4>3, <4>4 DEF WritersSound
    <3>3. ASSUME NEW p \in Paths, names'[p] # NoFile
          PROVE  body'[names'[p]] = "whole" \/ names'[p] \in spoilt' \/ \E v \in Uploads : Writes(v)' /\ fileOp'[v].file = names'[p]
      <4>1. names'[p] = names[p] /\ p \notin gone BY <2>2, <3>3
      <4>2. CASE fileOp[u].file = names[p]
        <5>1. fileOp[u].path = p BY <2>1, <3>1, <4>2 DEF WritersSound, Writes
        <5>2. fileOp[u].whole \/ names[p] \in spoilt' BY <2>1, <4>1, <4>2, <5>1
        <5> QED BY <2>1, <3>1, <4>1, <4>2, <5>2 DEF WritersSound
      <4>3. CASE fileOp[u].file # names[p]
        <5>1. body[names[p]] = "whole" \/ names[p] \in spoilt \/ \E v \in Uploads : Writes(v) /\ fileOp[v].file = names[p]
          BY <3>1, <3>3, <4>1 DEF PartsHaveWriters
        <5>2. ASSUME NEW v \in Uploads, Writes(v), fileOp[v].file = names[p]
              PROVE  Writes(v)' /\ fileOp'[v].file = names'[p]
          BY <2>5, <4>1, <4>3, <5>2
        <5> QED BY <2>1, <4>1, <5>1, <5>2
      <4> QED BY <4>2, <4>3
    <3> QED BY <3>2, <3>3 DEF PartsHaveWriters
  <2> QED BY <2>3, <2>4, <2>6
<1>4. ASSUME NEW u \in Uploads, OpenDownloadStream(u) \/ SendStream(u) PROVE FInv'
  <2>1. UNCHANGED <<names, folders, body, opens, spoilt, disturbed, crashes>>
    BY <1>4 DEF OpenDownloadStream, SendStream
  <2>2. PICK op : /\ fileOp' = [fileOp EXCEPT ![u] = op] /\ op.stage \notin {"open", "written"}
                  /\ op \in [stage : {"none", "open", "written", "sized"}, path : Paths, file : 0..opens,
                             kind : {"none", "save", "upload", "download"}, whole : BOOLEAN]
    <3>1. NoOp \in [stage : {"none", "open", "written", "sized"}, path : Paths, file : 0..opens,
                    kind : {"none", "save", "upload", "download"}, whole : BOOLEAN] /\ NoOp.stage = "none"
      BY DEF NoOp, NoFile, Paths, Folders, Names, FilesTyped
    <3>2. CASE OpenDownloadStream(u)
      <4>1. PICK path \in Paths :
              fileOp' = [fileOp EXCEPT ![u] = [NoOp EXCEPT !.stage = "sized", !.path = path, !.kind = "download"]]
        BY <3>2 DEF OpenDownloadStream
      <4> DEFINE op == [NoOp EXCEPT !.stage = "sized", !.path = path, !.kind = "download"]
      <4>2. /\ op \in [stage : {"none", "open", "written", "sized"}, path : Paths, file : 0..opens,
                       kind : {"none", "save", "upload", "download"}, whole : BOOLEAN]
            /\ op.stage = "sized"
        BY <3>1
      <4>3. fileOp' = [fileOp EXCEPT ![u] = op] BY <4>1
      <4> HIDE DEF op
      <4> QED BY <4>2, <4>3
    <3>3. CASE SendStream(u) BY <3>1, <3>3 DEF SendStream
    <3> QED BY <1>4, <3>2, <3>3
  <2>3. ~ Writes(u)
    <3>1. fileOp[u] = NoOp \/ fileOp[u].stage = "sized" BY <1>4 DEF OpenDownloadStream, SendStream
    <3>2. NoOp.stage = "none" BY DEF NoOp
    <3> QED BY <3>1, <3>2 DEF Writes
  <2>4. FilesTyped' BY <2>1, <2>2 DEF FilesTyped
  <2>5. ~ Writes(u)' /\ \A v \in Uploads \ {u} : fileOp'[v] = fileOp[v] /\ Writes(v)' = Writes(v)
    BY <2>2 DEF FilesTyped, Writes
  <2>6. NamesSound' BY <2>1 DEF NamesSound, ResolveWithin
  <2>7. WritersSound => WritersSound' BY <2>1, <2>5 DEF WritersSound, Writes
  <2>8. PartsHaveWriters => PartsHaveWriters' BY <2>1, <2>3, <2>5 DEF PartsHaveWriters
  <2> QED BY <2>1, <2>4, <2>6, <2>7, <2>8
<1>5. CASE CreateDirectory
  BY <1>5 DEF CreateDirectory, FilesTyped, NamesSound, ResolveWithin, WritersSound, PartsHaveWriters, Writes, Folders
<1>6. ASSUME DeletePath \/ \E u \in Uploads : UploadRefused(u) PROVE FInv'
  <2>1. PICK gone \in SUBSET Paths :
          /\ names' = Without(gone) /\ folders' \subseteq Folders
          /\ \A p \in Paths \ gone : p[1] \in folders => p[1] \in folders'
    <3>1. CASE \E path \in Paths : names' = Without({path}) /\ UNCHANGED folders BY <3>1 DEF FilesTyped
    <3>2. CASE names' = Without({p \in Paths : p[1] = "sub"}) /\ folders' = folders \ {"sub"}
      <4>1. folders' \subseteq Folders BY <3>2 DEF FilesTyped
      <4> QED BY <3>2, <4>1
    <3>3. CASE \E u \in Uploads : UploadRefused(u)
      <4>1. PICK u \in Uploads, path \in Paths :
              ResolveWithin(path) /\ folders' = WithFolder(path) /\ names' = Without({path})
        BY <3>3 DEF UploadRefused
      <4> QED BY <4>1 DEF WithFolder, ResolveWithin, FilesTyped, Folders
    <3> QED BY <1>6, <3>1, <3>2, <3>3 DEF DeletePath, FilesTyped
  <2>2. UNCHANGED <<body, fileOp, opens, spoilt, disturbed, crashes>> BY <1>6 DEF DeletePath, UploadRefused
  <2>3. \A p \in Paths : names'[p] = IF p \in gone THEN NoFile ELSE names[p] BY <2>1 DEF Without
  <2>4. FilesTyped' BY <2>1, <2>2 DEF FilesTyped, Without, NoFile
  <2>5. NamesSound' BY <2>1, <2>3 DEF NamesSound, ResolveWithin
  <2>6. WritersSound => WritersSound' BY <2>2, <2>3 DEF WritersSound, Writes
  <2>7. PartsHaveWriters => PartsHaveWriters' BY <2>2, <2>3 DEF PartsHaveWriters, Writes
  <2> QED BY <2>2, <2>4, <2>5, <2>6, <2>7
<1>7. CASE MovePath
  <2>1. PICK from \in Paths, to \in Paths :
          /\ from # to /\ ResolveWithin(to) /\ names[from] # NoFile
          /\ names' = [Without({from}) EXCEPT ![to] = names[from]]
          /\ folders' = folders \cup {to[1]}
          /\ disturbed' = (disturbed \/ Writing(names[from]) # {})
    BY <1>7 DEF MovePath, WithFolder
  <2>2. UNCHANGED <<body, fileOp, opens, spoilt, crashes>> BY <1>7 DEF MovePath
  <2>3. /\ names'[to] = names[from] /\ names'[from] = NoFile
        /\ \A p \in Paths \ {from, to} : names'[p] = names[p]
    BY <2>1 DEF Without
  <2>4. FilesTyped'
    <3>1. names' \in [Paths -> 0..opens] BY <2>1, <2>3 DEF FilesTyped, Without, NoFile
    <3>2. folders' \subseteq Folders BY <2>1 DEF FilesTyped, ResolveWithin, Folders
    <3> QED BY <2>2, <3>1, <3>2 DEF FilesTyped
  <2>5. NamesSound'
    <3>1. \A p \in Paths : names'[p] # NoFile => p[1] \in folders' /\ ResolveWithin(p)
      <4> TAKE p \in Paths
      <4>1. CASE p = to BY <2>1, <4>1
      <4>2. CASE p # to BY <2>1, <2>3, <4>2 DEF NamesSound
      <4> QED BY <4>1, <4>2
    <3>2. \A p, q \in Paths : names'[p] = names'[q] /\ p # q => names'[p] = NoFile
      BY <2>1, <2>3 DEF NamesSound
    <3> QED BY <3>1, <3>2 DEF NamesSound, ResolveWithin
  <2>6. ASSUME ~ disturbed', crashes' = 0 PROVE WritersSound' /\ PartsHaveWriters'
    <3>1. /\ WritersSound /\ PartsHaveWriters
          /\ \A u \in Uploads : Writes(u) => fileOp[u].file # names[from]
      BY <2>1, <2>2, <2>6 DEF Writing, Writes
    <3>2. \A u \in Uploads : Writes(u)' = Writes(u) BY <2>2 DEF Writes
    <3>3. WritersSound' BY <2>2, <2>3, <3>1, <3>2 DEF WritersSound
    <3>4. PartsHaveWriters' BY <2>2, <2>3, <3>1, <3>2 DEF PartsHaveWriters
    <3> QED BY <3>3, <3>4
  <2> QED BY <2>4, <2>5, <2>6
<1>8. CASE PanelCrashes
  <2>1. /\ crashes' = crashes + 1 /\ fileOp' = [u \in Uploads |-> NoOp]
        /\ UNCHANGED <<names, folders, body, opens, spoilt, disturbed>>
    BY <1>8 DEF PanelCrashes
  <2>2. FilesTyped' /\ crashes' # 0 BY <2>1 DEF FilesTyped, NoOp, NoFile, Paths, Folders, Names
  <2>3. NamesSound' BY <2>1 DEF NamesSound, ResolveWithin
  <2> QED BY <2>2, <2>3
<1>9. CASE UNCHANGED filesVars
  BY <1>9 DEF filesVars, FilesTyped, NamesSound, ResolveWithin, WritersSound, PartsHaveWriters, Writes
<1> QED BY <1>1, <1>2, <1>3, <1>4, <1>5, <1>6, <1>7, <1>8, <1>9 DEF FilesNext

\* Names stay inside the server's folder and lead to whole files of their own,
\* for any number of requests.
THEOREM FilesAlwaysWhole == FilesSpec => []FilesWhole
<1>1. FilesInit => FInv
  <2> SUFFICES ASSUME FilesInit PROVE FInv OBVIOUS
  <2>1. FilesTyped BY FilesAssumption DEF FilesInit, FilesTyped, NoOp, NoFile, Paths, Folders, Names
  <2>2. NamesSound BY DEF FilesInit, NamesSound, NoFile
  <2>3. WritersSound /\ PartsHaveWriters
    BY DEF FilesInit, WritersSound, PartsHaveWriters, Writes, NoOp, NoFile
  <2> QED BY <2>1, <2>2, <2>3 DEF FInv
<1>2. FInv => FilesWhole
  BY DEF FInv, NamesSound, PartsHaveWriters, Writes, NoOp, FilesWhole
<1> QED BY <1>1, <1>2, FilesStep, PTL DEF FilesSpec

(***************************************************************************)
(* The console and the page that shows it.  The page's lines are a stretch *)
(* of the log with results among them; the mail of its socket goes on from *)
(* there, or begins with a hello that ends no earlier.                     *)
(***************************************************************************)
\* One more line.
LEMMA LinesGrow ==
  ASSUME NEW a \in Nat, NEW b \in Nat, a <= b
  PROVE  Append(Log!Lines(a + 1, b), b + 1) = Log!Lines(a + 1, b + 1)
<1> DEFINE s == Log!Lines(a + 1, b)
           t == Log!Lines(a + 1, b + 1)
<1>1. s \in Seq(Nat) /\ Len(s) = b - a /\ \A i \in 1..(b - a) : s[i] = a + i
  BY DEF Log!Lines
<1>2. t \in Seq(Nat) /\ Len(t) = b - a + 1 /\ \A i \in 1..(b - a + 1) : t[i] = a + i
  BY DEF Log!Lines
<1> HIDE DEF s, t
<1>3. /\ Append(s, b + 1) \in Seq(Nat) /\ Len(Append(s, b + 1)) = b - a + 1
      /\ \A i \in 1..(b - a) : Append(s, b + 1)[i] = s[i]
      /\ Append(s, b + 1)[b - a + 1] = b + 1
  BY <1>1, AppendProperties
<1>4. ASSUME NEW i \in 1..(b - a + 1) PROVE Append(s, b + 1)[i] = t[i]
  <2>1. CASE i = b - a + 1
    BY <1>2, <1>3, <2>1
  <2>2. CASE i # b - a + 1
    BY <1>1, <1>2, <1>3, <2>2
  <2> QED
    BY <2>1, <2>2
<1>5. Append(s, b + 1) = t
  BY <1>2, <1>3, <1>4, SeqEqual
<1> QED
  BY <1>5 DEF s, t

\* Lines a + 1 to b of the log, in order and each once, among results that are not of the log.
Counts(c, s, a, b) ==
  /\ c \in [0..Len(s) -> Nat] /\ c[0] = a /\ c[Len(s)] = b
  /\ \A i \in 1..Len(s) : IF s[i] = OwnCopy THEN c[i] = c[i - 1]
                          ELSE s[i] = c[i - 1] + 1 /\ c[i] = c[i - 1] + 1

\* The same, of a sequence that has such a count.
Stretch(s, a, b) == s \in Seq(Nat) /\ \E c : Counts(c, s, a, b)

\* A set of numbers has a least one.
LEMMA LeastOf ==
  ASSUME NEW S \in SUBSET Nat, S # {}
  PROVE  \E m \in S : \A n \in S : m <= n
<1>1. \E m \in S : \A n \in S : ~(<<n, m>> \in OpToRel(<, Nat))
  BY WFMin, NatLessThanWellFounded
<1>2. \A m, n \in Nat : ~(<<n, m>> \in OpToRel(<, Nat)) => m <= n
  BY DEF OpToRel
<1> QED
  BY <1>1, <1>2

\* [f] takes the lines of the log from the first n of a sequence, as LogLines does.
Upto(n, f, s) ==
  f = [k \in 0..n |-> IF k = 0 THEN <<>>
                      ELSE IF s[k] = OwnCopy THEN f[k - 1] ELSE Append(f[k - 1], s[k])]

\* What is taken of a sequence is defined: a shortest prefix for which it were not
\* would be one line longer than one for which it is.
LEMMA TakenExists ==
  ASSUME NEW s, NEW n \in Nat
  PROVE  \E f : Upto(n, f, s)
<1> DEFINE Bad == {k \in Nat : ~ \E f : Upto(k, f, s)}
<1>1. SUFFICES ASSUME Bad # {} PROVE FALSE
  BY <1>1 DEF Bad
<1>2. PICK k \in Bad : \A m \in Bad : k <= m
  BY <1>1, LeastOf
<1>3. CASE k = 0
  <2>1. Upto(0, [i \in 0..0 |-> <<>>], s)
    BY DEF Upto
  <2> QED
    BY <1>2, <1>3, <2>1
<1>4. CASE k # 0
  <2>1. k - 1 \in Nat /\ k - 1 \notin Bad /\ k \in Nat
    BY <1>2, <1>4
  <2>2. PICK f : Upto(k - 1, f, s)
    BY <2>1
  <2> DEFINE g == [i \in 0..k |-> IF i = k
                     THEN IF s[k] = OwnCopy THEN f[k - 1] ELSE Append(f[k - 1], s[k]) ELSE f[i]]
  <2>3. \A i \in 0..(k - 1) : g[i] = f[i]
    BY <2>1
  <2>4. ASSUME NEW i \in 0..k
        PROVE  g[i] = IF i = 0 THEN <<>>
                      ELSE IF s[i] = OwnCopy THEN g[i - 1] ELSE Append(g[i - 1], s[i])
    <3>1. CASE i = k
      BY <1>4, <2>1, <2>3, <3>1
    <3>2. CASE i # k
      <4>1. i \in 0..(k - 1) /\ (i # 0 => i - 1 \in 0..(k - 1))
        BY <2>1, <3>2
      <4>2. g[i] = f[i] /\ (i # 0 => g[i - 1] = f[i - 1])
        BY <2>3, <4>1
      <4>3. f[i] = IF i = 0 THEN <<>>
                   ELSE IF s[i] = OwnCopy THEN f[i - 1] ELSE Append(f[i - 1], s[i])
        BY <2>2, <4>1 DEF Upto
      <4> QED
        BY <4>2, <4>3
    <3> QED
      BY <3>1, <3>2
  <2>5. Upto(k, g, s)
    BY <2>4 DEF Upto
  <2> QED
    BY <1>2, <2>1, <2>5
<1> QED
  BY <1>3, <1>4

\* A stretch has its lines, and no others.
LEMMA LogLinesOfStretch ==
  ASSUME NEW s, NEW a, NEW b, Stretch(s, a, b)
  PROVE  a \in Nat /\ b \in Nat /\ a <= b /\ LogLines(s) = Log!Lines(a + 1, b)
<1>1. PICK c : Counts(c, s, a, b)
  BY DEF Stretch
<1>2. s \in Seq(Nat) /\ Len(s) \in Nat
  BY DEF Stretch
<1>3. a \in Nat /\ b \in Nat
  BY <1>1, <1>2 DEF Counts
<1> DEFINE Taken == CHOOSE f : Upto(Len(s), f, s)
<1>4. Upto(Len(s), Taken, s)
  BY <1>2, TakenExists
<1>5. LogLines(s) = Taken[Len(s)]
  BY DEF LogLines, Upto
<1> HIDE DEF Taken
<1> DEFINE Bad == {k \in 0..Len(s) : ~ (a <= c[k] /\ Taken[k] = Log!Lines(a + 1, c[k]))}
<1>6. Bad = {}
  <2> SUFFICES ASSUME Bad # {} PROVE FALSE
    OBVIOUS
  <2>1. Bad \in SUBSET Nat
    BY <1>2
  <2>2. PICK k \in Bad : \A m \in Bad : k <= m
    BY <2>1, LeastOf
  <2>3. CASE k = 0
    <3>1. Taken[0] = <<>> /\ c[0] = a
      BY <1>1, <1>2, <1>4 DEF Upto, Counts
    <3>2. Log!Lines(a + 1, a) = <<>>
      BY <1>3 DEF Log!Lines
    <3> QED
      BY <1>3, <2>2, <2>3, <3>1, <3>2
  <2>4. CASE k # 0
    <3>1. k - 1 \in 0..Len(s) /\ k \in 1..Len(s) /\ k - 1 \notin Bad /\ k \in 0..Len(s)
      BY <1>2, <2>2, <2>4
    <3>2. /\ a <= c[k - 1] /\ Taken[k - 1] = Log!Lines(a + 1, c[k - 1])
          /\ c[k - 1] \in Nat
      BY <1>1, <3>1 DEF Counts
    <3>3. Taken[k] = IF s[k] = OwnCopy THEN Taken[k - 1] ELSE Append(Taken[k - 1], s[k])
      BY <1>4, <2>4, <3>1 DEF Upto
    <3>4. CASE s[k] = OwnCopy
      BY <1>1, <2>2, <3>1, <3>2, <3>3, <3>4 DEF Counts
    <3>5. CASE s[k] # OwnCopy
      <4>1. s[k] = c[k - 1] + 1 /\ c[k] = c[k - 1] + 1
        BY <1>1, <3>1, <3>5 DEF Counts
      <4>2. Append(Log!Lines(a + 1, c[k - 1]), c[k - 1] + 1) = Log!Lines(a + 1, c[k - 1] + 1)
        BY <1>3, <3>2, LinesGrow
      <4>3. Taken[k] = Append(Taken[k - 1], s[k])
        BY <3>3, <3>5
      <4>4. Taken[k] = Append(Log!Lines(a + 1, c[k - 1]), c[k - 1] + 1)
        BY <3>2, <4>1, <4>3
      <4>5. a <= c[k] /\ Taken[k] = Log!Lines(a + 1, c[k])
        BY <1>3, <3>2, <4>1, <4>2, <4>4
      <4> QED
        BY <2>2, <3>1, <4>5
    <3> QED
      BY <3>4, <3>5
  <2> QED
    BY <2>3, <2>4
<1>7. Len(s) \notin Bad /\ Len(s) \in 0..Len(s)
  BY <1>2, <1>6
<1> QED
  BY <1>1, <1>3, <1>5, <1>7 DEF Counts

\* No lines are a stretch that ends where it begins.
LEMMA StretchEmpty ==
  ASSUME NEW a \in Nat
  PROVE  Stretch(<<>>, a, a)
<1>1. Counts([i \in 0..0 |-> a], <<>>, a, a)
  BY DEF Counts
<1> QED
  BY <1>1 DEF Stretch

\* The next line, or a result, is put behind a stretch.
LEMMA StretchGrows ==
  ASSUME NEW s, NEW a, NEW b, Stretch(s, a, b)
  PROVE  /\ Stretch(s \o <<b + 1>>, a, b + 1)
         /\ Stretch(s \o <<OwnCopy>>, a, b)
         /\ Stretch(Append(s, b + 1), a, b + 1)
<1>1. PICK c : Counts(c, s, a, b)
  BY DEF Stretch
<1>2. s \in Seq(Nat) /\ Len(s) \in Nat /\ a \in Nat /\ b \in Nat
  BY <1>1, LenProperties DEF Stretch, Counts
<1>3. ASSUME NEW l \in Nat, NEW e \in Nat,
             \/ l = OwnCopy /\ e = b
             \/ l = b + 1 /\ e = b + 1
      PROVE  Stretch(s \o <<l>>, a, e)
  <2> DEFINE t == s \o <<l>>
             d == [i \in 0..(Len(s) + 1) |-> IF i = Len(s) + 1 THEN e ELSE c[i]]
  <2>0. <<l>> \in Seq(Nat) /\ Len(<<l>>) = 1 /\ <<l>>[1] = l
    OBVIOUS
  <2>1. /\ t \in Seq(Nat) /\ Len(t) = Len(s) + 1
        /\ \A i \in 1..Len(s) : t[i] = s[i]
        /\ t[Len(s) + 1] = l
    BY <1>2, <2>0, ConcatProperties
  <2> HIDE DEF t
  <2>2. d \in [0..Len(t) -> Nat] /\ d[0] = a /\ d[Len(t)] = e
    BY <1>1, <1>2, <2>1 DEF Counts
  <2>3. ASSUME NEW i \in 1..Len(t)
        PROVE  IF t[i] = OwnCopy THEN d[i] = d[i - 1]
               ELSE t[i] = d[i - 1] + 1 /\ d[i] = d[i - 1] + 1
    <3>1. CASE i = Len(s) + 1
      <4>1. d[i] = e /\ d[i - 1] = b /\ t[i] = l
        BY <1>1, <1>2, <2>1, <3>1 DEF Counts
      <4> QED
        BY <1>2, <1>3, <4>1 DEF OwnCopy
    <3>2. CASE i # Len(s) + 1
      <4>1. i \in 1..Len(s) /\ i - 1 \in 0..Len(s) /\ d[i] = c[i] /\ d[i - 1] = c[i - 1] /\ t[i] = s[i]
        BY <1>2, <2>1, <2>3, <3>2
      <4> QED
        BY <1>1, <4>1 DEF Counts
    <3> QED
      BY <3>1, <3>2
  <2>4. Counts(d, t, a, e)
    BY <2>2, <2>3 DEF Counts
  <2> QED
    BY <2>1, <2>4 DEF Stretch, t
<1>4. Append(s, b + 1) = s \o <<b + 1>>
  BY <1>2, AppendIsConcat
<1>5. Stretch(s \o <<b + 1>>, a, b + 1)
  <2>1. b + 1 \in Nat
    BY <1>2
  <2> QED
    BY <1>2, <1>3, <2>1
<1>6. Stretch(s \o <<OwnCopy>>, a, b)
  <2>1. OwnCopy \in Nat
    BY DEF OwnCopy
  <2> QED
    BY <1>2, <1>3, <2>1
<1> QED
  BY <1>4, <1>5, <1>6

\* The last lines of a stretch end where it ends.
LEMMA StretchEnds ==
  ASSUME NEW s, NEW a, NEW b, Stretch(s, a, b), NEW n \in Nat \ {0}
  PROVE  \E a2 : Stretch(LastOf(s, n), a2, b)
<1>1. PICK c : Counts(c, s, a, b)
  BY DEF Stretch
<1>2. s \in Seq(Nat) /\ Len(s) \in Nat /\ a \in Nat /\ b \in Nat
  BY <1>1, LenProperties DEF Stretch, Counts
<1>3. CASE Len(s) <= n
  BY <1>3 DEF LastOf
<1>4. CASE ~ (Len(s) <= n)
  <2> DEFINE k == Len(s) - n
             t == SubSeq(s, k + 1, Len(s))
             d == [i \in 0..n |-> c[k + i]]
  <2>1. LastOf(s, n) = t
    BY <1>4 DEF LastOf
  <2>2. k \in Nat /\ k + n = Len(s) /\ k + 1 \in Nat
    BY <1>2, <1>4
  <2> HIDE DEF k
  <2>3. \A i \in (k + 1)..Len(s) : s[i] \in Nat
    <3>1. \A i \in 1..Len(s) : s[i] \in Nat
      BY <1>2, ElementOfSeq
    <3> QED
      BY <1>2, <2>2, <3>1
  <2>4. t \in Seq(Nat) /\ Len(t) = n /\ \A i \in 1..n : t[i] = s[k + i]
    <3>1. /\ t \in Seq(Nat)
          /\ Len(t) = IF k + 1 <= Len(s) THEN Len(s) - (k + 1) + 1 ELSE 0
          /\ \A i \in 1 .. Len(s) - (k + 1) + 1 : t[i] = s[k + 1 + i - 1]
      BY <1>2, <2>2, <2>3, SubSeqProperties
    <3> HIDE DEF t
    <3>2. k + 1 <= Len(s) /\ Len(s) - (k + 1) + 1 = n
      BY <1>2, <2>2
    <3>3. \A i \in 1..n : k + 1 + i - 1 = k + i
      BY <2>2
    <3> QED
      BY <3>1, <3>2, <3>3
  <2> HIDE DEF t
  <2>5. \A i \in 0..n : k + i \in 0..Len(s) /\ c[k + i] \in Nat
    <3> TAKE i \in 0..n
    <3>1. n \in Nat /\ i \in Nat /\ i <= n
      OBVIOUS
    <3>2. k + i \in 0..Len(s)
      BY <1>2, <2>2, <3>1
    <3> QED
      BY <1>1, <3>2 DEF Counts
  <2> HIDE DEF k
  <2>6. d \in [0..Len(t) -> Nat] /\ d[0] = c[k] /\ d[Len(t)] = b
    <3>1. k + 0 = k /\ 0 \in 0..n /\ n \in 0..n
      BY <2>2
    <3>2. d[0] = c[k] /\ d[n] = c[k + n]
      BY <3>1
    <3>3. d \in [0..n -> Nat]
      BY <2>5
    <3> QED
      BY <1>1, <2>2, <2>4, <3>2, <3>3 DEF Counts
  <2>7. ASSUME NEW i \in 1..Len(t)
        PROVE  IF t[i] = OwnCopy THEN d[i] = d[i - 1]
               ELSE t[i] = d[i - 1] + 1 /\ d[i] = d[i - 1] + 1
    <3>0. n \in Nat /\ i \in 1..n /\ i \in 0..n /\ i - 1 \in 0..n
      BY <2>4
    <3>1. /\ k + i \in 1..Len(s) /\ k + (i - 1) = (k + i) - 1 /\ t[i] = s[k + i]
          /\ d[i] = c[k + i] /\ d[i - 1] = c[(k + i) - 1]
      <4>1. k + i \in 1..Len(s) /\ k + (i - 1) = (k + i) - 1
        BY <1>2, <2>2, <3>0
      <4>2. d[i] = c[k + i] /\ d[i - 1] = c[k + (i - 1)]
        BY <3>0
      <4> QED
        BY <2>4, <3>0, <4>1, <4>2
    <3> QED
      BY <1>1, <3>1 DEF Counts
  <2>8. Counts(d, t, c[k], b)
    BY <2>6, <2>7 DEF Counts
  <2> QED
    BY <2>1, <2>4, <2>8 DEF Stretch
<1> QED
  BY <1>3, <1>4

\* The stages of a socket, and what is sent on one.
Stages == {"none", "asked", "open", "leaving", "broken", "denied"}
Messages == [type : {"hello", "line", "result"}, run : AllRuns, lines : Seq(Nat)]
LineOf(r, n) == [type |-> "line", run |-> r, lines |-> <<n>>]
ResultOf(r) == [type |-> "result", run |-> r, lines |-> <<OwnCopy>>]

\* Messages with lines e + 1 to e2 of run r, in order and each once, and results.
Numbered(c, m, r, e, e2) ==
  /\ c \in [0..Len(m) -> Nat] /\ c[0] = e /\ c[Len(m)] = e2
  /\ \A i \in 1..Len(m) :
       \/ m[i].type = "result" /\ m[i].lines = <<OwnCopy>> /\ c[i] = c[i - 1]
       \/ /\ m[i].type = "line" /\ m[i].run = r /\ m[i].lines = <<c[i - 1] + 1>>
          /\ c[i] = c[i - 1] + 1

\* The same, of a sequence that has such a numbering.
Follows(m, r, e, e2) == m \in Seq(Messages) /\ \E c : Numbered(c, m, r, e, e2)

\* No messages go on from any line, and end there.
LEMMA FollowsNothing ==
  ASSUME NEW r, NEW e \in Nat
  PROVE  Follows(<<>>, r, e, e)
<1>1. Numbered([i \in 0..0 |-> e], <<>>, r, e, e)
  BY DEF Numbered
<1> QED
  BY <1>1 DEF Follows

\* A result, or the next line, is put behind such messages.
LEMMA FollowsOneMore ==
  ASSUME NEW m, NEW r \in AllRuns, NEW e, NEW e2, Follows(m, r, e, e2), NEW x \in Messages, NEW b \in Nat,
         \/ x.type = "result" /\ x.lines = <<OwnCopy>> /\ b = e2
         \/ x.type = "line" /\ x.run = r /\ x.lines = <<e2 + 1>> /\ b = e2 + 1
  PROVE  Follows(m \o <<x>>, r, e, b)
<1>1. PICK c : Numbered(c, m, r, e, e2)
  BY DEF Follows
<1>2. m \in Seq(Messages) /\ Len(m) \in Nat /\ e \in Nat /\ e2 \in Nat
  BY <1>1, LenProperties DEF Follows, Numbered
<1> DEFINE t == m \o <<x>>
           d == [i \in 0..(Len(m) + 1) |-> IF i = Len(m) + 1 THEN b ELSE c[i]]
<1>3. <<x>> \in Seq(Messages) /\ Len(<<x>>) = 1 /\ <<x>>[1] = x
  OBVIOUS
<1>4. /\ t \in Seq(Messages) /\ Len(t) = Len(m) + 1
      /\ \A i \in 1..Len(m) : t[i] = m[i]
      /\ t[Len(m) + 1] = x
  BY <1>2, <1>3, ConcatProperties
<1> HIDE DEF t
<1>5. d \in [0..Len(t) -> Nat] /\ d[0] = e /\ d[Len(t)] = b
  BY <1>1, <1>2, <1>4 DEF Numbered
<1>6. ASSUME NEW i \in 1..Len(t)
      PROVE  \/ t[i].type = "result" /\ t[i].lines = <<OwnCopy>> /\ d[i] = d[i - 1]
             \/ /\ t[i].type = "line" /\ t[i].run = r /\ t[i].lines = <<d[i - 1] + 1>>
                /\ d[i] = d[i - 1] + 1
  <2>1. CASE i = Len(m) + 1
    <3>1. d[i] = b /\ d[i - 1] = e2 /\ t[i] = x
      BY <1>1, <1>2, <1>4, <2>1 DEF Numbered
    <3> QED
      BY <3>1
  <2>2. CASE i # Len(m) + 1
    <3>1. i \in 1..Len(m) /\ d[i] = c[i] /\ d[i - 1] = c[i - 1] /\ t[i] = m[i]
      BY <1>2, <1>4, <1>6, <2>2
    <3> QED
      BY <1>1, <3>1 DEF Numbered
  <2> QED
    BY <2>1, <2>2
<1>7. Numbered(d, t, r, e, b)
  BY <1>5, <1>6 DEF Numbered
<1> QED
  BY <1>4, <1>7 DEF Follows, t

\* The first of such messages is a result, or the next line; the rest goes on from there.
LEMMA FollowsOneLess ==
  ASSUME NEW m, NEW r, NEW e, NEW e2, Follows(m, r, e, e2), m # <<>>
  PROVE  /\ Head(m) \in Messages
         /\ \/ Head(m).type = "result" /\ Head(m).lines = <<OwnCopy>> /\ Follows(Tail(m), r, e, e2)
            \/ /\ Head(m).type = "line" /\ Head(m).run = r /\ Head(m).lines = <<e + 1>>
               /\ Follows(Tail(m), r, e + 1, e2)
<1>1. PICK c : Numbered(c, m, r, e, e2)
  BY DEF Follows
<1>2. m \in Seq(Messages) /\ Len(m) \in Nat \ {0} /\ e \in Nat /\ e2 \in Nat
  BY <1>1, LenProperties, EmptySeq DEF Follows, Numbered
<1> DEFINE t == Tail(m)
           d == [i \in 0..(Len(m) - 1) |-> c[i + 1]]
<1>3. Head(m) = m[1] /\ Head(m) \in Messages
  BY <1>2, ElementOfSeq
<1>4. t \in Seq(Messages) /\ Len(t) = Len(m) - 1 /\ \A i \in 1..Len(t) : t[i] = m[i + 1]
  BY <1>2, HeadTailProperties
<1> HIDE DEF t
<1>5. d \in [0..Len(t) -> Nat] /\ d[0] = c[1] /\ d[Len(t)] = e2
  BY <1>1, <1>2, <1>4 DEF Numbered
<1>6. ASSUME NEW i \in 1..Len(t)
      PROVE  \/ t[i].type = "result" /\ t[i].lines = <<OwnCopy>> /\ d[i] = d[i - 1]
             \/ /\ t[i].type = "line" /\ t[i].run = r /\ t[i].lines = <<d[i - 1] + 1>>
                /\ d[i] = d[i - 1] + 1
  <2>1. /\ i + 1 \in 1..Len(m) /\ (i + 1) - 1 = i /\ t[i] = m[i + 1]
        /\ d[i] = c[i + 1] /\ d[i - 1] = c[(i + 1) - 1]
    BY <1>2, <1>4, <1>6
  <2> QED
    BY <1>1, <2>1 DEF Numbered
<1>7. Numbered(d, t, r, c[1], e2)
  BY <1>5, <1>6 DEF Numbered
<1>8. \/ m[1].type = "result" /\ m[1].lines = <<OwnCopy>> /\ c[1] = e
      \/ m[1].type = "line" /\ m[1].run = r /\ m[1].lines = <<e + 1>> /\ c[1] = e + 1
  <2>1. 1 \in 1..Len(m) /\ 1 - 1 = 0
    BY <1>2
  <2> QED
    BY <1>1, <2>1 DEF Numbered
<1>9. Follows(t, r, c[1], e2)
  BY <1>4, <1>7 DEF Follows
<1> QED
  BY <1>3, <1>8, <1>9 DEF t

\* What such messages begin and end with are line numbers.
LEMMA FollowsEnd ==
  ASSUME NEW m, NEW r, NEW e, NEW e2, Follows(m, r, e, e2)
  PROVE  m \in Seq(Messages) /\ e \in Nat /\ e2 \in Nat
<1>1. PICK c : Numbered(c, m, r, e, e2)
  BY DEF Follows
<1> QED
  BY <1>1, LenProperties DEF Follows, Numbered

\* The messages number their lines upwards.
LEMMA FollowsGrows ==
  ASSUME NEW m, NEW r, NEW e, NEW e2, Follows(m, r, e, e2)
  PROVE  e <= e2
<1>1. PICK c : Numbered(c, m, r, e, e2)
  BY DEF Follows
<1>2. m \in Seq(Messages) /\ Len(m) \in Nat /\ e \in Nat /\ e2 \in Nat
  BY FollowsEnd, LenProperties
<1> DEFINE Bad == {k \in 0..Len(m) : ~ (e <= c[k])}
<1>3. Bad = {}
  <2> SUFFICES ASSUME Bad # {} PROVE FALSE
    OBVIOUS
  <2>1. PICK k \in Bad : \A n \in Bad : k <= n
    <3>1. Bad \in SUBSET Nat
      BY <1>2
    <3> QED
      BY <3>1, LeastOf
  <2>2. k \in 0..Len(m) /\ ~ (e <= c[k])
    OBVIOUS
  <2>3. k # 0
    BY <1>1, <1>2, <2>2 DEF Numbered
  <2>4. k \in 1..Len(m) /\ k - 1 \in 0..Len(m) /\ ~ (k <= k - 1)
    BY <1>2, <2>2, <2>3
  <2>5. e <= c[k - 1]
    BY <2>1, <2>4
  <2>6. c[k - 1] \in Nat /\ c[k] \in Nat /\ (c[k] = c[k - 1] \/ c[k] = c[k - 1] + 1)
    BY <1>1, <2>4 DEF Numbered
  <2> QED
    BY <1>2, <2>2, <2>5, <2>6
<1>4. Len(m) \notin Bad /\ Len(m) \in 0..Len(m)
  BY <1>2, <1>3
<1> QED
  BY <1>1, <1>4 DEF Numbered

\* What appending does to the mail of an open socket: the line, if the socket
\* subscribes, and a result, if it asked.
LEMMA FollowsMore ==
  ASSUME NEW m, NEW r \in AllRuns, NEW e, NEW e2, Follows(m, r, e, e2),
         NEW l, l = <<>> \/ l = <<LineOf(r, e2 + 1)>>,
         NEW f, f = <<>> \/ \E x \in AllRuns : f = <<ResultOf(x)>>
  PROVE  Follows((m \o l) \o f, r, e, IF l = <<>> THEN e2 ELSE e2 + 1)
<1> DEFINE b == IF l = <<>> THEN e2 ELSE e2 + 1
<1>1. m \in Seq(Messages) /\ e2 \in Nat
  BY FollowsEnd
<1>2. Follows(m \o l, r, e, b)
  <2>1. CASE l = <<>>
    <3>1. m \o l = m
      BY <1>1, <2>1, ConcatEmptySeq
    <3> QED
      BY <2>1, <3>1
  <2>2. CASE l = <<LineOf(r, e2 + 1)>>
    <3>1. LineOf(r, e2 + 1) \in Messages
      BY <1>1 DEF LineOf, Messages
    <3>2. l # <<>> /\ b = e2 + 1 /\ b \in Nat
      BY <1>1, <2>2
    <3>3. /\ LineOf(r, e2 + 1).type = "line" /\ LineOf(r, e2 + 1).run = r
          /\ LineOf(r, e2 + 1).lines = <<e2 + 1>>
      BY DEF LineOf
    <3> QED
      BY <2>2, <3>1, <3>2, <3>3, FollowsOneMore
  <2> QED
    BY <2>1, <2>2
<1> HIDE DEF b
<1>3. Follows((m \o l) \o f, r, e, b)
  <2>1. m \o l \in Seq(Messages) /\ b \in Nat
    BY <1>2, FollowsEnd
  <2>2. CASE f = <<>>
    <3>1. (m \o l) \o f = m \o l
      BY <2>1, <2>2, ConcatEmptySeq
    <3> QED
      BY <1>2, <3>1
  <2>3. CASE \E x \in AllRuns : f = <<ResultOf(x)>>
    <3>1. PICK x \in AllRuns : f = <<ResultOf(x)>>
      BY <2>3
    <3>2. ResultOf(x) \in Messages
      BY DEF ResultOf, Messages, OwnCopy
    <3>3. ResultOf(x).type = "result" /\ ResultOf(x).lines = <<OwnCopy>>
      BY DEF ResultOf
    <3>4. Follows((m \o l) \o <<ResultOf(x)>>, r, e, b)
      BY <1>2, <2>1, <3>2, <3>3, FollowsOneMore
    <3> QED
      BY <3>1, <3>4
  <2> QED
    BY <2>2, <2>3
<1> QED
  BY <1>3 DEF b

\* Behind a first message more is put behind the rest.
LEMMA TailOfMore ==
  ASSUME NEW S, NEW m \in Seq(S), m # <<>>, NEW l \in Seq(S)
  PROVE  m \o l # <<>> /\ Head(m \o l) = Head(m) /\ Tail(m \o l) = Tail(m) \o l
<1> DEFINE t == m \o l
           u == Tail(m)
           v == Tail(t)
           w == u \o l
<1>1. Len(m) \in Nat \ {0} /\ Len(l) \in Nat
  BY LenProperties, EmptySeq
<1>2. /\ t \in Seq(S) /\ Len(t) = Len(m) + Len(l)
      /\ \A i \in 1..(Len(m) + Len(l)) : t[i] = IF i <= Len(m) THEN m[i] ELSE l[i - Len(m)]
  BY ConcatProperties
<1> HIDE DEF t
<1>3. t # <<>> /\ Head(t) = t[1] /\ Head(m) = m[1]
  BY <1>1, <1>2, LenProperties, EmptySeq
<1>4. u \in Seq(S) /\ Len(u) = Len(m) - 1 /\ \A i \in 1..Len(u) : u[i] = m[i + 1]
  BY HeadTailProperties
<1>5. v \in Seq(S) /\ Len(v) = Len(t) - 1 /\ \A i \in 1..Len(v) : v[i] = t[i + 1]
  BY <1>2, <1>3, HeadTailProperties
<1>6. /\ w \in Seq(S) /\ Len(w) = Len(u) + Len(l)
      /\ \A i \in 1..(Len(u) + Len(l)) : w[i] = IF i <= Len(u) THEN u[i] ELSE l[i - Len(u)]
  <2> HIDE DEF u
  <2> QED
    BY <1>4, ConcatProperties
<1> HIDE DEF u, v
<1> HIDE DEF w
<1>7. ASSUME NEW i \in 1..Len(v) PROVE v[i] = w[i]
  <2>1. i + 1 \in 1..(Len(m) + Len(l)) /\ i \in 1..(Len(u) + Len(l)) /\ i \in Nat /\ Len(u) \in Nat
    BY <1>1, <1>2, <1>4, <1>5
  <2>2. /\ v[i] = IF i + 1 <= Len(m) THEN m[i + 1] ELSE l[(i + 1) - Len(m)]
        /\ w[i] = IF i <= Len(u) THEN u[i] ELSE l[i - Len(u)]
    BY <1>2, <1>5, <1>6, <2>1
  <2>3. CASE i <= Len(u)
    <3>1. i \in 1..Len(u) /\ i + 1 <= Len(m)
      BY <1>1, <1>4, <2>1, <2>3
    <3> QED
      BY <1>4, <2>2, <2>3, <3>1
  <2>4. CASE ~ (i <= Len(u))
    <3>1. ~ (i + 1 <= Len(m)) /\ (i + 1) - Len(m) = i - Len(u)
      BY <1>1, <1>4, <2>1, <2>4
    <3> QED
      BY <2>2, <2>4, <3>1
  <2> QED
    BY <2>3, <2>4
<1>8. v = w
  <2>1. Len(v) = Len(w)
    BY <1>1, <1>2, <1>4, <1>5, <1>6
  <2> QED
    BY <1>5, <1>6, <1>7, <2>1, SeqEqual
<1>9. 1 \in 1..Len(m)
  BY <1>1
<1> QED
  BY <1>2, <1>3, <1>8, <1>9 DEF t, u, v, w

\* The types of the console's state.
CTyped ==
  /\ written \in [AllRuns -> Nat] /\ run \in AllRuns
  /\ subscribers \subseteq Sockets
  /\ link \in [Sockets -> [stage : Stages, mail : Seq(Messages)]]
  /\ current \in Sockets \cup {NoSocket}

\* A run that has not begun has no lines, and the lines kept are the last ones of the present run.
BufferSound ==
  /\ \A r \in AllRuns : r > run => written[r] = 0
  /\ \E a : Stretch(buffer, a, written[run])

\* Who subscribes is connected, and the page's own socket was not left.
SocketsSound ==
  /\ \A s \in subscribers : link[s].stage \in {"open", "leaving"}
  /\ \A s \in Sockets : s = current => link[s].stage \in {"asked", "open", "broken", "denied"}

\* Up to which line the mail of a socket goes: as far as the log, if it subscribes.
Reaches(s, r, e2) ==
  /\ e2 <= written[r]
  /\ s \in subscribers => r = run /\ e2 = written[run]

\* The mail of a socket that has read up to line e of run r: either it goes on
\* from there, or there is a hello first, that ends no earlier.
GoesOn(s, r, e) == \E e2 : Follows(link[s].mail, r, e, e2) /\ Reaches(s, r, e2)

Begins(s, r, e) ==
  /\ link[s].mail # <<>>
  /\ \E h \in Messages : \E a2, b2, e2 :
       /\ h = Head(link[s].mail) /\ h.type = "hello"
       /\ r <= h.run /\ h.run <= run /\ (h.run = r => e <= b2)
       /\ Stretch(h.lines, a2, b2)
       /\ Follows(Tail(link[s].mail), h.run, b2, e2) /\ Reaches(s, h.run, e2)

\* The page shows a stretch of a run that has been written, and what comes fits to it.
PageSound ==
  \E r \in AllRuns : \E a, e, x :
    /\ shown = [run |-> r, lines |-> x] /\ Stretch(x, a, e)
    /\ r <= run /\ e <= written[r]
    /\ \A s \in Sockets : s = current => GoesOn(s, r, e) \/ Begins(s, r, e)

\* The inductive invariant of the console.
CInv == CTyped /\ BufferSound /\ SocketsSound /\ PageSound

\* The console begins with an empty log and an empty page.
LEMMA CInvHolds ==
  ASSUME ConsoleInit
  PROVE  CInv
<1>1. 0 \in AllRuns /\ AllRuns \subseteq Nat
  BY ConsoleAssumption DEF AllRuns
<1>2. Stretch(<<>>, 0, 0)
  BY StretchEmpty
<1>3. CTyped
  <2>1. <<>> \in Seq(Messages)
    OBVIOUS
  <2> QED
    BY <1>1, <2>1 DEF ConsoleInit, CTyped, Unused, Stages
<1>4. BufferSound
  BY <1>1, <1>2 DEF ConsoleInit, BufferSound
<1>5. SocketsSound
  BY ConsoleAssumption DEF ConsoleInit, SocketsSound
<1>6. PageSound
  BY <1>1, <1>2, ConsoleAssumption DEF ConsoleInit, PageSound
<1> QED
  BY <1>3, <1>4, <1>5, <1>6 DEF CInv

\* Nothing that matters to a socket has changed: its mail is the same, and what
\* it has read is still behind the log.
LEMMA MailKept ==
  ASSUME CTyped, CTyped', NEW s \in Sockets, NEW r \in AllRuns, NEW e \in Nat,
         GoesOn(s, r, e) \/ Begins(s, r, e),
         link'[s].mail = link[s].mail, run <= run',
         \A q \in AllRuns : written[q] <= written'[q],
         s \in subscribers' => s \in subscribers /\ run' = run /\ written' = written
  PROVE  (GoesOn(s, r, e) \/ Begins(s, r, e))'
<1>1. AllRuns \subseteq Nat
  BY ConsoleAssumption DEF AllRuns
<1>2. ASSUME NEW q \in AllRuns, NEW e2 \in Nat, Reaches(s, q, e2) PROVE Reaches(s, q, e2)'
  BY <1>2 DEF Reaches, CTyped
<1>3. CASE GoesOn(s, r, e)
  <2>1. PICK e2 : Follows(link[s].mail, r, e, e2) /\ Reaches(s, r, e2)
    BY <1>3 DEF GoesOn
  <2>2. e2 \in Nat
    BY <2>1, FollowsEnd
  <2>3. Follows(link'[s].mail, r, e, e2) /\ Reaches(s, r, e2)'
    BY <1>2, <2>1, <2>2
  <2> QED
    BY <2>3 DEF GoesOn
<1>4. CASE Begins(s, r, e)
  <2>1. PICK h, a2, b2, e2 :
             /\ h \in Messages
             /\ h = Head(link[s].mail) /\ h.type = "hello"
             /\ r <= h.run /\ h.run <= run /\ (h.run = r => e <= b2)
             /\ Stretch(h.lines, a2, b2)
             /\ Follows(Tail(link[s].mail), h.run, b2, e2) /\ Reaches(s, h.run, e2)
    BY <1>4 DEF Begins
  <2>2. e2 \in Nat /\ h.run \in AllRuns
    BY <2>1, FollowsEnd DEF Messages
  <2>3. Reaches(s, h.run, e2)'
    BY <1>2, <2>1, <2>2
  <2>4. h.run <= run'
    <3>1. h.run \in Nat /\ run \in Nat /\ run' \in Nat
      BY <1>1, <2>2 DEF CTyped
    <3>2. h.run <= run /\ run <= run'
      BY <2>1
    <3> QED
      BY <3>1, <3>2
  <2>5. link'[s].mail # <<>>
    BY <1>4 DEF Begins
  <2>6. h = Head(link'[s].mail) /\ Follows(Tail(link'[s].mail), h.run, b2, e2)
    BY <2>1
  <2> QED
    BY <2>1, <2>3, <2>4, <2>5, <2>6 DEF Begins
<1> QED
  BY <1>3, <1>4

\* A step that leaves the page alone: the page's socket, if it has one still,
\* has the mail it had.
LEMMA PageKept ==
  ASSUME CInv, CTyped', shown' = shown, run <= run',
         \A q \in AllRuns : written[q] <= written'[q],
         \A s \in Sockets : s = current' =>
           /\ s = current /\ link'[s].mail = link[s].mail
           /\ s \in subscribers' => s \in subscribers /\ run' = run /\ written' = written
  PROVE  PageSound'
<1>1. AllRuns \subseteq Nat
  BY ConsoleAssumption DEF AllRuns
<1>2. PICK r, a, e, x :
           /\ r \in AllRuns
           /\ shown = [run |-> r, lines |-> x] /\ Stretch(x, a, e)
           /\ r <= run /\ e <= written[r]
           /\ \A s \in Sockets : s = current => GoesOn(s, r, e) \/ Begins(s, r, e)
  BY DEF CInv, PageSound
<1>3. e \in Nat
  BY <1>2, LogLinesOfStretch
<1>4. ASSUME NEW s \in Sockets, s = current' PROVE (GoesOn(s, r, e) \/ Begins(s, r, e))'
  <2>1. GoesOn(s, r, e) \/ Begins(s, r, e)
    BY <1>2, <1>4
  <2> QED
    BY <1>2, <1>3, <1>4, <2>1, MailKept DEF CInv
<1>5. r <= run' /\ e <= written'[r]
  BY <1>1, <1>2, <1>3 DEF CInv, CTyped
<1>6. shown' = [run |-> r, lines |-> x]
  BY <1>2
<1> QED
  BY <1>2, <1>4, <1>5, <1>6 DEF PageSound

\* The line that is appended, as every socket gets it; [f] is what follows it.
LineSent ==
  /\ written' = [written EXCEPT ![run] = written[run] + 1]
  /\ buffer' = LastOf(Append(buffer, written[run] + 1), Scrollback)
  /\ link' = [s \in Sockets |-> link'[s]]
  /\ \A s \in Sockets :
       \/ link[s].stage # "open" /\ link'[s] = link[s]
       \/ /\ link[s].stage = "open"
          /\ \E l, f : /\ l = IF s \in subscribers THEN <<LineOf(run, written[run] + 1)>> ELSE <<>>
                       /\ f = <<>> \/ f = <<ResultOf(run)>>
                       /\ link'[s] = [link[s] EXCEPT !.mail = (link[s].mail \o l) \o f]
  /\ UNCHANGED <<run, subscribers, current, shown>>

\* Appending, with a result behind it or not, is to send the line.
LEMMA AppendedSends ==
  ASSUME NEW p, Appended([t \in Sockets |-> <<>>])
                \/ Appended([t \in Sockets |->
                     IF t = p THEN <<[type |-> "result", run |-> run, lines |-> <<OwnCopy>>]>> ELSE <<>>]),
         UNCHANGED <<run, subscribers, current, shown>>
  PROVE  LineSent
<1>1. CASE Appended([t \in Sockets |-> <<>>])
  BY <1>1 DEF Appended, LineSent, LineOf, ResultOf
<1>2. CASE Appended([t \in Sockets |->
             IF t = p THEN <<[type |-> "result", run |-> run, lines |-> <<OwnCopy>>]>> ELSE <<>>])
  <2>1. /\ written' = [written EXCEPT ![run] = written[run] + 1]
        /\ buffer' = LastOf(Append(buffer, written[run] + 1), Scrollback)
        /\ link' = [s \in Sockets |-> link'[s]]
    BY <1>2 DEF Appended
  <2>2. ASSUME NEW t \in Sockets
        PROVE  \/ link[t].stage # "open" /\ link'[t] = link[t]
               \/ /\ link[t].stage = "open"
                  /\ \E l, f : /\ l = IF t \in subscribers THEN <<LineOf(run, written[run] + 1)>> ELSE <<>>
                               /\ f = <<>> \/ f = <<ResultOf(run)>>
                               /\ link'[t] = [link[t] EXCEPT !.mail = (link[t].mail \o l) \o f]
    <3>1. CASE link[t].stage # "open"
      BY <1>2, <3>1 DEF Appended
    <3>2. CASE link[t].stage = "open"
      <4>1. link'[t] = [link[t] EXCEPT !.mail =
              (link[t].mail \o IF t \in subscribers THEN <<LineOf(run, written[run] + 1)>> ELSE <<>>)
              \o IF t = p THEN <<ResultOf(run)>> ELSE <<>>]
        BY <1>2, <3>2 DEF Appended, LineOf, ResultOf
      <4> QED
        BY <3>2, <4>1
    <3> QED
      BY <3>1, <3>2
  <2> QED
    BY <2>1, <2>2 DEF LineSent
<1> QED
  BY <1>1, <1>2

\* One member of a set is a sequence over it.
LEMMA OneInSeq ==
  ASSUME NEW S, NEW x \in S
  PROVE  <<x>> \in Seq(S) /\ <<>> \in Seq(S)
OBVIOUS

\* A line that is sent keeps the types.
LEMMA LineSentTyped ==
  ASSUME CInv, LineSent
  PROVE  CTyped'
<1>1. AllRuns \subseteq Nat
  BY ConsoleAssumption DEF AllRuns
<1>2. written[run] \in Nat /\ run \in AllRuns /\ written \in [AllRuns -> Nat]
  BY DEF CInv, CTyped
<1>3. written' \in [AllRuns -> Nat]
  BY <1>2 DEF LineSent
<1>4. ASSUME NEW s \in Sockets
      PROVE  link'[s] \in [stage : Stages, mail : Seq(Messages)]
  <2>1. link[s] \in [stage : Stages, mail : Seq(Messages)]
    BY DEF CInv, CTyped
  <2>2. CASE link[s].stage # "open"
    BY <2>1, <2>2 DEF LineSent
  <2>3. CASE link[s].stage = "open"
    <3>1. PICK l, f : /\ l = IF s \in subscribers THEN <<LineOf(run, written[run] + 1)>> ELSE <<>>
                      /\ f = <<>> \/ f = <<ResultOf(run)>>
                      /\ link'[s] = [link[s] EXCEPT !.mail = (link[s].mail \o l) \o f]
      BY <2>3 DEF LineSent
    <3>2. LineOf(run, written[run] + 1) \in Messages /\ ResultOf(run) \in Messages
      BY <1>1, <1>2 DEF LineOf, ResultOf, Messages, OwnCopy
    <3>3. l \in Seq(Messages) /\ f \in Seq(Messages)
      BY <3>1, <3>2, OneInSeq
    <3>4. (link[s].mail \o l) \o f \in Seq(Messages)
      BY <2>1, <3>3, ConcatProperties
    <3> HIDE DEF LineOf, ResultOf
    <3> QED
      BY <2>1, <3>1, <3>4
  <2> QED
    BY <2>2, <2>3
<1>5. link' = [s \in Sockets |-> link'[s]]
  BY DEF LineSent
<1>6. link' \in [Sockets -> [stage : Stages, mail : Seq(Messages)]]
  BY <1>4, <1>5
<1> QED
  BY <1>2, <1>3, <1>6 DEF LineSent, CInv, CTyped

\* What a line that is appended does to the mail of the page's socket.
LEMMA LineSentFits ==
  ASSUME CInv, CTyped', LineSent, NEW s \in Sockets, s = current, NEW r \in AllRuns, NEW e \in Nat,
         GoesOn(s, r, e) \/ Begins(s, r, e)
  PROVE  (GoesOn(s, r, e) \/ Begins(s, r, e))'
<1>1. AllRuns \subseteq Nat
  BY ConsoleAssumption DEF AllRuns
<1>2. written[run] \in Nat /\ run \in AllRuns /\ written \in [AllRuns -> Nat]
  BY DEF CInv, CTyped
<1>3. /\ written' \in [AllRuns -> Nat] /\ written'[run] = written[run] + 1 /\ run' = run
      /\ \A q \in AllRuns : q # run => written'[q] = written[q]
      /\ \A q \in AllRuns : written[q] <= written'[q]
      /\ subscribers' = subscribers
  BY <1>2 DEF LineSent
<1>4. CASE link[s].stage # "open"
  <2>1. s \notin subscribers
    BY <1>4 DEF CInv, SocketsSound
  <2>2. link'[s] = link[s]
    BY <1>4 DEF LineSent
  <2>3. run <= run'
    BY <1>1, <1>2, <1>3
  <2> QED
    BY <1>3, <2>1, <2>2, <2>3, MailKept DEF CInv
<1>5. CASE link[s].stage = "open"
  <2>1. PICK l, f : /\ l = IF s \in subscribers THEN <<LineOf(run, written[run] + 1)>> ELSE <<>>
                    /\ f = <<>> \/ f = <<ResultOf(run)>>
                    /\ link'[s] = [link[s] EXCEPT !.mail = (link[s].mail \o l) \o f]
    BY <1>5 DEF LineSent
  <2> DEFINE m == link[s].mail
             m2 == (m \o l) \o f
  <2>2. link'[s].mail = m2 /\ m \in Seq(Messages)
    BY <2>1 DEF CInv, CTyped
  <2>3. l \in Seq(Messages) /\ f \in Seq(Messages)
    <3>1. LineOf(run, written[run] + 1) \in Messages /\ ResultOf(run) \in Messages
      BY <1>1, <1>2 DEF LineOf, ResultOf, Messages, OwnCopy
    <3> QED
      BY <2>1, <3>1, OneInSeq
  <2>4. f = <<>> \/ \E x \in AllRuns : f = <<ResultOf(x)>>
    BY <1>2, <2>1
  <2> HIDE DEF m
  \* A stretch of mail that reaches, with what is put behind it.
  <2>5. ASSUME NEW q \in AllRuns, NEW b, NEW u, NEW e2, Follows(u, q, b, e2), Reaches(s, q, e2)
        PROVE  \E e3 : Follows((u \o l) \o f, q, b, e3) /\ Reaches(s, q, e3)'
    <3>1. e2 \in Nat
      BY <2>5, FollowsEnd
    <3>2. CASE s \in subscribers
      <4>1. q = run /\ e2 = written[run]
        BY <2>5, <3>2 DEF Reaches
      <4>2. l = <<LineOf(q, e2 + 1)>> /\ l # <<>>
        BY <2>1, <3>2, <4>1
      <4>3. Follows((u \o l) \o f, q, b, IF l = <<>> THEN e2 ELSE e2 + 1)
        BY <2>4, <2>5, <4>2, FollowsMore
      <4>4. Reaches(s, q, e2 + 1)'
        BY <1>2, <1>3, <4>1 DEF Reaches
      <4> QED
        BY <4>2, <4>3, <4>4
    <3>3. CASE s \notin subscribers
      <4>1. l = <<>>
        BY <2>1, <3>3
      <4>2. Follows((u \o l) \o f, q, b, IF l = <<>> THEN e2 ELSE e2 + 1)
        BY <2>4, <2>5, <4>1, FollowsMore
      <4>3. Reaches(s, q, e2)'
        BY <1>2, <1>3, <2>5, <3>1, <3>3 DEF Reaches
      <4> QED
        BY <4>1, <4>2, <4>3
    <3> QED
      BY <3>2, <3>3
  <2>6. CASE GoesOn(s, r, e)
    <3>1. PICK e2 : Follows(m, r, e, e2) /\ Reaches(s, r, e2)
      BY <2>6 DEF GoesOn, m
    <3>2. \E e3 : Follows(m2, r, e, e3) /\ Reaches(s, r, e3)'
      BY <2>5, <3>1
    <3> QED
      BY <2>2, <3>2 DEF GoesOn
  <2>7. CASE Begins(s, r, e)
    <3>1. PICK h, a2, b2, e2 :
             /\ h \in Messages
               /\ h = Head(m) /\ h.type = "hello"
               /\ r <= h.run /\ h.run <= run /\ (h.run = r => e <= b2)
               /\ Stretch(h.lines, a2, b2)
               /\ Follows(Tail(m), h.run, b2, e2) /\ Reaches(s, h.run, e2)
      BY <2>7 DEF Begins, m
    <3>2. m # <<>> /\ h.run \in AllRuns
      BY <2>7, <3>1 DEF Begins, Messages, m
    <3>3. m \o l # <<>> /\ Head(m \o l) = Head(m) /\ Tail(m \o l) = Tail(m) \o l /\ m \o l \in Seq(Messages)
      BY <2>2, <2>3, <3>2, TailOfMore, ConcatProperties
    <3>4. m2 # <<>> /\ Head(m2) = Head(m) /\ Tail(m2) = (Tail(m) \o l) \o f
      <4> DEFINE p == m \o l
      <4>1. p # <<>> /\ Head(p) = Head(m) /\ Tail(p) = Tail(m) \o l /\ p \in Seq(Messages)
        BY <3>3
      <4> HIDE DEF p
      <4>2. p \o f # <<>> /\ Head(p \o f) = Head(p) /\ Tail(p \o f) = Tail(p) \o f
        BY <2>3, <4>1, TailOfMore
      <4> QED
        BY <4>1, <4>2 DEF p
    <3>5. PICK e3 : Follows((Tail(m) \o l) \o f, h.run, b2, e3) /\ Reaches(s, h.run, e3)'
      BY <2>5, <3>1, <3>2
    <3> HIDE DEF m2
    <3>6. link'[s].mail # <<>> /\ h = Head(link'[s].mail) /\ Follows(Tail(link'[s].mail), h.run, b2, e3)
      BY <2>2, <3>1, <3>4, <3>5
    <3>7. h.run <= run'
      BY <1>3, <3>1
    <3> QED
      BY <3>1, <3>5, <3>6, <3>7 DEF Begins
  <2> QED
    BY <2>6, <2>7
<1> QED
  BY <1>4, <1>5

\* A line that is sent is a line of the log, and keeps the invariant.
LEMMA LineSentKeeps ==
  ASSUME CInv, LineSent
  PROVE  CInv' /\ Log!Write
<1>1. CTyped'
  BY LineSentTyped
<1>2. AllRuns \subseteq Nat
  BY ConsoleAssumption DEF AllRuns
<1>3. written[run] \in Nat /\ run \in AllRuns /\ written \in [AllRuns -> Nat]
  BY DEF CInv, CTyped
<1>4. /\ written'[run] = written[run] + 1 /\ run' = run
      /\ \A q \in AllRuns : q # run => written'[q] = written[q]
      /\ \A q \in AllRuns : written[q] <= written'[q]
  BY <1>3 DEF LineSent
<1>5. BufferSound'
  <2>1. PICK a : Stretch(buffer, a, written[run])
    BY DEF CInv, BufferSound
  <2>2. Stretch(Append(buffer, written[run] + 1), a, written[run] + 1)
    BY <2>1, StretchGrows
  <2>3. \E a2 : Stretch(LastOf(Append(buffer, written[run] + 1), Scrollback), a2, written[run] + 1)
    BY <2>2, StretchEnds, ConsoleAssumption
  <2>4. \E a2 : Stretch(buffer', a2, written'[run'])
    BY <1>4, <2>3 DEF LineSent
  <2>5. \A r \in AllRuns : r > run' => written'[r] = 0
    BY <1>2, <1>3, <1>4 DEF CInv, BufferSound
  <2> QED
    BY <2>4, <2>5 DEF BufferSound
<1>6. ASSUME NEW s \in Sockets PROVE link'[s].stage = link[s].stage
  <2>1. link[s] \in [stage : Stages, mail : Seq(Messages)]
    BY DEF CInv, CTyped
  <2>2. link'[s] = link[s] \/ \E q : link'[s] = [link[s] EXCEPT !.mail = q]
    BY DEF LineSent
  <2> QED
    BY <2>1, <2>2
<1>7. SocketsSound'
  BY <1>1, <1>6 DEF LineSent, CInv, CTyped, SocketsSound
<1>8. PageSound'
  <2>1. PICK r, a, e, x :
             /\ r \in AllRuns
             /\ shown = [run |-> r, lines |-> x] /\ Stretch(x, a, e)
             /\ r <= run /\ e <= written[r]
             /\ \A s \in Sockets : s = current => GoesOn(s, r, e) \/ Begins(s, r, e)
    BY DEF CInv, PageSound
  <2>2. e \in Nat
    BY <2>1, LogLinesOfStretch
  <2>3. ASSUME NEW s \in Sockets, s = current' PROVE (GoesOn(s, r, e) \/ Begins(s, r, e))'
    <3>1. s = current
      BY <2>3 DEF LineSent
    <3> QED
      BY <1>1, <2>1, <2>2, <3>1, LineSentFits
  <2>4. shown' = [run |-> r, lines |-> x] /\ r <= run' /\ e <= written'[r]
    BY <1>1, <1>2, <1>3, <1>4, <2>1, <2>2 DEF LineSent, CTyped
  <2> QED
    BY <2>1, <2>3, <2>4 DEF PageSound
<1>9. Log!Write
  BY DEF LineSent, Log!Write, LogShown
<1> QED
  BY <1>1, <1>5, <1>7, <1>8, <1>9 DEF CInv

\* The buffer begins anew: what is on its way is all of runs that are over.
LEMMA EmptiedKeeps ==
  ASSUME CInv, CTyped', Emptied, written' = written, shown' = shown
  PROVE  BufferSound' /\ Log!BeginRun
<1>1. AllRuns \subseteq Nat /\ run + 1 \in AllRuns
  BY ConsoleAssumption DEF AllRuns, Emptied, CInv, CTyped
<1>2. run' = run + 1 /\ run \in Nat /\ written[run + 1] = 0
  BY <1>1 DEF Emptied, CInv, CTyped, BufferSound
<1>3. Stretch(<<>>, 0, 0)
  BY StretchEmpty
<1>4. BufferSound'
  BY <1>1, <1>2, <1>3 DEF Emptied, CInv, BufferSound
<1> QED
  BY <1>1, <1>2, <1>4 DEF Log!BeginRun, LogShown

\* A server that is deleted begins a new run of the log.
LEMMA DropConsoleKeeps ==
  ASSUME CInv, DropConsole
  PROVE  CInv' /\ [Log!Next]_(Log!logVars)
<1>1. AllRuns \subseteq Nat /\ run + 1 \in AllRuns
  BY ConsoleAssumption DEF AllRuns, DropConsole, Emptied, CInv, CTyped
<1>2. CTyped'
  BY <1>1 DEF DropConsole, Emptied, CInv, CTyped
<1>3. BufferSound' /\ Log!BeginRun
  BY <1>2, EmptiedKeeps DEF DropConsole
<1>4. SocketsSound'
  BY DEF DropConsole, Emptied, CInv, SocketsSound
<1>5. PageSound'
  <2>1. run <= run' /\ subscribers' = {} /\ UNCHANGED <<written, link, current, shown>>
    BY <1>1 DEF DropConsole, Emptied, CInv, CTyped
  <2>2. \A q \in AllRuns : written[q] <= written'[q]
    BY <1>1, <2>1 DEF CInv, CTyped
  <2> QED
    BY <1>2, <2>1, <2>2, PageKept
<1>6. UNCHANGED LogShown
  BY DEF DropConsole, LogShown
<1> QED
  BY <1>2, <1>3, <1>4, <1>5, <1>6 DEF CInv, Log!Next, Log!BeginRun, DropConsole

\* A restart of the panel begins a new run of the log, and breaks every socket.
LEMMA RestartKeeps ==
  ASSUME CInv, Restart
  PROVE  CInv' /\ [Log!Next]_(Log!logVars)
<1>1. AllRuns \subseteq Nat /\ run + 1 \in AllRuns
  BY ConsoleAssumption DEF AllRuns, Restart, Emptied, CInv, CTyped
<1>2. ASSUME NEW s \in Sockets
      PROVE  /\ link'[s] \in [stage : Stages, mail : Seq(Messages)]
             /\ link'[s].mail = link[s].mail
             /\ link[s].stage \in {"asked", "open"} => link'[s].stage = "broken"
             /\ link[s].stage \notin {"asked", "open"} => link'[s].stage = link[s].stage
  BY DEF Restart, CInv, CTyped, Stages
<1>3. CTyped'
  <2>1. link' = [s \in Sockets |-> link'[s]]
    BY DEF Restart
  <2>2. link' \in [Sockets -> [stage : Stages, mail : Seq(Messages)]]
    BY <1>2, <2>1
  <2> QED
    BY <1>1, <2>2 DEF Restart, Emptied, CInv, CTyped
<1>4. BufferSound' /\ Log!BeginRun
  BY <1>3, EmptiedKeeps DEF Restart
<1>5. SocketsSound'
  BY <1>2 DEF Restart, Emptied, CInv, SocketsSound
<1>6. PageSound'
  <2>1. run <= run' /\ subscribers' = {} /\ UNCHANGED <<written, current, shown>>
    BY <1>1 DEF Restart, Emptied, CInv, CTyped
  <2>2. \A q \in AllRuns : written[q] <= written'[q]
    BY <1>1, <2>1 DEF CInv, CTyped
  <2> QED
    BY <1>2, <1>3, <2>1, <2>2, PageKept
<1>7. UNCHANGED LogShown
  BY DEF Restart, LogShown
<1> QED
  BY <1>3, <1>4, <1>5, <1>6, <1>7 DEF CInv, Log!Next, Log!BeginRun, Restart

\* A step of the sockets that neither writes nor shows a line, and brings the page
\* no mail but what it had.
LEMMA SocketsMove ==
  ASSUME CInv, CTyped', SocketsSound', UNCHANGED <<buffer, written, run, shown>>,
         \A s \in Sockets : s = current' =>
           s = current /\ link'[s].mail = link[s].mail /\ (s \in subscribers' => s \in subscribers)
  PROVE  CInv' /\ [Log!Next]_(Log!logVars)
<1>1. AllRuns \subseteq Nat
  BY ConsoleAssumption DEF AllRuns
<1>2. BufferSound'
  BY DEF CInv, BufferSound
<1>3. PageSound'
  <2>1. run <= run' /\ \A q \in AllRuns : written[q] <= written'[q]
    BY <1>1 DEF CInv, CTyped
  <2> QED
    BY <2>1, PageKept
<1>4. UNCHANGED Log!logVars
  BY DEF Log!logVars, LogShown
<1> QED
  BY <1>2, <1>3, <1>4 DEF CInv

\* The steps that bring the page neither mail nor a line.
LEMMA QuietSteps ==
  ASSUME CInv, NEW t \in Sockets,
         \/ Refuse(t) \/ Break(t) \/ ReceiveCommand(t) \/ CommandRevoked(t) \/ Discard(t)
  PROVE  CInv' /\ [Log!Next]_(Log!logVars)
<1>1. CTyped'
  <2>1. CASE Refuse(t)
    BY <2>1 DEF Refuse, CInv, CTyped, Stages
  <2>2. CASE Break(t)
    <3>1. <<>> \in Seq(Messages)
      OBVIOUS
    <3> QED
      BY <2>2, <3>1 DEF Break, CInv, CTyped, Stages
  <2>3. CASE ReceiveCommand(t)
    BY <2>3 DEF ReceiveCommand, CInv, CTyped
  <2>4. CASE CommandRevoked(t)
    BY <2>4 DEF CommandRevoked, CInv, CTyped, Stages
  <2>5. CASE Discard(t)
    <3>1. Unused \in [stage : Stages, mail : Seq(Messages)]
      BY DEF Unused, Stages
    <3> QED
      BY <2>5, <3>1 DEF Discard, CInv, CTyped
  <2> QED
    BY <2>1, <2>2, <2>3, <2>4, <2>5
<1>2. SocketsSound'
  <2>1. CASE Refuse(t)
    BY <2>1 DEF Refuse, CInv, CTyped, SocketsSound
  <2>2. CASE Break(t)
    BY <2>2 DEF Break, CInv, CTyped, SocketsSound
  <2>3. CASE ReceiveCommand(t)
    BY <2>3 DEF ReceiveCommand, CInv, CTyped, SocketsSound
  <2>4. CASE CommandRevoked(t)
    BY <2>4 DEF CommandRevoked, CInv, CTyped, SocketsSound
  <2>5. CASE Discard(t)
    BY <2>5 DEF Discard, Unused, CInv, CTyped, SocketsSound
  <2> QED
    BY <2>1, <2>2, <2>3, <2>4, <2>5
<1>3. /\ UNCHANGED <<buffer, written, run, shown>>
      /\ \A s \in Sockets : s = current' =>
           s = current /\ link'[s].mail = link[s].mail /\ (s \in subscribers' => s \in subscribers)
  BY DEF Refuse, Break, ReceiveCommand, CommandRevoked, Discard, CInv, CTyped
<1> QED
  BY <1>1, <1>2, <1>3, SocketsMove

\* A page that is left has no socket to read from.
LEMMA LeaveKeeps ==
  ASSUME CInv, Leave
  PROVE  CInv' /\ [Log!Next]_(Log!logVars)
<1>1. current \in Sockets /\ current' = NoSocket
  BY DEF Leave, CInv, CTyped
<1>2. CTyped'
  BY <1>1 DEF Leave, CInv, CTyped, Stages
<1>3. SocketsSound'
  BY <1>1, ConsoleAssumption DEF Leave, CInv, CTyped, SocketsSound
<1>4. UNCHANGED <<buffer, written, run, shown>> /\ current' \notin Sockets
  BY <1>1, ConsoleAssumption DEF Leave
<1> QED
  BY <1>2, <1>3, <1>4, SocketsMove

\* The page connects: nothing is on its way yet, and it has what it had.
LEMMA ConnectKeeps ==
  ASSUME CInv, NEW t \in Sockets, Connect(t)
  PROVE  CInv' /\ [Log!Next]_(Log!logVars)
<1>1. AllRuns \subseteq Nat
  BY ConsoleAssumption DEF AllRuns
<1>2. <<>> \in Seq(Messages)
  OBVIOUS
<1>3. /\ link[t].stage = "none" /\ link[t].mail = <<>>
      /\ current' = t /\ UNCHANGED <<buffer, written, run, subscribers, shown>>
      /\ t # current
  BY DEF Connect, Unused, CInv, SocketsSound
<1>4. ASSUME NEW s \in Sockets
      PROVE  /\ link'[s] \in [stage : Stages, mail : Seq(Messages)]
             /\ s = t => link'[s].stage = "asked" /\ link'[s].mail = <<>>
             /\ s # t => \/ link'[s] = link[s]
                         \/ s = current /\ link[s].stage = "broken"
  <2>1. link'[s] = CASE s = t -> [Unused EXCEPT !.stage = "asked"]
                     [] s = current -> Unused
                     [] OTHER -> link[s]
    BY DEF Connect
  <2>2. CASE s = t
    <3>1. link'[s] = [Unused EXCEPT !.stage = "asked"]
      BY <1>3, <2>1, <2>2
    <3> QED
      BY <1>2, <2>2, <3>1 DEF Unused, Stages
  <2>3. CASE s = current
    <3>1. link'[s] = Unused /\ link[s].stage = "broken" /\ s # t
      BY <1>3, <2>1, <2>3, ConsoleAssumption DEF Connect
    <3> QED
      BY <1>2, <2>3, <3>1 DEF Unused, Stages
  <2>4. CASE s # t /\ s # current
    <3>1. link'[s] = link[s]
      BY <2>1, <2>4
    <3>2. link[s] \in [stage : Stages, mail : Seq(Messages)]
      BY DEF CInv, CTyped
    <3>3. link'[s] \in [stage : Stages, mail : Seq(Messages)]
      BY <3>1, <3>2
    <3> QED
      BY <2>4, <3>1, <3>3
  <2> QED
    BY <2>2, <2>3, <2>4
<1>5. CTyped'
  <2>1. link' = [s \in Sockets |-> link'[s]]
    BY DEF Connect
  <2>2. link' \in [Sockets -> [stage : Stages, mail : Seq(Messages)]]
    BY <1>4, <2>1
  <2> QED
    BY <1>3, <2>2 DEF CInv, CTyped
<1>6. t \notin subscribers
  BY <1>3 DEF CInv, SocketsSound
<1>7. SocketsSound'
  <2>1. ASSUME NEW s \in subscribers PROVE link'[s].stage \in {"open", "leaving"}
    <3>1. s \in Sockets /\ link[s].stage \in {"open", "leaving"} /\ s # t
      BY <1>6 DEF CInv, CTyped, SocketsSound
    <3> QED
      BY <1>4, <3>1
  <2> QED
    BY <1>3, <1>4, <2>1 DEF SocketsSound
<1>8. BufferSound'
  BY <1>3 DEF CInv, BufferSound
<1>9. PageSound'
  <2>1. PICK r, a, e, x :
             /\ r \in AllRuns
             /\ shown = [run |-> r, lines |-> x] /\ Stretch(x, a, e)
             /\ r <= run /\ e <= written[r]
    BY DEF CInv, PageSound
  <2>2. e \in Nat
    BY <2>1, LogLinesOfStretch
  <2>3. GoesOn(t, r, e)'
    <3>1. Follows(link'[t].mail, r, e, e)
      BY <1>4, <2>2, FollowsNothing
    <3>2. Reaches(t, r, e)'
      BY <1>3, <1>6, <2>1 DEF Reaches
    <3> QED
      BY <3>1, <3>2 DEF GoesOn
  <2> QED
    BY <1>3, <2>1, <2>3 DEF PageSound
<1>10. UNCHANGED Log!logVars
  BY <1>3 DEF Log!logVars, LogShown
<1> QED
  BY <1>5, <1>7, <1>8, <1>9, <1>10 DEF CInv

\* The hello is the end of the present run, and no line is appended between it
\* and the subscription.
LEMMA AcceptKeeps ==
  ASSUME CInv, NEW t \in Sockets, Accept(t)
  PROVE  CInv' /\ [Log!Next]_(Log!logVars)
<1>1. AllRuns \subseteq Nat
  BY ConsoleAssumption DEF AllRuns
<1>0. PICK h : h = [type |-> "hello", run |-> run, lines |-> GetScrollback(HelloLines)]
  OBVIOUS
<1>2. PICK a, b : Stretch(GetScrollback(HelloLines), a, b) /\ b = written[run]
  <2>1. PICK a2 : Stretch(buffer, a2, written[run])
    BY DEF CInv, BufferSound
  <2> QED
    BY <2>1, StretchEnds, ConsoleAssumption DEF GetScrollback
<1>3. h \in Messages /\ b \in Nat /\ run \in AllRuns
  BY <1>0, <1>2, LogLinesOfStretch DEF Messages, Stretch, CInv, CTyped
<1>4. h.type = "hello" /\ h.run = run /\ Stretch(h.lines, a, b)
  BY <1>0, <1>2
<1>5. /\ link' = [link EXCEPT ![t] = [stage |-> "open", mail |-> <<h>>]]
      /\ subscribers' = subscribers \cup {t} /\ link[t].stage = "asked"
      /\ UNCHANGED <<buffer, written, run, current, shown>>
  BY <1>0 DEF Accept
<1>6. <<h>> \in Seq(Messages) /\ <<h>> # <<>> /\ Head(<<h>>) = h /\ Tail(<<h>>) = <<>>
  BY <1>3
<1>7. CTyped'
  BY <1>5, <1>6 DEF CInv, CTyped, Stages
<1>8. SocketsSound'
  BY <1>5 DEF CInv, CTyped, SocketsSound
<1>9. BufferSound'
  BY <1>5 DEF CInv, BufferSound
<1>10. PageSound'
  <2>1. PICK r, a2, e, x :
             /\ r \in AllRuns
             /\ shown = [run |-> r, lines |-> x] /\ Stretch(x, a2, e)
             /\ r <= run /\ e <= written[r]
             /\ \A s \in Sockets : s = current => GoesOn(s, r, e) \/ Begins(s, r, e)
    BY DEF CInv, PageSound
  <2>2. e \in Nat
    BY <2>1, LogLinesOfStretch
  <2>3. ASSUME NEW s \in Sockets, s = current' PROVE (GoesOn(s, r, e) \/ Begins(s, r, e))'
    <3>1. CASE s = t
      <4>1. link'[s].mail = <<h>>
        BY <1>5, <3>1 DEF CInv, CTyped
      <4>2. Follows(Tail(link'[s].mail), h.run, b, b)
        BY <1>3, <1>6, <4>1, FollowsNothing
      <4>3. Reaches(s, h.run, b)'
        BY <1>1, <1>2, <1>3, <1>4, <1>5 DEF Reaches
      <4>4. r <= h.run /\ h.run <= run' /\ (h.run = r => e <= b)
        BY <1>1, <1>2, <1>3, <1>4, <1>5, <2>1
      <4> QED
        <5>1. link'[s].mail # <<>> /\ h = Head(link'[s].mail)
          BY <1>6, <4>1
        <5> QED
          BY <1>3, <1>4, <4>2, <4>3, <4>4, <5>1 DEF Begins
    <3>2. CASE s # t
      <4>1. GoesOn(s, r, e) \/ Begins(s, r, e)
        BY <1>5, <2>1, <2>3
      <4>2. link'[s].mail = link[s].mail /\ run <= run'
        BY <1>1, <1>3, <1>5, <3>2 DEF CInv, CTyped
      <4>3. \A q \in AllRuns : written[q] <= written'[q]
        BY <1>1, <1>5 DEF CInv, CTyped
      <4>4. s \in subscribers' => s \in subscribers /\ run' = run /\ written' = written
        BY <1>5, <3>2
      <4> QED
        BY <1>7, <2>1, <2>2, <4>1, <4>2, <4>3, <4>4, MailKept DEF CInv
    <3> QED
      BY <3>1, <3>2
  <2> QED
    BY <1>5, <2>1, <2>3 DEF PageSound
<1>11. UNCHANGED Log!logVars
  BY <1>5 DEF Log!logVars, LogShown
<1> QED
  BY <1>7, <1>8, <1>9, <1>10, <1>11 DEF CInv

\* What a message does to what is shown, and to the mail that is left.
LEMMA MessageFits ==
  ASSUME CInv, NEW t \in Sockets, t = current, Message(t)
  PROVE  \E r, q, a, e, x, b, f, y :
           /\ r \in AllRuns /\ q \in AllRuns
           /\ shown = [run |-> r, lines |-> x] /\ Stretch(x, a, e)
           /\ shown' = [run |-> q, lines |-> y] /\ Stretch(y, b, f)
           /\ r <= q /\ q <= run /\ f <= written[q] /\ (q = r => e <= f)
           /\ \E e2 : Follows(Tail(link[t].mail), q, f, e2) /\ Reaches(t, q, e2)
<1>1. AllRuns \subseteq Nat
  BY ConsoleAssumption DEF AllRuns
<1>2. PICK r, a, e, x :
           /\ r \in AllRuns
           /\ shown = [run |-> r, lines |-> x] /\ Stretch(x, a, e)
           /\ r <= run /\ e <= written[r]
           /\ GoesOn(t, r, e) \/ Begins(t, r, e)
  BY DEF CInv, PageSound
<1>3. /\ e \in Nat /\ written \in [AllRuns -> Nat] /\ run \in Nat
  BY <1>1, <1>2, LogLinesOfStretch DEF CInv, CTyped
<1> DEFINE m == link[t].mail
<1>4. /\ m # <<>>
      /\ shown' = IF Head(m).type = "hello" THEN [run |-> Head(m).run, lines |-> Head(m).lines]
                  ELSE [run |-> IF Head(m).type = "line" THEN Head(m).run ELSE shown.run,
                        lines |-> LastOf(shown.lines \o Head(m).lines, Scrollback)]
  BY DEF Message, Listens
<1>5. shown.run = r /\ shown.lines = x
  BY <1>2
<1>6. CASE Begins(t, r, e)
  <2>1. PICK h, a2, b2, e2 :
             /\ h \in Messages
             /\ h = Head(m) /\ h.type = "hello"
             /\ r <= h.run /\ h.run <= run /\ (h.run = r => e <= b2)
             /\ Stretch(h.lines, a2, b2)
             /\ Follows(Tail(m), h.run, b2, e2) /\ Reaches(t, h.run, e2)
    BY <1>6 DEF Begins
  <2>2. shown' = [run |-> h.run, lines |-> h.lines] /\ h.run \in AllRuns
    BY <1>4, <2>1 DEF Messages
  <2>3. b2 <= written[h.run]
    <3>1. b2 \in Nat /\ e2 \in Nat /\ b2 <= e2 /\ e2 <= written[h.run]
      BY <2>1, FollowsEnd, FollowsGrows DEF Reaches
    <3> QED
      BY <1>3, <2>2, <3>1
  <2> QED
    BY <1>2, <2>1, <2>2, <2>3
<1>7. CASE GoesOn(t, r, e)
  <2>1. PICK e2 : Follows(m, r, e, e2) /\ Reaches(t, r, e2)
    BY <1>7 DEF GoesOn
  <2> DEFINE h == Head(m)
  <2>2. PICK f : /\ f \in Nat /\ e <= f /\ Follows(Tail(m), r, f, e2)
                 /\ \/ h.type = "result" /\ h.lines = <<OwnCopy>> /\ f = e
                    \/ h.type = "line" /\ h.run = r /\ h.lines = <<e + 1>> /\ f = e + 1
    <3>1. \/ h.type = "result" /\ h.lines = <<OwnCopy>> /\ Follows(Tail(m), r, e, e2)
          \/ h.type = "line" /\ h.run = r /\ h.lines = <<e + 1>> /\ Follows(Tail(m), r, e + 1, e2)
      BY <1>4, <2>1, FollowsOneLess
    <3>2. e + 1 \in Nat /\ e <= e /\ e <= e + 1
      BY <1>3
    <3> QED
      BY <1>3, <3>1, <3>2
  <2> HIDE DEF m, h
  <2>3. Stretch(x \o h.lines, a, f)
    BY <1>2, <2>2, StretchGrows
  <2>4. PICK b : Stretch(LastOf(x \o h.lines, Scrollback), b, f)
    BY <2>3, StretchEnds, ConsoleAssumption
  <2>5. shown' = [run |-> r, lines |-> LastOf(x \o h.lines, Scrollback)]
    BY <1>4, <1>5, <2>2 DEF h
  <2>6. f <= written[r]
    <3>1. e2 \in Nat /\ f <= e2 /\ e2 <= written[r]
      BY <2>1, <2>2, FollowsEnd, FollowsGrows DEF Reaches
    <3> QED
      BY <1>2, <1>3, <2>2, <3>1
  <2>7. r <= r
    BY <1>1, <1>2
  <2> QED
    BY <1>2, <2>1, <2>2, <2>4, <2>5, <2>6, <2>7 DEF m
<1> QED
  BY <1>2, <1>6, <1>7

\* The screen's lines, as the log sees them.
LEMMA ShownIs ==
  ASSUME NEW r, NEW x, NEW a, NEW e, Stretch(x, a, e), shown = [run |-> r, lines |-> x]
  PROVE  LogShown = [run |-> r, lines |-> Log!Lines(a + 1, e)]
<1>1. LogLines(x) = Log!Lines(a + 1, e)
  BY LogLinesOfStretch
<1> QED
  BY <1>1 DEF LogShown

\* The same of the screen after a step.
LEMMA ShownIsNext ==
  ASSUME NEW r, NEW x, NEW a, NEW e, Stretch(x, a, e), shown' = [run |-> r, lines |-> x]
  PROVE  LogShown' = [run |-> r, lines |-> Log!Lines(a + 1, e)]
<1>1. LogLines(x) = Log!Lines(a + 1, e)
  BY LogLinesOfStretch
<1> QED
  BY <1>1 DEF LogShown

\* The last of a stretch's lines.
LEMMA LastOfLines ==
  ASSUME NEW a \in Nat, NEW e \in Nat, a <= e, NEW v, v.lines = Log!Lines(a + 1, e)
  PROVE  Log!Last(v) \in Nat /\ Log!Last(v) <= e
<1>1. CASE a = e
  <2>1. Log!Lines(a + 1, e) = <<>>
    BY <1>1 DEF Log!Lines
  <2> QED
    BY <2>1 DEF Log!Last
<1>2. CASE a # e
  <2> DEFINE w == Log!Lines(a + 1, e)
  <2>0. /\ e - a \in Nat \ {0} /\ e - (a + 1) + 1 = e - a
        /\ \A i \in 1..(e - a) : a + 1 + i - 1 \in Nat
        /\ e - a \in 1..(e - a) /\ a + 1 + (e - a) - 1 = e
    BY <1>2
  <2>4. w = [i \in 1..(e - a) |-> a + 1 + i - 1]
    BY <2>0 DEF Log!Lines
  <2>5. w \in [1..(e - a) -> Nat]
    BY <2>0, <2>4
  <2>6. w[e - a] = e
    BY <2>0, <2>4
  <2> HIDE DEF w
  <2>1. w \in Seq(Nat) /\ Len(w) = e - a /\ w[e - a] = e
    BY <2>0, <2>5, <2>6
  <2>2. Len(w) # 0 /\ w # <<>>
    BY <1>2, <2>1
  <2>3. v.lines = w
    BY DEF w
  <2> QED
    BY <2>1, <2>2, <2>3 DEF Log!Last
<1> QED
  BY <1>1, <1>2

\* A message that is read is a step of the screen, or one of a socket nobody listens to.
LEMMA MessageKeeps ==
  ASSUME CInv, NEW t \in Sockets, Message(t)
  PROVE  CInv' /\ [Log!Next]_(Log!logVars)
<1>1. AllRuns \subseteq Nat
  BY ConsoleAssumption DEF AllRuns
<1>2. /\ link[t].mail # <<>> /\ link' = [link EXCEPT ![t].mail = Tail(link[t].mail)]
      /\ UNCHANGED <<buffer, written, run, subscribers, current>>
  BY DEF Message
<1>3. CTyped'
  <2>1. link[t].mail \in Seq(Messages)
    BY DEF CInv, CTyped
  <2>2. Tail(link[t].mail) \in Seq(Messages)
    BY <1>2, <2>1, HeadTailProperties
  <2> QED
    BY <1>2, <2>2 DEF CInv, CTyped
<1>4. /\ link'[t].mail = Tail(link[t].mail)
      /\ \A s \in Sockets : link'[s].stage = link[s].stage
      /\ \A s \in Sockets : s # t => link'[s] = link[s]
  BY <1>2 DEF CInv, CTyped
<1>5. SocketsSound'
  BY <1>2, <1>4 DEF CInv, CTyped, SocketsSound
<1>6. BufferSound'
  BY <1>2 DEF CInv, BufferSound
<1>7. CASE t # current
  <2>1. shown' = shown
    BY <1>7 DEF Message, Listens
  <2>2. \A s \in Sockets : s = current' =>
           s = current /\ link'[s].mail = link[s].mail /\ (s \in subscribers' => s \in subscribers)
    BY <1>2, <1>4, <1>7
  <2> QED
    BY <1>2, <1>3, <1>5, <2>1, <2>2, SocketsMove
<1>8. CASE t = current
  <2>1. PICK r, q, a, e, x, b, f, y :
           /\ r \in AllRuns /\ q \in AllRuns
           /\ shown = [run |-> r, lines |-> x] /\ Stretch(x, a, e)
           /\ shown' = [run |-> q, lines |-> y] /\ Stretch(y, b, f)
           /\ r <= q /\ q <= run /\ f <= written[q] /\ (q = r => e <= f)
           /\ \E e2 : Follows(Tail(link[t].mail), q, f, e2) /\ Reaches(t, q, e2)
    BY <1>8, MessageFits
  <2>2. PageSound'
    <3>1. PICK e2 : Follows(Tail(link[t].mail), q, f, e2) /\ Reaches(t, q, e2)
      BY <2>1
    <3>2. Reaches(t, q, e2)'
      BY <1>2, <3>1 DEF Reaches
    <3>3. GoesOn(t, q, f)'
      BY <1>4, <3>1, <3>2 DEF GoesOn
    <3>4. \A s \in Sockets : s = current' => s = t
      BY <1>2, <1>8
    <3> QED
      BY <1>2, <2>1, <3>3, <3>4 DEF PageSound
  <2>3. a \in Nat /\ e \in Nat /\ a <= e /\ b \in Nat /\ f \in Nat /\ b <= f
    BY <2>1, LogLinesOfStretch
  <2>4. LogShown = [run |-> r, lines |-> Log!Lines(a + 1, e)]
    BY <2>1, ShownIs
  <2>5. LogShown' = [run |-> q, lines |-> Log!Lines(b + 1, f)]
    BY <2>1, ShownIsNext
  <2>6. Log!Last(LogShown) <= e /\ Log!Last(LogShown) \in Nat
    <3>1. LogShown.lines = Log!Lines(a + 1, e)
      BY <2>4
    <3> QED
      BY <2>3, <3>1, LastOfLines
  <2>7. Log!Show
    <3>1. q = r => Log!Last(LogShown) <= f
      BY <2>1, <2>3, <2>6
    <3>2. f \in 0..written[q] /\ b + 1 \in 1..(f + 1)
      BY <2>1, <2>3 DEF CInv, CTyped
    <3>3. LogShown.run = r
      BY <2>4
    <3> QED
      BY <1>1, <1>2, <2>1, <2>5, <3>1, <3>2, <3>3 DEF Log!Show
  <2> QED
    BY <1>3, <1>5, <1>6, <2>2, <2>7 DEF CInv, Log!Next
<1> QED
  BY <1>7, <1>8

\* Every step keeps the invariant, and is one of the log or none.
LEMMA ConsoleStep ==
  ASSUME CInv, [ConsoleNext]_consoleVars
  PROVE  CInv' /\ [Log!Next]_(Log!logVars)
<1>1. ASSUME UNCHANGED <<buffer, written, run, subscribers, link, current, shown>>
      PROVE  CInv' /\ [Log!Next]_(Log!logVars)
  <2>1. CTyped'
    BY <1>1 DEF CInv, CTyped
  <2>2. SocketsSound'
    BY <1>1 DEF CInv, SocketsSound
  <2> QED
    BY <1>1, <2>1, <2>2, SocketsMove
<1>2. ASSUME LineSent PROVE CInv' /\ [Log!Next]_(Log!logVars)
  BY <1>2, LineSentKeeps DEF Log!Next
<1>3. CASE UNCHANGED consoleVars
  BY <1>1, <1>3 DEF consoleVars
<1>4. CASE Output
  <2>1. LineSent
    BY <1>4, AppendedSends DEF Output
  <2> QED
    BY <1>2, <2>1
<1>5. CASE DropConsole
  BY <1>5, DropConsoleKeeps
<1>6. CASE Restart
  BY <1>6, RestartKeeps
<1>7. CASE Leave
  BY <1>7, LeaveKeeps
<1>8. ASSUME NEW s \in Sockets, SendCommand(s) \/ CommandAnswered(s)
      PROVE  CInv' /\ [Log!Next]_(Log!logVars)
  <2>1. LineSent \/ UNCHANGED <<buffer, written, run, subscribers, link, current, shown>>
    BY <1>8, AppendedSends DEF SendCommand, CommandAnswered
  <2> QED
    BY <1>1, <1>2, <2>1
<1>9. ASSUME NEW s \in Sockets,
             \/ Accept(s) \/ Refuse(s) \/ Break(s) \/ Connect(s) \/ Message(s) \/ Discard(s)
             \/ ReceiveCommand(s) \/ CommandRevoked(s) \/ SendCommand(s) \/ CommandAnswered(s)
      PROVE  CInv' /\ [Log!Next]_(Log!logVars)
  BY <1>8, <1>9, AcceptKeeps, ConnectKeeps, MessageKeeps, QuietSteps
<1> QED
  BY <1>3, <1>4, <1>5, <1>6, <1>7, <1>9 DEF ConsoleNext

\* The console implements the log it promises: across broken sockets, reconnections
\* and restarts the page shows a stretch of the log, and never goes back.
THEOREM ConsoleShowsLog == ConsoleSpec => ShowsLog
<1>1. ConsoleInit => CInv
  BY CInvHolds
<1>2. CInv /\ [ConsoleNext]_consoleVars => CInv'
  BY ConsoleStep
<1>3. ConsoleInit => Log!Init
  <2> SUFFICES ASSUME ConsoleInit PROVE Log!Init
    OBVIOUS
  <2>1. Stretch(<<>>, 0, 0)
    BY StretchEmpty
  <2>2. LogShown = [run |-> 0, lines |-> Log!Lines(1, 0)]
    <3>1. LogShown = [run |-> 0, lines |-> Log!Lines(0 + 1, 0)]
      BY <2>1, ShownIs DEF ConsoleInit
    <3> QED
      BY <3>1
  <2>3. Log!Lines(1, 0) = <<>>
    BY DEF Log!Lines
  <2> QED
    BY <2>2, <2>3 DEF ConsoleInit, Log!Init
<1>4. CInv /\ [ConsoleNext]_consoleVars => [Log!Next]_(Log!logVars)
  BY ConsoleStep
<1> QED
  BY <1>1, <1>2, <1>3, <1>4, PTL DEF ConsoleSpec, ShowsLog, Log!Spec

(***************************************************************************)
(* The answer to a command.  Its parts have the numbers below their total, *)
(* each once, so that all of them in order are the whole.                  *)
(***************************************************************************)
\* No part is kept twice.
Once(parts) == \A i, j \in 1..Len(parts) : parts[i] = parts[j] => i = j

\* A sequence of all numbers below n, strictly increasing, counts them.
LEMMA IncreasingCounts ==
  ASSUME NEW n \in Nat, NEW order \in [1..n -> 0..(n - 1)],
         \A i, j \in 1..n : i < j => order[i] < order[j],
         \A k \in 0..(n - 1) : \E i \in 1..n : order[i] = k
  PROVE  order = [i \in 1..n |-> i - 1]
<1> DEFINE Bad == {i \in 1..n : order[i] # i - 1}
<1>1. Bad = {}
  <2> SUFFICES ASSUME Bad # {} PROVE FALSE
    OBVIOUS
  <2>1. PICK i \in Bad : \A j \in Bad : i <= j
    <3>1. Bad \in SUBSET Nat
      OBVIOUS
    <3> QED
      BY <3>1, LeastOf
  <2>2. i \in 1..n /\ order[i] # i - 1 /\ order[i] \in 0..(n - 1)
    OBVIOUS
  <2>3. \A j \in 1..n : j < i => order[j] = j - 1
    BY <2>1, <2>2
  <2>4. i - 1 < order[i]
    <3>1. CASE i = 1
      BY <2>2, <3>1
    <3>2. CASE i # 1
      <4>1. i - 1 \in 1..n /\ i - 1 < i
        BY <2>2, <3>2
      <4>2. order[i - 1] = (i - 1) - 1 /\ order[i - 1] < order[i]
        BY <2>2, <2>3, <4>1
      <4> QED
        BY <2>2, <4>2
    <3> QED
      BY <3>1, <3>2
  <2>5. PICK j \in 1..n : order[j] = i - 1
    <3>1. i - 1 \in 0..(n - 1)
      BY <2>2
    <3> QED
      BY <3>1
  <2>6. CASE j < i
    BY <2>2, <2>3, <2>5, <2>6
  <2>7. CASE i < j
    <3>1. order[i] < order[j] /\ order[j] \in 0..(n - 1)
      BY <2>2, <2>7
    <3> QED
      BY <2>2, <2>4, <2>5, <3>1
  <2>8. CASE i = j
    BY <2>2, <2>5, <2>8
  <2> QED
    BY <2>2, <2>6, <2>7, <2>8
<1> QED
  BY <1>1

\* As many parts as there are, each once, are all of them, and in order they count up.
LEMMA JoinedIsWhole ==
  ASSUME NEW n \in Nat, NEW parts \in Seq(0..(n - 1)), Len(parts) = n, Once(parts)
  PROVE  Joined(parts) = [i \in 1..n |-> i - 1]
<1> DEFINE S == 1..n
           T == 0..(n - 1)
<1>1. parts \in [S -> T]
  OBVIOUS
<1>2. parts \in Injection(S, T)
  BY <1>1 DEF Once, Injection, IsInjective
<1>3. IsFiniteSet(S) /\ IsFiniteSet(T) /\ Cardinality(S) = n /\ Cardinality(T) = n
  <2>1. IsFiniteSet(S) /\ Cardinality(S) = IF 1 > n THEN 0 ELSE n - 1 + 1
    BY FS_Interval
  <2>2. IsFiniteSet(T) /\ Cardinality(T) = IF 0 > n - 1 THEN 0 ELSE n - 1 - 0 + 1
    BY FS_Interval
  <2> QED
    BY <2>1, <2>2
<1>4. parts \in Surjection(S, T)
  BY <1>2, <1>3, FS_Injection
<1>5. \A k \in T : \E i \in S : parts[i] = k
  BY <1>4 DEF Surjection
<1>6. ToSet(parts) = T
  BY <1>1, <1>5 DEF ToSet
<1> DEFINE Fits(order) == \A i, j \in S : i < j => order[i] < order[j]
<1>7. Joined(parts) = CHOOSE order \in [S -> T] : Fits(order)
  BY <1>6 DEF Joined
<1>8. \E order \in [S -> T] : Fits(order)
  <2>1. [i \in S |-> i - 1] \in [S -> T] /\ Fits([i \in S |-> i - 1])
    OBVIOUS
  <2> QED
    BY <2>1
<1>9. Joined(parts) \in [S -> T] /\ Fits(Joined(parts))
  BY <1>7, <1>8
<1>10. \A k \in T : \E i \in S : Joined(parts)[i] = k
  <2> DEFINE order == Joined(parts)
  <2> HIDE DEF order
  <2>1. order \in [S -> T] /\ Fits(order)
    BY <1>9 DEF order
  <2>2. order \in Injection(S, T)
    <3>1. ASSUME NEW i \in S, NEW j \in S, order[i] = order[j] PROVE i = j
      <4>1. order[i] \in T /\ order[j] \in T /\ i \in Nat /\ j \in Nat
        BY <2>1
      <4>2. ~ (i < j) /\ ~ (j < i)
        BY <2>1, <3>1, <4>1
      <4> QED
        BY <4>1, <4>2
    <3> QED
      BY <2>1, <3>1 DEF Injection, IsInjective
  <2>3. order \in Surjection(S, T)
    BY <1>3, <2>2, FS_Injection
  <2> QED
    BY <2>3 DEF Surjection, order
<1> QED
  BY <1>9, <1>10, IncreasingCounts

\* The packets of the protocol, and the types of both sides.
RconPackets == [type : {"login", "message", "command"}, ok : BOOLEAN, index : Nat, total : Nat]

Clients ==
  [stage : {"new", "login", "ready", "waiting", "answered", "failed"},
   parts : Seq(Nat), total : Nat, received : Nat, result : Seq(Nat)]

RTyped ==
  /\ wire \subseteq RconPackets /\ gameSide \in [login : BOOLEAN, answered : BOOLEAN]
  /\ client \in Clients

\* Nothing of an answer is on its way, or at the client.
Unanswered ==
  /\ \A packet \in wire : packet.type # "command"
  /\ client.parts = <<>> /\ client.stage # "answered"

\* One answer is on its way: every packet is one of its parts, and the parts the
\* client keeps are some of them, each once, or the answer is whole.
Answering(n) ==
  /\ n \in PartCounts /\ Answer(0, n) \in wire
  /\ \A packet \in wire : packet.type = "command" => packet.total = n /\ packet.index \in 0..(n - 1)
  /\ client.parts \in Seq(0..(n - 1)) /\ Once(client.parts) /\ Len(client.parts) <= n
  /\ client.stage = "answered" => client.result = [i \in 1..n |-> i - 1]

\* The inductive invariant of a command.
WInv ==
  /\ RTyped
  /\ ~ gameSide.answered => Unanswered
  /\ Unanswered \/ \E n \in Nat : Answering(n)

\* A client that has finished keeps nothing but the result.
LEMMA FinishedKeeps ==
  ASSUME NEW stage \in {"answered", "failed"}, NEW r \in Seq(Nat)
  PROVE  /\ Finished(stage, r) \in Clients
         /\ Finished(stage, r).stage = stage /\ Finished(stage, r).parts = <<>> /\ Finished(stage, r).result = r
<1>1. <<>> \in Seq(Nat)
  OBVIOUS
<1> QED
  BY <1>1 DEF Finished, Clients

\* The client's state changes, but not what it keeps of an answer.
LEMMA ClientMoves ==
  ASSUME WInv, RTyped', wire' = wire, gameSide' = gameSide,
         client'.parts = client.parts \/ client'.parts = <<>>, client'.stage # "answered"
  PROVE  WInv'
<1>1. CASE Unanswered
  <2>1. Unanswered'
    BY <1>1 DEF Unanswered
  <2> QED
    BY <2>1 DEF WInv
<1>2. CASE ~ Unanswered
  <2>1. PICK n \in Nat : Answering(n)
    BY <1>2 DEF WInv
  <2>2. <<>> \in Seq(0..(n - 1)) /\ Once(<<>>) /\ Len(<<>>) <= n
    BY DEF Once
  <2>3. Answering(n)'
    BY <2>1, <2>2 DEF Answering
  <2>4. gameSide'.answered
    BY <1>2 DEF WInv, RTyped
  <2> QED
    BY <2>3, <2>4 DEF WInv
<1> QED
  BY <1>1, <1>2

\* A packet that is no part of an answer is sent.
LEMMA WireGrows ==
  ASSUME WInv, NEW packet \in RconPackets, packet.type # "command", wire' = wire \cup {packet},
         client' = client, gameSide'.answered = gameSide.answered, RTyped'
  PROVE  WInv'
<1>1. ~ gameSide'.answered => Unanswered'
  BY DEF WInv, Unanswered
<1>2. CASE Unanswered
  BY <1>1, <1>2 DEF WInv, Unanswered
<1>3. ASSUME NEW n \in Nat, Answering(n) PROVE Answering(n)'
  BY <1>3 DEF Answering
<1> QED
  BY <1>1, <1>2, <1>3 DEF WInv

\* What OnMessage does with a part of the answer.
TakesPart(packet) ==
  LET parts == SetPart(client.parts, packet.index)
      received == client.received + 1
  IN  client' = IF received > MaxResponseBytes THEN Failing
                ELSE IF Len(parts) >= packet.total THEN Finished("answered", Joined(parts))
                ELSE [client EXCEPT !.parts = parts, !.total = packet.total, !.received = received]

\* A part that arrives is kept beside the others, or the answer is whole.
LEMMA PartArrives ==
  ASSUME WInv, NEW packet \in wire, packet.type = "command", client.stage = "waiting",
         wire' = wire, gameSide' = gameSide,
         TakesPart(packet)
  PROVE  WInv'
<1>1. PICK n \in Nat : Answering(n)
  BY DEF WInv, Unanswered
<1>2. packet.total = n /\ packet.index \in 0..(n - 1) /\ packet \in RconPackets
  BY <1>1 DEF Answering, WInv, RTyped
<1> DEFINE parts == SetPart(client.parts, packet.index)
           old == client.parts
<1>3. old \in Seq(0..(n - 1)) /\ Once(old) /\ Len(old) <= n
  BY <1>1 DEF Answering
<1>4. gameSide'.answered
  BY DEF WInv, Unanswered
<1>5. parts \in Seq(0..(n - 1)) /\ Once(parts)
  <2> DEFINE x == packet.index
  <2> HIDE DEF old, x
  <2>1. CASE x \in ToSet(old)
    BY <1>3, <2>1 DEF SetPart, old, x
  <2>2. CASE x \notin ToSet(old)
    <3>1. parts = Append(old, x) /\ x \in 0..(n - 1)
      BY <1>2, <2>2 DEF SetPart, old, x
    <3>2. /\ Append(old, x) \in Seq(0..(n - 1)) /\ Len(Append(old, x)) = Len(old) + 1
          /\ \A i \in 1..Len(old) : Append(old, x)[i] = old[i]
          /\ Append(old, x)[Len(old) + 1] = x
      BY <1>3, <3>1, AppendProperties
    <3>3. \A i \in 1..Len(old) : old[i] # x
      BY <2>2 DEF ToSet
    <3>4. Len(old) \in Nat
      BY <1>3, LenProperties
    <3>5. ASSUME NEW i \in 1..(Len(old) + 1), NEW j \in 1..(Len(old) + 1), Append(old, x)[i] = Append(old, x)[j]
          PROVE  i = j
      <4>1. CASE i # Len(old) + 1 /\ j # Len(old) + 1
        BY <1>3, <3>2, <3>4, <3>5, <4>1 DEF Once
      <4>2. CASE i = Len(old) + 1 \/ j = Len(old) + 1
        BY <3>2, <3>3, <3>4, <3>5, <4>2
      <4> QED
        BY <4>1, <4>2
    <3>6. Once(Append(old, x))
      BY <3>2, <3>5 DEF Once
    <3> HIDE DEF parts
    <3> QED
      BY <3>1, <3>2, <3>6
  <2> QED
    BY <2>1, <2>2
<1>6. Len(parts) \in Nat /\ Len(parts) <= n
  <2> HIDE DEF parts
  <2>1. parts \in [1..Len(parts) -> 0..(n - 1)] /\ Len(parts) \in Nat
    BY <1>5, LenProperties
  <2>2. parts \in Injection(1..Len(parts), 0..(n - 1))
    BY <1>5, <2>1 DEF Once, Injection, IsInjective
  <2>3. /\ IsFiniteSet(1..Len(parts)) /\ IsFiniteSet(0..(n - 1))
        /\ Cardinality(1..Len(parts)) = Len(parts) /\ Cardinality(0..(n - 1)) = n
    <3>1. /\ IsFiniteSet(1..Len(parts))
          /\ Cardinality(1..Len(parts)) = IF 1 > Len(parts) THEN 0 ELSE Len(parts) - 1 + 1
      <4>1. 1 \in Int /\ Len(parts) \in Int
        BY <2>1
      <4> QED
        BY <4>1, FS_Interval
    <3>2. IsFiniteSet(0..(n - 1)) /\ Cardinality(0..(n - 1)) = IF 0 > n - 1 THEN 0 ELSE n - 1 - 0 + 1
      BY FS_Interval, n - 1 \in Int
    <3> QED
      BY <2>1, <3>1, <3>2
  <2>4. Cardinality(1..Len(parts)) <= Cardinality(0..(n - 1))
    BY <2>2, <2>3, FS_Injection
  <2> QED
    BY <2>1, <2>3, <2>4
<1>7. client' = IF client.received + 1 > MaxResponseBytes THEN Failing
                ELSE IF Len(parts) >= packet.total THEN Finished("answered", Joined(parts))
                ELSE [client EXCEPT !.parts = parts, !.total = packet.total, !.received = client.received + 1]
  BY DEF TakesPart
<1> HIDE DEF parts, old
<1>8. <<>> \in Seq(Nat) /\ <<>> \in Seq(0..(n - 1)) /\ Once(<<>>) /\ Len(<<>>) <= n
  BY DEF Once
<1>9. wire' = wire /\ gameSide' = gameSide
  OBVIOUS
<1>10. CASE client.received + 1 > MaxResponseBytes
  <2>1. client' = Failing
    BY <1>7, <1>10
  <2>2. client'.stage = "failed" /\ client'.parts = <<>> /\ client' \in Clients
    <3>1. <<>> \in Seq(Nat)
      OBVIOUS
    <3> QED
      BY <2>1, <3>1, FinishedKeeps DEF Failing
  <2>3. RTyped'
    BY <1>9, <2>2 DEF WInv, RTyped
  <2> QED
    BY <1>9, <2>2, <2>3, ClientMoves
<1>11. CASE ~ (client.received + 1 > MaxResponseBytes) /\ Len(parts) >= packet.total
  <2>1. client' = Finished("answered", Joined(parts))
    BY <1>7, <1>11
  <2>2. Joined(parts) = [i \in 1..n |-> i - 1]
    BY <1>2, <1>5, <1>6, <1>11, JoinedIsWhole
  <2>3. [i \in 1..n |-> i - 1] \in Seq(Nat)
    OBVIOUS
  <2>4. /\ client'.stage = "answered" /\ client'.parts = <<>> /\ client'.result = [i \in 1..n |-> i - 1]
        /\ client' \in Clients
    <3>1. PICK r : r = [i \in 1..n |-> i - 1]
      OBVIOUS
    <3>2. r \in Seq(Nat) /\ client' = Finished("answered", r)
      BY <2>1, <2>2, <2>3, <3>1
    <3> QED
      BY <3>1, <3>2, FinishedKeeps
  <2>5. RTyped'
    BY <1>9, <2>4 DEF WInv, RTyped
  <2>6. Answering(n)'
    BY <1>1, <1>8, <1>9, <2>4 DEF Answering
  <2> QED
    BY <1>4, <2>5, <2>6 DEF WInv
<1>12. CASE ~ (client.received + 1 > MaxResponseBytes) /\ ~ (Len(parts) >= packet.total)
  <2>1. client' = [client EXCEPT !.parts = parts, !.total = packet.total, !.received = client.received + 1]
    BY <1>7, <1>12
  <2>2. parts \in Seq(Nat)
    BY <1>5
  <2>3. /\ client'.stage = "waiting" /\ client'.parts = parts
        /\ client' \in Clients
    <3>1. client \in Clients /\ packet.total \in Nat
      BY <1>2 DEF WInv, RTyped, RconPackets
    <3>2. client.received + 1 \in Nat /\ client.stage = "waiting"
      BY <3>1 DEF Clients
    <3> QED
      BY <2>1, <2>2, <3>1, <3>2 DEF Clients
  <2>4. RTyped'
    BY <1>9, <2>3 DEF WInv, RTyped
  <2>5. Answering(n)'
    BY <1>1, <1>5, <1>6, <1>9, <2>3 DEF Answering
  <2> QED
    BY <1>4, <2>4, <2>5 DEF WInv
<1> QED
  BY <1>10, <1>11, <1>12

\* Every step keeps the invariant.
LEMMA RconStep ==
  ASSUME WInv, [RconNext]_rconVars
  PROVE  WInv'
<1>1. RTyped
  BY DEF WInv
<1>2. CASE UNCHANGED rconVars
  BY <1>2 DEF rconVars, WInv, RTyped, Unanswered, Answering
<1>3. CASE ServeLogin
  <2>1. PICK ok \in BOOLEAN : wire' = wire \cup {Login(ok)} /\ gameSide' = [gameSide EXCEPT !.login = ok]
    BY <1>3 DEF ServeLogin
  <2>2. Login(ok) \in RconPackets /\ Login(ok).type # "command"
    BY DEF Login, RconPackets
  <2>3. gameSide'.answered = gameSide.answered /\ RTyped' /\ client' = client
    BY <1>1, <1>3, <2>1, <2>2 DEF ServeLogin, RTyped
  <2> QED
    BY <2>1, <2>2, <2>3, WireGrows
<1>4. CASE ServeMessage
  <2>1. ServerMessage \in RconPackets /\ ServerMessage.type # "command"
    BY DEF ServerMessage, RconPackets
  <2>2. wire' = wire \cup {ServerMessage} /\ client' = client /\ gameSide' = gameSide
    BY <1>4 DEF ServeMessage
  <2>3. RTyped'
    BY <1>1, <2>1, <2>2 DEF RTyped
  <2> QED
    BY <2>1, <2>2, <2>3, WireGrows
<1>5. CASE ServeCommand
  <2>1. PICK n \in PartCounts : wire' = wire \cup {Answer(i, n) : i \in 0..(n - 1)}
    BY <1>5 DEF ServeCommand
  <2>2. n \in Nat \ {0}
    BY RconAssumption
  <2>3. /\ gameSide' = [gameSide EXCEPT !.answered = TRUE] /\ client' = client /\ Unanswered
    BY <1>5 DEF ServeCommand, WInv
  <2>4. ASSUME NEW packet \in wire', packet.type = "command"
        PROVE  packet.total = n /\ packet.index \in 0..(n - 1)
    <3>1. PICK i \in 0..(n - 1) : packet = Answer(i, n)
      BY <2>1, <2>3, <2>4 DEF Unanswered
    <3> QED
      BY <3>1 DEF Answer
  <2>5. \A i \in 0..(n - 1) : Answer(i, n) \in RconPackets
    BY <2>2 DEF Answer, RconPackets
  <2>6. RTyped'
    BY <1>1, <2>1, <2>3, <2>5 DEF RTyped
  <2>7. Answer(0, n) \in wire'
    BY <2>1, <2>2
  <2>8. Answering(n)'
    <3>1. client'.parts = <<>> /\ client'.stage # "answered"
      BY <2>3 DEF Unanswered
    <3>2. <<>> \in Seq(0..(n - 1)) /\ Once(<<>>) /\ Len(<<>>) <= n
      BY <2>2 DEF Once
    <3> QED
      BY <2>4, <2>7, <3>1, <3>2 DEF Answering
  <2>9. gameSide'.answered
    BY <1>1, <2>3 DEF RTyped
  <2> QED
    BY <2>2, <2>6, <2>8, <2>9 DEF WInv
<1>6. ASSUME client' = [client EXCEPT !.stage = "login"] \/ client' = [client EXCEPT !.stage = "ready"]
               \/ client' = [client EXCEPT !.stage = "waiting"] \/ client' = Failing,
             wire' = wire, gameSide' = gameSide
      PROVE  WInv'
  <2>1. client \in Clients /\ <<>> \in Seq(Nat)
    BY <1>1 DEF RTyped
  <2>2. client' \in Clients /\ client'.stage # "answered" /\ (client'.parts = client.parts \/ client'.parts = <<>>)
    <3>1. CASE client' = Failing
      BY <2>1, <3>1, FinishedKeeps DEF Failing
    <3>2. CASE client' # Failing
      BY <1>6, <2>1, <3>2 DEF Clients
    <3> QED
      BY <3>1, <3>2
  <2>3. RTyped'
    BY <1>1, <1>6, <2>2 DEF RTyped
  <2> QED
    BY <1>6, <2>2, <2>3, ClientMoves
<1>7. CASE ConnectRcon \/ OnLogin \/ Send \/ TimeOut
  BY <1>6, <1>7 DEF ConnectRcon, OnLogin, Send, TimeOut
<1>8. CASE OnMessage
  <2>1. PICK packet \in wire :
          CASE packet.type = "message" -> asked' = asked \cup {"ack"} /\ UNCHANGED client
            [] packet.type # "message" /\ (packet.type = "login" \/ client.stage = "ready") ->
                 UNCHANGED <<client, asked>>
            [] OTHER ->
                 LET parts == SetPart(client.parts, packet.index)
                     received == client.received + 1
                 IN  /\ client' = IF received > MaxResponseBytes THEN Failing
                                  ELSE IF Len(parts) >= packet.total THEN Finished("answered", Joined(parts))
                                  ELSE [client EXCEPT !.parts = parts, !.total = packet.total,
                                                      !.received = received]
                     /\ UNCHANGED asked
    BY <1>8 DEF OnMessage
  <2>2. wire' = wire /\ gameSide' = gameSide /\ client.stage \in {"ready", "waiting"}
    BY <1>8 DEF OnMessage
  <2>3. CASE packet.type = "message" \/ packet.type = "login" \/ client.stage = "ready"
    <3>1. client' = client
      BY <2>1, <2>3
    <3>2. RTyped' /\ client'.stage # "answered"
      BY <1>1, <2>2, <3>1 DEF RTyped
    <3> QED
      BY <2>2, <3>1, <3>2, ClientMoves
  <2>4. CASE ~ (packet.type = "message" \/ packet.type = "login" \/ client.stage = "ready")
    <3>1. packet.type = "command" /\ client.stage = "waiting"
      BY <1>1, <2>2, <2>4 DEF RTyped, RconPackets
    <3>2. TakesPart(packet)
      BY <2>1, <2>4 DEF TakesPart
    <3> QED
      BY <2>2, <3>1, <3>2, PartArrives
  <2> QED
    BY <2>3, <2>4
<1> QED
  BY <1>2, <1>3, <1>4, <1>5, <1>7, <1>8 DEF RconNext

\* An answer that is shown is the whole answer, its parts in their order and each
\* of them once, for any number of parts and however the packets came.
THEOREM CommandAlwaysWhole == RconSpec => []CommandWhole
<1>1. RconInit => WInv
  BY DEF RconInit, WInv, RTyped, Unanswered, Clients
<1>2. WInv /\ [RconNext]_rconVars => WInv'
  BY RconStep
<1>3. WInv => CommandWhole
  BY DEF WInv, Unanswered, Answering, CommandWhole
<1> QED
  BY <1>1, <1>2, <1>3, PTL DEF RconSpec

(***************************************************************************)
(* The forwarded ports.  Requests in turn leave every row with what the    *)
(* router was heard to grant; what a request under way still has to write  *)
(* down is told by its own record.                                         *)
(***************************************************************************)
RowMethods == {"MANUAL", "DIRECT", "RELAY", "NATPMP", "PCP", "UPNP"}
Mapped == {"NATPMP", "PCP", "UPNP"}
MapRows == [method : RowMethods, active : BOOLEAN, lease : Nat]
Environments == {NoEnvironment} \cup UNION {ProbeNatEnvironment(h.host, h.router) : h \in Homes}
Addresses ==
  {None, "blank", "relay", "public"} \cup {h.router.external : h \in Homes} \cup {e.external : e \in Environments}
OutcomeRows == [method : RowMethods, success : BOOLEAN, address : Addresses, lease : Nat]
CallKinds == {"none", "forward", "save", "release", "released", "renew", "renewed"}
CallRows ==
  [kind : CallKinds, preferred : Preferences \cup {None}, lease : Nat, env : Environments,
   todo : Seq(Keys), read : {<<>>} \cup [Keys -> MapRows], out : {<<>>} \cup [Keys -> OutcomeRows]]

\* What each kind of request carries.
Carries(r) ==
  /\ r.kind = "none" => r = Rest
  /\ r.kind \in {"forward", "save"} => r.out \in [Keys -> OutcomeRows]
  /\ r.kind = "forward" => r.preferred \in Preferences /\ r.lease \in Leases
  /\ r.kind \in {"release", "released", "renew", "renewed"} => r.read \in [Keys -> MapRows] /\ r.preferred = None
  /\ r.kind \in {"released", "renewed"} => r.todo # <<>>
  /\ r.kind \in {"renew", "renewed"} => IsInjective(r.todo)

\* The type invariant of forwarding.
ForwardingTyped ==
  /\ home \in Homes /\ minute \in 0 .. LastMinute
  /\ mappings \in [Keys -> MapRows] /\ DOMAIN granted = Keys /\ env.value \in Environments
  /\ call \in [Calls -> CallRows] /\ \A c \in Calls : Carries(call[c])
  /\ {crossed, short, swept} \subseteq BOOLEAN

\* Whoever asks for a relay has had nothing but the relay's answers.
OnlyRelay(r) ==
  r.kind \in {"forward", "save"} /\ r.preferred = "relay" /\ home.relay =>
    \A k \in Keys : \/ r.kind = "forward" /\ k \in ToSet(r.todo)
                    \/ r.out[k].method = "RELAY" /\ r.out[k].address \in {"relay", "blank", None}

\* An outcome says what the router has just granted.
Told(k, o) ==
  o.success => IF o.method \in Mapped THEN granted[k] = IF o.lease = 0 THEN Forever ELSE minute + o.lease
               ELSE o.lease = 0

\* A row says what the router holds, and one that is not active any more was
\* given up or has run out.
Agrees(k) ==
  /\ mappings[k].active =>
       IF mappings[k].method \in Mapped
       THEN granted[k] = IF mappings[k].lease = 0 THEN Forever ELSE mappings[k].lease
       ELSE mappings[k].lease = 0
  /\ ~ mappings[k].active =>
       mappings[k].lease = 0 /\ (k \in promised => granted[k] \in Int /\ granted[k] <= minute)

\* A row that is active does not run out before the clock moves.
Fresh(k) == mappings[k].active /\ mappings[k].lease # 0 => mappings[k].lease > minute

\* The rows a request is about to write.
ToWrite(r, k) ==
  \/ r.kind = "forward"
  \/ r.kind = "save" /\ k \in ToSet(r.todo)
  \/ r.kind \in {"released", "renewed"} /\ k = Head(r.todo)

\* What holds while r is the only request under way, or nothing is.
Sound(r) ==
  /\ \A k \in Keys : Agrees(k) \/ ToWrite(r, k)
  /\ r.kind \in {"forward", "save"} => \A k \in Keys : Told(k, r.out[k])
  /\ r.kind \in {"renew", "renewed"} =>
       /\ \A k \in ToSet(r.todo) : /\ mappings[k] = r.read[k] /\ r.read[k].active
                                 /\ r.read[k].lease # 0 /\ r.read[k].method \in Mapped
       /\ \A k \in Keys \ ToSet(r.todo) : Fresh(k)
  /\ r.kind = "renewed" =>
       LET k == Head(r.todo) IN
       granted[k] = IF r.lease = Renewal THEN minute + Renewal ELSE mappings[k].lease
  /\ swept => \A k \in Keys : Fresh(k)

Alone(c) == \A d \in Calls : d # c => call[d].kind = "none"

RowsSound ==
  /\ \A c \in Calls : call[c].kind # "none" => Alone(c)
  /\ ~ short => /\ \A c \in Calls : call[c].kind # "none" => Sound(call[c])
                /\ (\A c \in Calls : call[c].kind = "none") => Sound(Rest)

\* The inductive invariant of forwarding.
MapInv == ForwardingTyped /\ (\A c \in Calls : OnlyRelay(call[c])) /\ (~ crossed => RowsSound)

\* The keys are those of the rows.
LEMMA KeysAre ==
  ASSUME home \in Homes
  PROVE  /\ PortKeys \in Seq(Keys) /\ IsInjective(PortKeys) /\ "game" \in Keys
         /\ Renewal \in Nat \ {0} /\ Forever \in Nat /\ Renewal < Forever
         /\ LastMinute \in Nat /\ LastMinute < Forever /\ Soon \in Nat \ {0} /\ Leases \subseteq Nat
BY ForwardingAssumption, NatAssumption DEF Keys, PortKeys

\* What is left to do, when the first of it is done.
LEMMA RestOfList ==
  ASSUME NEW S, NEW s \in Seq(S), s # <<>>
  PROVE  /\ Head(s) \in S /\ Tail(s) \in Seq(S) /\ ToSet(s) = {Head(s)} \cup ToSet(Tail(s))
         /\ ToSet(s) \subseteq S /\ (Len(s) = 1 => ToSet(Tail(s)) = {})
         /\ IsInjective(s) => Head(s) \notin ToSet(Tail(s)) /\ IsInjective(Tail(s))
<1>1. /\ Head(s) = s[1] /\ Tail(s) \in Seq(S) /\ Len(Tail(s)) = Len(s) - 1 /\ Len(s) \in Nat \ {0}
      /\ \A i \in 1..Len(Tail(s)) : Tail(s)[i] = s[i + 1]
      /\ DOMAIN s = 1..Len(s) /\ DOMAIN Tail(s) = 1..Len(Tail(s))
  BY HeadTailProperties, LenProperties, EmptySeq
<1>2. \A i \in 1..Len(s) : s[i] \in S
  BY ElementOfSeq
<1>3. ToSet(s) = {s[i] : i \in 1..Len(s)} /\ ToSet(Tail(s)) = {Tail(s)[i] : i \in 1..Len(Tail(s))}
  BY <1>1 DEF ToSet
<1>4. ToSet(s) = {Head(s)} \cup ToSet(Tail(s))
  <2>1. ASSUME NEW i \in 1..Len(s) PROVE s[i] = Head(s) \/ s[i] \in ToSet(Tail(s))
    <3>1. CASE i = 1
      BY <1>1, <3>1
    <3>2. CASE i # 1
      <4>1. i - 1 \in 1..Len(Tail(s)) /\ (i - 1) + 1 = i
        BY <1>1, <3>2
      <4> QED
        BY <1>1, <1>3, <4>1
    <3> QED
      BY <3>1, <3>2
  <2>2. ASSUME NEW i \in 1..Len(Tail(s)) PROVE Tail(s)[i] \in ToSet(s)
    <3>1. i + 1 \in 1..Len(s)
      BY <1>1
    <3> QED
      BY <1>1, <1>3, <3>1
  <2>3. Head(s) \in ToSet(s)
    BY <1>1, <1>3
  <2> QED
    BY <1>3, <2>1, <2>2, <2>3
<1>5. ASSUME IsInjective(s) PROVE Head(s) \notin ToSet(Tail(s)) /\ IsInjective(Tail(s))
  <2>1. \A i, j \in 1..Len(s) : s[i] = s[j] => i = j
    BY <1>1, <1>5 DEF IsInjective, Injection
  <2>2. \A i \in 1..Len(Tail(s)) : i + 1 \in 1..Len(s) /\ i + 1 # 1
    BY <1>1
  <2>3. Head(s) \notin ToSet(Tail(s))
    BY <1>1, <1>3, <2>1, <2>2
  <2>4. \A i, j \in 1..Len(Tail(s)) : Tail(s)[i] = Tail(s)[j] => i = j
    BY <1>1, <2>1, <2>2
  <2> QED
    BY <1>1, <2>3, <2>4 DEF IsInjective, Injection
<1>6. ASSUME Len(s) = 1 PROVE ToSet(Tail(s)) = {}
  <2>1. Len(Tail(s)) = 0
    BY <1>1, <1>6
  <2>2. \A i \in 1..0 : FALSE
    OBVIOUS
  <2> QED
    BY <1>3, <2>1, <2>2
<1>7. Head(s) \in S /\ ToSet(s) \subseteq S
  BY <1>1, <1>2, <1>3
<1> QED
  BY <1>1, <1>4, <1>5, <1>6, <1>7

\* [f] keeps those of a set among the first n rows, as InRows does.
Keeps(n, f, rows, keys) ==
  f = [k \in 0..n |-> IF k = 0 THEN <<>>
                      ELSE IF rows[k] \in keys THEN Append(f[k - 1], rows[k]) ELSE f[k - 1]]

\* There is such a function, however many rows there are.
LEMMA KeepsExists ==
  ASSUME NEW rows, NEW keys, NEW n \in Nat
  PROVE  \E f : Keeps(n, f, rows, keys)
<1> DEFINE Bad == {k \in Nat : ~ \E f : Keeps(k, f, rows, keys)}
<1>1. SUFFICES ASSUME Bad # {} PROVE FALSE
  BY <1>1 DEF Bad
<1>2. PICK k \in Bad : \A m \in Bad : k <= m
  BY <1>1, LeastOf
<1>3. CASE k = 0
  <2>1. Keeps(0, [i \in 0..0 |-> <<>>], rows, keys)
    BY DEF Keeps
  <2> QED
    BY <1>2, <1>3, <2>1
<1>4. CASE k # 0
  <2>1. k - 1 \in Nat /\ k - 1 \notin Bad /\ k \in Nat
    BY <1>2, <1>4
  <2>2. PICK f : Keeps(k - 1, f, rows, keys)
    BY <2>1
  <2> DEFINE g == [i \in 0..k |-> IF i = k
                     THEN IF rows[k] \in keys THEN Append(f[k - 1], rows[k]) ELSE f[k - 1] ELSE f[i]]
  <2>3. \A i \in 0..(k - 1) : g[i] = f[i]
    BY <2>1
  <2>4. ASSUME NEW i \in 0..k
        PROVE  g[i] = IF i = 0 THEN <<>>
                      ELSE IF rows[i] \in keys THEN Append(g[i - 1], rows[i]) ELSE g[i - 1]
    <3>1. CASE i = k
      BY <1>4, <2>1, <2>3, <3>1
    <3>2. CASE i # k
      <4>1. i \in 0..(k - 1) /\ (i # 0 => i - 1 \in 0..(k - 1))
        BY <2>1, <3>2
      <4>2. g[i] = f[i] /\ (i # 0 => g[i - 1] = f[i - 1])
        BY <2>3, <4>1
      <4>3. f[i] = IF i = 0 THEN <<>>
                   ELSE IF rows[i] \in keys THEN Append(f[i - 1], rows[i]) ELSE f[i - 1]
        BY <2>2, <4>1 DEF Keeps
      <4> QED
        BY <4>2, <4>3
    <3> QED
      BY <3>1, <3>2
  <2>5. Keeps(k, g, rows, keys)
    BY <2>4 DEF Keeps
  <2> QED
    BY <1>2, <2>1, <2>5
<1> QED
  BY <1>3, <1>4

\* A sequence that one more is appended to.
LEMMA OneMore ==
  ASSUME NEW S, NEW s \in Seq(S), NEW e \in S, IsInjective(s), e \notin ToSet(s)
  PROVE  /\ Append(s, e) \in Seq(S) /\ ToSet(Append(s, e)) = ToSet(s) \cup {e}
         /\ IsInjective(Append(s, e))
<1> DEFINE t == Append(s, e)
<1>1. /\ t \in Seq(S) /\ Len(t) = Len(s) + 1 /\ Len(s) \in Nat /\ t[Len(s) + 1] = e
      /\ \A i \in 1..Len(s) : t[i] = s[i]
  BY AppendProperties, LenProperties
<1>2. DOMAIN s = 1..Len(s) /\ DOMAIN t = 1..Len(t)
  BY <1>1, LenProperties
<1>3. ToSet(s) = {s[i] : i \in 1..Len(s)} /\ ToSet(t) = {t[i] : i \in 1..Len(t)}
  BY <1>2 DEF ToSet
<1>4. \A i, j \in 1..Len(s) : s[i] = s[j] => i = j
  BY <1>2 DEF IsInjective, Injection
<1> HIDE DEF t
<1>5. \A i \in 1..Len(t) : i = Len(s) + 1 \/ i \in 1..Len(s)
  BY <1>1
<1>6. \A i \in 1..Len(s) : s[i] # e
  BY <1>3
<1>7. \A i, j \in 1..Len(t) : t[i] = t[j] => i = j
  BY <1>1, <1>4, <1>5, <1>6
<1>8. 1..Len(t) = (1..Len(s)) \cup {Len(s) + 1}
  BY <1>1
<1>9. ToSet(t) = ToSet(s) \cup {e}
  BY <1>1, <1>3, <1>8
<1>10. IsInjective(t)
  BY <1>2, <1>7 DEF IsInjective, Injection
<1> QED
  BY <1>1, <1>9, <1>10 DEF t

\* The rows of a set: each once, in a sequence.
LEMMA RowsOf ==
  ASSUME home \in Homes, NEW keys
  PROVE  InRows(keys) \in Seq(Keys) /\ ToSet(InRows(keys)) = keys \cap Keys /\ IsInjective(InRows(keys))
<1>1. PICK rows : rows = PortKeys
  OBVIOUS
<1>2. PICK S : S = Keys
  OBVIOUS
<1>3. rows \in Seq(S) /\ IsInjective(rows) /\ Len(rows) \in Nat /\ DOMAIN rows = 1..Len(rows)
  BY <1>1, <1>2, KeysAre, LenProperties
<1> DEFINE Kept == CHOOSE f : Keeps(Len(rows), f, rows, keys)
<1>4. Keeps(Len(rows), Kept, rows, keys)
  BY <1>3, KeepsExists
<1>5. InRows(keys) = Kept[Len(rows)]
  BY <1>1 DEF InRows, Keeps
<1> HIDE DEF Kept
<1> DEFINE Good(n) == /\ Kept[n] \in Seq(S) /\ IsInjective(Kept[n])
                      /\ ToSet(Kept[n]) = {rows[i] : i \in 1..n} \cap keys
           Bad == {n \in 0..Len(rows) : ~ Good(n)}
<1>6. Bad = {}
  <2> SUFFICES ASSUME Bad # {} PROVE FALSE
    OBVIOUS
  <2>1. PICK n \in Bad : \A m \in Bad : n <= m
    <3>1. Bad \in SUBSET Nat
      BY <1>3
    <3> HIDE DEF Bad
    <3> QED
      BY <3>1, LeastOf
  <2>2. CASE n = 0
    <3>1. Kept[0] = <<>>
      BY <1>3, <1>4 DEF Keeps
    <3>2. <<>> \in Seq(S) /\ DOMAIN <<>> = {}
      OBVIOUS
    <3>3. ToSet(<<>>) = {} /\ IsInjective(<<>>)
      BY <3>2 DEF ToSet, IsInjective, Injection
    <3>4. {rows[i] : i \in 1..0} = {}
      OBVIOUS
    <3>5. Good(0)
      BY <3>1, <3>2, <3>3, <3>4
    <3> QED
      BY <2>1, <2>2, <3>5
  <2>3. CASE n # 0
    <3>1. n - 1 \in 0..Len(rows) /\ n \in 1..Len(rows) /\ ~ (n <= n - 1)
      BY <1>3, <2>1, <2>3
    <3>2. Good(n - 1)
      <4>1. n - 1 \notin Bad
        BY <2>1, <3>1
      <4> QED
        BY <3>1, <4>1
    <3>3. Kept[n] = IF rows[n] \in keys THEN Append(Kept[n - 1], rows[n]) ELSE Kept[n - 1]
      BY <1>4, <2>3, <3>1 DEF Keeps
    <3>4. rows[n] \in S
      BY <1>3, <3>1, ElementOfSeq
    <3>5. \A i \in 1..(n - 1) : rows[i] # rows[n]
      <4>1. \A i \in 1..(n - 1) : i \in 1..Len(rows) /\ i # n
        BY <1>3, <3>1
      <4> QED
        BY <1>3, <3>1, <4>1 DEF IsInjective, Injection
    <3>6. {rows[i] : i \in 1..n} = {rows[i] : i \in 1..(n - 1)} \cup {rows[n]}
      <4>1. 1..n = (1..(n - 1)) \cup {n}
        BY <1>3, <3>1
      <4> QED
        BY <4>1
    <3>7. PICK u : u = Kept[n - 1]
      OBVIOUS
    <3>8. u \in Seq(S) /\ IsInjective(u) /\ ToSet(u) = {rows[i] : i \in 1..(n - 1)} \cap keys
      BY <3>2, <3>7
    <3>9. rows[n] \notin ToSet(u)
      BY <3>5, <3>8
    <3>10. CASE rows[n] \in keys
      <4>1. /\ Append(u, rows[n]) \in Seq(S) /\ ToSet(Append(u, rows[n])) = ToSet(u) \cup {rows[n]}
            /\ IsInjective(Append(u, rows[n]))
        BY <3>4, <3>8, <3>9, OneMore
      <4>2. Good(n)
        BY <3>3, <3>6, <3>7, <3>8, <3>10, <4>1
      <4> QED
        BY <2>1, <4>2
    <3>11. CASE rows[n] \notin keys
      <4>1. Good(n)
        BY <3>3, <3>6, <3>7, <3>8, <3>11
      <4> QED
        BY <2>1, <4>1
    <3> QED
      BY <3>10, <3>11
  <2> QED
    BY <2>2, <2>3
<1>7. Good(Len(rows))
  <2>1. Len(rows) \in 0..Len(rows)
    BY <1>3
  <2>2. ASSUME ~ Good(Len(rows)) PROVE FALSE
    <3>1. Len(rows) \in Bad
      BY <2>1, <2>2
    <3> HIDE DEF Bad
    <3> QED
      BY <1>6, <3>1
  <2> QED
    BY <2>2
<1>8. {rows[i] : i \in 1..Len(rows)} = S
  BY <1>1, <1>2, <1>3 DEF Keys, ToSet
<1> QED
  BY <1>2, <1>5, <1>7, <1>8

\* An attempt that succeeds tells how long the router maps the port.
Honest(a) ==
  a.ok => \/ a.told = 0 /\ a.granted = Forever
          \/ a.told \in Nat \ {0} /\ a.told < Forever /\ a.granted = a.told

LanMethods == {"natpmp", "pcp", "upnp"}

\* What the router grants, it tells.
LEMMA LanMapTells ==
  ASSUME home \in Homes, NEW method \in LanMethods, NEW e, NEW lease \in Nat, lease < Forever,
         NEW a \in LanMap(method, e, lease)
  PROVE  Honest(a) /\ a.ok \in BOOLEAN /\ a.told \in Nat
<1>1. LeaseAsked(lease) \in Nat \ {0} /\ LeaseAsked(lease) < Forever
  BY KeysAre DEF LeaseAsked
<1>2. \A b \in Granting(lease) : Honest(b) /\ b.ok \in BOOLEAN /\ b.told \in Nat
  <2>1. \A t \in {1, LeaseAsked(lease)} \cap 0..LeaseAsked(lease) : t \in Nat \ {0} /\ t < Forever
    <3>1. 1 < Forever
      BY KeysAre
    <3> QED
      BY <1>1, <3>1
  <2>2. \A ok \in BOOLEAN, t \in {1, LeaseAsked(lease)} \cap 0..LeaseAsked(lease) :
          Honest(Attempt(ok, t, t)) /\ Attempt(ok, t, t).ok \in BOOLEAN /\ Attempt(ok, t, t).told \in Nat
    BY <2>1 DEF Attempt, Honest
  <2>3. Honest(Failed) /\ Failed.ok \in BOOLEAN /\ Failed.told \in Nat
    BY DEF Failed, Attempt, Honest
  <2> QED
    BY <2>2, <2>3 DEF Granting
<1>3. Honest(Failed) /\ Failed.ok \in BOOLEAN /\ Failed.told \in Nat
  BY DEF Failed, Attempt, Honest
<1>4. \A b \in UpnpMap(home.router, lease) : Honest(b) /\ b.ok \in BOOLEAN /\ b.told \in Nat
  <2> SUFFICES ASSUME NEW answer \in SoapCall(home.router)
               PROVE  LET b == CASE answer = "done" ->
                                 Attempt(TRUE, IF home.router.permanent \/ lease = 0 THEN 0 ELSE lease,
                                         IF home.router.permanent \/ lease = 0 THEN Forever ELSE lease)
                                 [] answer = "unheard" ->
                                 Attempt(FALSE, 0, IF home.router.permanent \/ lease = 0 THEN Forever ELSE lease)
                                 [] OTHER -> Failed
                      IN  Honest(b) /\ b.ok \in BOOLEAN /\ b.told \in Nat
    BY DEF UpnpMap
  <2> QED
    BY <1>3 DEF Attempt, Honest
<1>5. CASE method = "natpmp"
  BY <1>2, <1>3, <1>5 DEF LanMap, NatpmpMap
<1>6. CASE method = "pcp"
  BY <1>2, <1>3, <1>6 DEF LanMap, PcpMap
<1>7. CASE method = "upnp"
  BY <1>3, <1>4, <1>7 DEF LanMap
<1> QED
  BY <1>5, <1>6, <1>7 DEF LanMethods

\* What comes of asking for one port: an outcome, and the grant it tells of.
Fair(f) ==
  /\ f.out \in OutcomeRows
  /\ f.out.success => IF f.out.method \in Mapped THEN Honest([ok |-> TRUE, told |-> f.out.lease, granted |-> f.effect])
                      ELSE f.out.lease = 0

\* The router is asked in one way after the other.
LEMMA LanOutcomesFair ==
  ASSUME home \in Homes, NEW methods \in Seq(LanMethods), NEW e, NEW lease \in Nat, lease < Forever,
         NEW f \in LanOutcomes(methods, e, lease)
  PROVE  Fair(f)
<1>1. \A i \in DOMAIN methods : methods[i] \in LanMethods
  BY ElementOfSeq, LenProperties
<1>2. home.router.external \in Addresses /\ {None, "public", "relay", "blank"} \subseteq Addresses
  BY DEF Addresses
<1>3. ASSUME NEW i \in DOMAIN methods, NEW a \in LanMap(methods[i], e, lease), a.ok,
             f = [out |-> Outcome(RowMethod[methods[i]], TRUE, home.router.external, a.told), effect |-> a.granted]
      PROVE  Fair(f)
  <2>1. Honest(a) /\ a.told \in Nat
    BY <1>1, <1>3, LanMapTells
  <2>2. RowMethod[methods[i]] \in Mapped /\ RowMethod[methods[i]] \in RowMethods
    BY <1>1, <1>3 DEF RowMethod, Mapped, RowMethods, LanMethods
  <2>3. /\ f.out \in OutcomeRows /\ f.out.method = RowMethod[methods[i]] /\ f.out.lease = a.told
    BY <1>2, <1>3, <2>1, <2>2 DEF Outcome, OutcomeRows
  <2> QED
    BY <1>3, <2>1, <2>2, <2>3 DEF Fair, Honest
<1>4. ASSUME NEW a, f = [out |-> Manual(IF home.static THEN "public" ELSE None), effect |-> a.granted]
      PROVE  Fair(f)
  <2>1. (IF home.static THEN "public" ELSE None) \in Addresses
    BY <1>2
  <2>2. f.out \in OutcomeRows /\ f.out.success = FALSE
    BY <1>4, <2>1 DEF Manual, RowMethods, Outcome, OutcomeRows
  <2> QED
    BY <2>2 DEF Fair
<1>5. \/ \E i \in DOMAIN methods : \E a \in LanMap(methods[i], e, lease) :
           a.ok /\ f = [out |-> Outcome(RowMethod[methods[i]], TRUE, home.router.external, a.told), effect |-> a.granted]
      \/ \E a : f = [out |-> Manual(IF home.static THEN "public" ELSE None), effect |-> a.granted]
  BY DEF LanOutcomes
<1> QED
  BY <1>3, <1>4, <1>5

\* What a direct mapping comes to.
LEMMA DirectFair ==
  ASSUME home \in Homes, NEW r \in CallRows, Carries(r), r.kind = "forward", NEW f \in Direct(r)
  PROVE  Fair(f)
<1>1. /\ r.env \in Environments /\ r.preferred \in Preferences /\ r.lease \in Leases
      /\ r.lease \in Nat /\ r.lease < Forever
  BY ForwardingAssumption, NatAssumption DEF CallRows, Carries
<1>2. r.env.external \in Addresses /\ None \in Addresses
  BY <1>1 DEF Addresses
<1>3. ASSUME f = [out |-> Outcome("DIRECT", TRUE, r.env.external, 0), effect |-> Nothing] PROVE Fair(f)
  <2>1. f.out \in OutcomeRows /\ f.out.method = "DIRECT" /\ f.out.lease = 0
    BY <1>2, <1>3 DEF RowMethods, Outcome, OutcomeRows
  <2> QED
    BY <2>1 DEF Fair, Mapped
<1>4. ASSUME f = [out |-> Manual(None), effect |-> Nothing] PROVE Fair(f)
  <2>1. f.out \in OutcomeRows /\ f.out.success = FALSE
    BY <1>2, <1>4 DEF Manual, RowMethods, Outcome, OutcomeRows
  <2> QED
    BY <2>1 DEF Fair
<1>5. ASSUME NEW methods \in Seq(LanMethods), f \in LanOutcomes(methods, r.env, r.lease) PROVE Fair(f)
  BY <1>1, <1>5, LanOutcomesFair
<1> DEFINE methods == CASE r.preferred = "auto" -> <<"natpmp", "pcp", "upnp">>
                       [] r.preferred \in {"manual", "relay"} -> <<>>
                       [] OTHER -> <<r.preferred>>
<1>6. methods \in Seq(LanMethods)
  <2>1. CASE r.preferred = "auto"
    <3>1. methods = <<"natpmp", "pcp", "upnp">>
      BY <2>1
    <3>2. <<"natpmp", "pcp", "upnp">> \in Seq(LanMethods)
      BY DEF LanMethods
    <3> QED
      BY <3>1, <3>2
  <2>2. CASE r.preferred \in {"manual", "relay"}
    <3>1. methods = <<>>
      BY <2>2
    <3> QED
      BY <3>1
  <2>3. CASE r.preferred \notin {"auto", "manual", "relay"}
    <3>1. methods = <<r.preferred>>
      BY <2>3
    <3>2. r.preferred \in LanMethods
      BY <1>1, <2>3, ForwardingAssumption DEF LanMethods
    <3> QED
      BY <3>1, <3>2
  <2> QED
    BY <2>1, <2>2, <2>3
<1>7. \/ f = [out |-> Outcome("DIRECT", TRUE, r.env.external, 0), effect |-> Nothing]
      \/ f = [out |-> Manual(None), effect |-> Nothing]
      \/ f \in LanOutcomes(methods, r.env, r.lease)
  BY DEF Direct
<1> QED
  BY <1>3, <1>4, <1>5, <1>6, <1>7

\* What is made of one port; whoever asks for a relay gets nothing else.
LEMMA SinglePort ==
  ASSUME home \in Homes, NEW r \in CallRows, Carries(r), r.kind = "forward", NEW k,
         NEW f \in ForwardSinglePort(r, k)
  PROVE  /\ Fair(f)
         /\ r.preferred = "relay" /\ home.relay =>
              f.out.method = "RELAY" /\ f.out.address \in {"relay", "blank", None}
<1>1. {None, "relay", "blank"} \subseteq Addresses /\ "RELAY" \in RowMethods
  BY DEF Addresses, RowMethods
<1>2. \A t \in OpenRelayTunnel(k) :
        /\ t.out \in OutcomeRows /\ t.out.method = "RELAY" /\ t.out.lease = 0
        /\ t.out.address \in {"relay", "blank", None}
  <2> SUFFICES ASSUME NEW t \in OpenRelayTunnel(k)
               PROVE  /\ t.out \in OutcomeRows /\ t.out.method = "RELAY" /\ t.out.lease = 0
                      /\ t.out.address \in {"relay", "blank", None}
    OBVIOUS
  <2>1. \/ t.out = Outcome("RELAY", TRUE, "blank", 0) \/ t.out = Outcome("RELAY", TRUE, "relay", 0)
        \/ t.out = Outcome("RELAY", FALSE, None, 0)
    <3>1. CASE t = [out |-> Outcome("RELAY", TRUE, "blank", 0), opens |-> TRUE]
      BY <3>1
    <3>2. CASE t = [out |-> Outcome("RELAY", TRUE, "relay", 0), opens |-> TRUE]
      BY <3>2
    <3>3. CASE t = [out |-> Outcome("RELAY", FALSE, None, 0), opens |-> FALSE]
      BY <3>3
    <3> QED
      BY <3>1, <3>2, <3>3 DEF OpenRelayTunnel
  <2>2. CASE t.out = Outcome("RELAY", TRUE, "blank", 0)
    BY <1>1, <2>2 DEF Outcome, OutcomeRows
  <2>3. CASE t.out = Outcome("RELAY", TRUE, "relay", 0)
    BY <1>1, <2>3 DEF Outcome, OutcomeRows
  <2>4. CASE t.out = Outcome("RELAY", FALSE, None, 0)
    BY <1>1, <2>4 DEF Outcome, OutcomeRows
  <2> QED
    BY <2>1, <2>2, <2>3, <2>4
<1>3. ASSUME NEW t \in OpenRelayTunnel(k), f = [out |-> t.out, effect |-> Nothing, opens |-> t.opens]
      PROVE  Fair(f) /\ f.out.method = "RELAY" /\ f.out.address \in {"relay", "blank", None}
  BY <1>2, <1>3 DEF Fair, Mapped
<1>4. ASSUME NEW d \in Direct(r), f = [out |-> d.out, effect |-> d.effect, opens |-> FALSE]
      PROVE  Fair(f)
  <2>1. Fair(d)
    BY DirectFair
  <2> QED
    BY <1>4, <2>1 DEF Fair
<1> DEFINE relayed == WantsRelay(r) /\ home.relay
           tried == IF relayed THEN OpenRelayTunnel(k) ELSE {}
           served == {t \in tried : t.out.success \/ ~ DirectMapping(r, TRUE)}
<1>5. \/ \E t \in served : f = [out |-> t.out, effect |-> Nothing, opens |-> t.opens]
      \/ /\ ~ (tried # {} /\ tried = served)
         /\ \E d \in Direct(r) : f = [out |-> d.out, effect |-> d.effect, opens |-> FALSE]
  BY DEF ForwardSinglePort
<1>6. r.preferred = "relay" /\ home.relay => tried = served /\ tried # {}
  BY DEF WantsRelay, DirectMapping, OpenRelayTunnel
<1>7. served \subseteq OpenRelayTunnel(k)
  OBVIOUS
<1> HIDE DEF tried, served
<1> QED
  BY <1>3, <1>4, <1>5, <1>6, <1>7

\* Where the rows, the router and the clock stand still, so does what is said of them.
LEMMA KeptSaid ==
  ASSUME UNCHANGED <<home, mappings, granted, promised, minute>>
  PROVE  /\ \A k : Agrees(k)' <=> Agrees(k)
         /\ \A k : Fresh(k)' <=> Fresh(k)
         /\ \A k, o : Told(k, o)' <=> Told(k, o)
BY DEF Agrees, Fresh, Told, Mapped

\* What one request may do without upsetting what is said of the others.
MayMove(c, to) ==
  /\ to \in CallRows /\ Carries(to) /\ OnlyRelay(to)
  /\ mappings' \in [Keys -> MapRows] /\ DOMAIN granted' = Keys /\ env'.value \in Environments
  /\ minute' \in 0 .. LastMinute /\ {crossed', short', swept'} \subseteq BOOLEAN
  /\ short => short'
  /\ \/ crossed' = crossed /\ call[c].kind # "none"
     \/ crossed' = (crossed \/ Busy # {}) /\ call[c] = Rest

\* A request takes a step, or begins.
LEMMA CallMoves ==
  ASSUME MapInv, NEW c \in Calls, NEW to, call' = [call EXCEPT ![c] = to], home' = home, MayMove(c, to),
         ~ short' /\ Sound(call[c]) => Sound(to)'
  PROVE  MapInv'
<1>1. Keys' = Keys /\ CallRows' = CallRows
  BY DEF Keys, PortKeys, CallRows
<1>2. call \in [Calls -> CallRows] /\ call' \in [Calls -> CallRows] /\ call'[c] = to
      /\ \A d \in Calls : d # c => call'[d] = call[d]
  BY DEF MapInv, ForwardingTyped, MayMove
<1>3. \A r : (Carries(r)' <=> Carries(r)) /\ (OnlyRelay(r)' <=> OnlyRelay(r))
  BY <1>1 DEF Carries, OnlyRelay
<1>4. \A d \in Calls : Carries(call'[d]) /\ OnlyRelay(call'[d])
  BY <1>2 DEF MapInv, ForwardingTyped, MayMove
<1>5. ForwardingTyped' /\ \A d \in Calls : OnlyRelay(call[d])'
  BY <1>1, <1>2, <1>3, <1>4 DEF MapInv, ForwardingTyped, MayMove
<1>6. ASSUME ~ crossed' PROVE RowsSound'
  <2>1. ~ crossed /\ RowsSound
    BY <1>6 DEF MapInv, MayMove
  <2>2. Rest.kind = "none"
    BY DEF Rest
  <2>3. call[c].kind # "none" \/ \A d \in Calls : call[d] = Rest
    BY <1>6 DEF MayMove, Busy
  <2>4. \A d \in Calls : d # c => call[d].kind = "none"
    BY <2>1, <2>2, <2>3 DEF RowsSound, Alone
  <2>5. \A d \in Calls : d # c => call'[d].kind = "none"
    BY <1>2, <2>4
  <2>6. ASSUME ~ short' PROVE Sound(to)'
    <3>1. ~ short
      BY <2>6 DEF MayMove
    <3>2. Sound(call[c])
      <4>1. CASE call[c].kind # "none"
        BY <2>1, <3>1, <4>1 DEF RowsSound
      <4>2. CASE \A d \in Calls : call[d] = Rest
        <5>1. Sound(Rest)
          BY <2>1, <2>2, <3>1, <4>2 DEF RowsSound
        <5> QED
          BY <4>2, <5>1
      <4> QED
        BY <2>3, <4>1, <4>2
    <3> QED
      BY <2>6, <3>2
  <2>7. to.kind = "none" => to = Rest
    BY DEF MayMove, Carries
  <2>8. \A d \in Calls : call'[d].kind # "none" => d = c
    BY <2>5
  <2> QED
    BY <1>2, <2>5, <2>6, <2>7, <2>8 DEF RowsSound, Alone
<1> QED
  BY <1>5, <1>6 DEF MapInv

\* A request begins, with what is known of the network.
LEMMA BeginMoves ==
  ASSUME MapInv, NEW c \in Calls, NEW request \in CallRows, Begin(c, request),
         UNCHANGED <<home, mappings, granted, minute, short, promised>>, swept' \in BOOLEAN,
         \A to \in CallRows :
           (\E e \in Environments : to = [request EXCEPT !.env = e]) =>
              Carries(to) /\ OnlyRelay(to) /\ (~ short /\ Sound(Rest) => Sound(to)')
  PROVE  MapInv'
<1>1. PICK e \in GetNatEnvironment : env' = e /\ call' = [call EXCEPT ![c] = [request EXCEPT !.env = e.value]]
  BY DEF Begin
<1>2. e.value \in Environments
  <2>1. env.value \in Environments /\ home \in Homes
    BY DEF MapInv, ForwardingTyped
  <2> QED
    BY <1>1, <2>1 DEF GetNatEnvironment, Environments
<1>3. PICK to : to = [request EXCEPT !.env = e.value]
  OBVIOUS
<1>4. to \in CallRows
  BY <1>2, <1>3 DEF CallRows
<1>5. Carries(to) /\ OnlyRelay(to) /\ (~ short /\ Sound(Rest) => Sound(to)')
  BY <1>2, <1>3, <1>4
<1>6. MayMove(c, to)
  BY <1>1, <1>2, <1>4, <1>5 DEF MapInv, ForwardingTyped, MayMove, Begin
<1>7. call[c] = Rest
  BY DEF Begin
<1> QED
  BY <1>1, <1>3, <1>5, <1>6, <1>7, CallMoves

\* What becomes of the router's mapping.
LEMMA HoldIs ==
  ASSUME DOMAIN granted = Keys, NEW k \in Keys, NEW effect, Hold(k, effect)
  PROVE  /\ DOMAIN granted' = Keys /\ \A j \in Keys : j # k => granted'[j] = granted[j]
         /\ effect = Nothing => granted'[k] = granted[k]
         /\ effect = Forever => granted'[k] = Forever
         /\ effect \in Nat \ {0} /\ effect # Forever => granted'[k] = minute + effect
<1>1. Forever # Nothing /\ Nothing \notin Nat /\ 0 # Nothing
  BY NatAssumption DEF Nothing
<1>2. CASE effect = Nothing
  BY <1>1, <1>2 DEF Hold
<1>3. CASE effect \in {0, Forever} /\ effect # Nothing
  <2>1. granted' = [granted EXCEPT ![k] = effect]
    BY <1>1, <1>3 DEF Hold
  <2> QED
    BY <1>1, <1>3, <2>1
<1>4. CASE effect \notin {0, Forever, Nothing}
  <2>1. granted' = [granted EXCEPT ![k] = minute + effect]
    BY <1>4 DEF Hold
  <2> QED
    BY <1>1, <1>4, <2>1
<1> QED
  BY <1>2, <1>3, <1>4

\* A request to open the ports begins with nothing opened.
LEMMA ForwardBegins ==
  ASSUME MapInv, NEW c \in Calls, ForwardServerPorts(c)
  PROVE  MapInv'
<1>1. PICK p \in Preferences, l \in Leases :
        Begin(c, [Rest EXCEPT !.kind = "forward", !.preferred = p, !.lease = l,
                              !.todo = PortKeys, !.out = [k \in Keys |-> Manual(None)]])
  BY DEF ForwardServerPorts
<1>2. PICK request : request = [Rest EXCEPT !.kind = "forward", !.preferred = p, !.lease = l,
                              !.todo = PortKeys, !.out = [k \in Keys |-> Manual(None)]]
  OBVIOUS
<1>3. home \in Homes /\ PortKeys \in Seq(Keys) /\ Keys = ToSet(PortKeys) /\ Leases \subseteq Nat /\ swept \in BOOLEAN
  BY KeysAre DEF MapInv, ForwardingTyped, Keys
<1>4. Manual(None) \in OutcomeRows /\ Manual(None).success = FALSE
  BY DEF Manual, Outcome, OutcomeRows, RowMethods, Addresses
<1>5. PICK out : out = [k \in Keys |-> Manual(None)]
  OBVIOUS
<1>6. out \in [Keys -> OutcomeRows] /\ \A k \in Keys : out[k].success = FALSE
  BY <1>4, <1>5
<1>7. request = [kind |-> "forward", preferred |-> p, lease |-> l, env |-> NoEnvironment, todo |-> PortKeys,
                 read |-> <<>>, out |-> out]
  BY <1>2, <1>5 DEF Rest
<1>8. request \in CallRows
  BY <1>3, <1>6, <1>7 DEF CallRows, CallKinds, Environments
<1>9. ASSUME NEW to \in CallRows, NEW e, to = [request EXCEPT !.env = e]
      PROVE  Carries(to) /\ OnlyRelay(to) /\ (~ short /\ Sound(Rest) => Sound(to)')
  <2>1. /\ to.kind = "forward" /\ to.preferred = p /\ to.lease = l /\ to.todo = PortKeys /\ to.out = out
    BY <1>7, <1>9
  <2>2. Carries(to)
    BY <1>6, <2>1 DEF Carries
  <2>3. OnlyRelay(to)
    BY <1>3, <2>1 DEF OnlyRelay
  <2>4. Keys' = Keys /\ swept' = swept /\ UNCHANGED <<home, mappings, granted, promised, minute>>
    BY DEF ForwardServerPorts, Keys, PortKeys
  <2>5. ASSUME Sound(Rest) PROVE Sound(to)'
    <3>1. \A k \in Keys : ToWrite(to, k)'
      BY <2>1 DEF ToWrite
    <3>2. \A k \in Keys : Told(k, to.out[k])'
      BY <1>6, <2>1 DEF Told
    <3>3. swept' => \A k \in Keys : Fresh(k)'
      BY <2>4, <2>5, KeptSaid DEF Sound
    <3> QED
      BY <2>1, <2>4, <3>1, <3>2, <3>3 DEF Sound
  <2> QED
    BY <2>2, <2>3, <2>5
<1>10. Begin(c, request)
  BY <1>1, <1>2
<1>11. UNCHANGED <<home, mappings, granted, minute, short, promised>> /\ swept' \in BOOLEAN
  BY <1>3 DEF ForwardServerPorts
<1> QED
  BY <1>8, <1>9, <1>10, <1>11, BeginMoves

\* What every request under way is known to be.
LEMMA CallIs ==
  ASSUME MapInv, NEW c \in Calls
  PROVE  /\ call[c] \in CallRows /\ Carries(call[c]) /\ OnlyRelay(call[c])
         /\ home \in Homes /\ minute \in 0 .. LastMinute /\ minute \in Nat /\ mappings \in [Keys -> MapRows]
         /\ DOMAIN granted = Keys /\ env.value \in Environments /\ {crossed, short, swept} \subseteq BOOLEAN
BY ForwardingAssumption DEF MapInv, ForwardingTyped

\* One port is opened, or not, and the request keeps what came of it.
LEMMA ForwardKeeps ==
  ASSUME MapInv, NEW c \in Calls, ForwardPort(c)
  PROVE  MapInv'
<1>1. PICK r : r = call[c]
  OBVIOUS
<1>2. PICK k : k = Head(r.todo)
  OBVIOUS
<1>3. r.kind = "forward" /\ r.todo # <<>> /\ r \in CallRows /\ Carries(r) /\ OnlyRelay(r)
  BY <1>1, CallIs DEF ForwardPort
<1>4. r.todo \in Seq(Keys) /\ r.out \in [Keys -> OutcomeRows] /\ r.preferred \in Preferences
  BY <1>3 DEF CallRows, Carries
<1>5. k \in Keys /\ Tail(r.todo) \in Seq(Keys) /\ ToSet(r.todo) = {k} \cup ToSet(Tail(r.todo))
  BY <1>2, <1>3, <1>4, RestOfList
<1>6. PICK f \in ForwardSinglePort(r, k) :
        /\ call' = [call EXCEPT ![c].out[k] = f.out, ![c].todo = Tail(@)]
        /\ Hold(k, f.effect)
  BY <1>1, <1>2 DEF ForwardPort
<1>7. PICK to : to = [r EXCEPT !.out[k] = f.out, !.todo = Tail(@)]
  OBVIOUS
<1>8. call' = [call EXCEPT ![c] = to]
  BY <1>1, <1>6, <1>7, CallIs DEF MapInv, ForwardingTyped
<1>9. /\ Fair(f)
      /\ r.preferred = "relay" /\ home.relay => f.out.method = "RELAY" /\ f.out.address \in {"relay", "blank", None}
  BY <1>3, CallIs, SinglePort
<1>10. /\ to.kind = "forward" /\ to.preferred = r.preferred /\ to.lease = r.lease /\ to.todo = Tail(r.todo)
       /\ to.out = [r.out EXCEPT ![k] = f.out] /\ to.env = r.env /\ to.read = r.read
  BY <1>3, <1>7 DEF CallRows
<1>11. /\ to.out \in [Keys -> OutcomeRows] /\ to.out[k] = f.out
       /\ \A j \in Keys : j # k => to.out[j] = r.out[j]
  BY <1>4, <1>5, <1>9, <1>10 DEF Fair
<1>12. to \in CallRows /\ Carries(to)
  <2>1. to \in CallRows
    BY <1>3, <1>5, <1>7, <1>10, <1>11 DEF CallRows
  <2>2. Carries(to)
    BY <1>3, <1>10, <1>11 DEF Carries
  <2> QED
    BY <2>1, <2>2
<1>13. OnlyRelay(to)
  BY <1>3, <1>5, <1>9, <1>10, <1>11 DEF OnlyRelay
<1>14. UNCHANGED <<home, env, mappings, minute, swept, crossed, short, promised>> /\ Keys' = Keys
  BY DEF ForwardPort, Keys, PortKeys
<1>15. /\ DOMAIN granted' = Keys /\ \A j \in Keys : j # k => granted'[j] = granted[j]
       /\ f.effect = Forever => granted'[k] = Forever
       /\ f.effect \in Nat \ {0} /\ f.effect # Forever => granted'[k] = minute + f.effect
  BY <1>5, <1>6, CallIs, HoldIs
<1>16. MayMove(c, to)
  BY <1>1, <1>3, <1>12, <1>13, <1>14, <1>15, CallIs DEF MayMove
<1>17. ASSUME Sound(r) PROVE Sound(to)'
  <2>1. \A j \in Keys : ToWrite(to, j)'
    BY <1>10 DEF ToWrite
  <2>2. Told(k, to.out[k])'
    <3>1. CASE ~ f.out.success
      BY <1>11, <3>1 DEF Told
    <3>2. CASE f.out.success /\ f.out.method \notin Mapped
      BY <1>9, <1>11, <3>2 DEF Told, Fair
    <3>3. CASE f.out.success /\ f.out.method \in Mapped
      <4>1. \/ f.out.lease = 0 /\ f.effect = Forever
            \/ f.out.lease \in Nat \ {0} /\ f.out.lease < Forever /\ f.effect = f.out.lease
        BY <1>9, <3>3 DEF Fair, Honest
      <4>2. granted'[k] = IF f.out.lease = 0 THEN Forever ELSE minute + f.out.lease
        BY <1>15, <4>1, NatAssumption
      <4> QED
        BY <1>11, <1>14, <3>3, <4>2 DEF Told
    <3> QED
      BY <3>1, <3>2, <3>3
  <2>3. ASSUME NEW j \in Keys, j # k PROVE Told(j, to.out[j])'
    <3>1. Told(j, r.out[j])
      BY <1>3, <1>17 DEF Sound
    <3> QED
      BY <1>11, <1>14, <1>15, <2>3, <3>1 DEF Told
  <2>4. swept' => \A j \in Keys : Fresh(j)'
    BY <1>14, <1>17 DEF Sound, Fresh
  <2> QED
    BY <1>10, <1>14, <2>1, <2>2, <2>3, <2>4 DEF Sound
<1> QED
  BY <1>1, <1>8, <1>14, <1>16, <1>17, CallMoves

\* Ports forwarded by hand are believed; those a relay answered for are not touched.
LEMMA ConfirmKeeps ==
  ASSUME MapInv, NEW c \in Calls, ConfirmStaticForwards(c)
  PROVE  MapInv'
<1>1. PICK r : r = call[c]
  OBVIOUS
<1>2. r.kind = "forward" /\ r.todo = <<>> /\ r \in CallRows /\ Carries(r) /\ OnlyRelay(r)
  BY <1>1, CallIs DEF ConfirmStaticForwards
<1>3. r.out \in [Keys -> OutcomeRows] /\ PortKeys \in Seq(Keys) /\ ToSet(PortKeys) = Keys /\ ToSet(<<>>) = {}
  <2>1. DOMAIN <<>> = {}
    OBVIOUS
  <2>2. ToSet(<<>>) = {}
    BY <2>1 DEF ToSet
  <2>3. home \in Homes
    BY CallIs
  <2> QED
    BY <1>2, <2>2, <2>3, KeysAre DEF Carries, Keys
<1>4. PICK info \in AnswersSeen :
        call' = [call EXCEPT ![c].kind = "save", ![c].todo = PortKeys,
                   ![c].out = [k \in Keys |->
                      IF /\ home.static /\ home.running /\ "query" \in Keys /\ info # NoInfo
                         /\ @[k].method = "MANUAL" /\ ~ @[k].success
                      THEN Outcome("MANUAL", TRUE, "public", 0) ELSE @[k]]]
  BY DEF ConfirmStaticForwards
<1>5. PICK out : out = [k \in Keys |-> IF /\ home.static /\ home.running /\ "query" \in Keys /\ info # NoInfo
                                          /\ r.out[k].method = "MANUAL" /\ ~ r.out[k].success
                                       THEN Outcome("MANUAL", TRUE, "public", 0) ELSE r.out[k]]
  OBVIOUS
<1>6. PICK to : to = [r EXCEPT !.kind = "save", !.todo = PortKeys, !.out = out]
  OBVIOUS
<1>7. call' = [call EXCEPT ![c] = to]
  BY <1>1, <1>4, <1>5, <1>6, CallIs DEF MapInv, ForwardingTyped
<1>8. /\ to.kind = "save" /\ to.preferred = r.preferred /\ to.lease = r.lease /\ to.todo = PortKeys
      /\ to.out = out /\ to.env = r.env /\ to.read = r.read
  BY <1>2, <1>6 DEF CallRows
<1>9. PICK o : o = Outcome("MANUAL", TRUE, "public", 0)
  OBVIOUS
<1>10. o \in OutcomeRows /\ o.method = "MANUAL" /\ o.lease = 0 /\ o.success
  BY <1>9 DEF Outcome, OutcomeRows, RowMethods, Addresses
<1>11. \A k \in Keys : out[k] = r.out[k] \/ (r.out[k].method = "MANUAL" /\ out[k] = o)
  BY <1>5, <1>9
<1>12. out \in [Keys -> OutcomeRows]
  <2>1. DOMAIN out = Keys /\ \A k \in Keys : out[k] \in OutcomeRows
    BY <1>3, <1>5, <1>10, <1>11
  <2> QED
    BY <1>5, <2>1
<1>13. to \in CallRows /\ Carries(to)
  <2>1. to \in CallRows
    BY <1>2, <1>3, <1>6, <1>8, <1>12 DEF CallRows, CallKinds
  <2>2. Carries(to)
    BY <1>8, <1>12 DEF Carries
  <2> QED
    BY <2>1, <2>2
<1>14. OnlyRelay(to)
  <2>1. ASSUME r.preferred = "relay", home.relay, NEW k \in Keys
        PROVE  out[k].method = "RELAY" /\ out[k].address \in {"relay", "blank", None}
    <3>1. r.out[k].method = "RELAY" /\ r.out[k].address \in {"relay", "blank", None}
      BY <1>2, <1>3, <2>1 DEF OnlyRelay
    <3> QED
      BY <1>11, <3>1
  <2> QED
    BY <1>8, <2>1 DEF OnlyRelay
<1>15. /\ UNCHANGED <<home, env, mappings, granted, minute, swept, crossed, short, promised>> /\ Keys' = Keys
  BY DEF ConfirmStaticForwards, Keys, PortKeys
<1>16. MayMove(c, to)
  BY <1>1, <1>2, <1>13, <1>14, <1>15, CallIs DEF MayMove
<1>17. ASSUME Sound(r) PROVE Sound(to)'
  <2>1. \A k \in Keys : ToWrite(to, k)'
    BY <1>3, <1>8 DEF ToWrite
  <2>2. ASSUME NEW k \in Keys PROVE Told(k, to.out[k])'
    <3>1. Told(k, r.out[k])
      BY <1>2, <1>17 DEF Sound
    <3>2. Told(k, o)
      BY <1>10 DEF Told, Mapped
    <3>3. Told(k, out[k])
      BY <1>11, <3>1, <3>2
    <3> QED
      BY <1>8, <1>15, <3>3 DEF Told
  <2>3. swept' => \A k \in Keys : Fresh(k)'
    BY <1>15, <1>17 DEF Sound, Fresh
  <2> QED
    BY <1>8, <1>15, <2>1, <2>2, <2>3 DEF Sound
<1> QED
  BY <1>1, <1>7, <1>15, <1>16, <1>17, CallMoves

\* A row written from an outcome agrees with what the router granted.
LEMMA SaveKeeps ==
  ASSUME MapInv, NEW c \in Calls, SaveOutcome(c)
  PROVE  MapInv'
<1>1. PICK r : r = call[c]
  OBVIOUS
<1>2. PICK k : k = Head(r.todo)
  OBVIOUS
<1>3. r.kind = "save" /\ r.todo # <<>> /\ r \in CallRows /\ Carries(r) /\ OnlyRelay(r)
  BY <1>1, CallIs DEF SaveOutcome
<1>4. r.todo \in Seq(Keys) /\ r.out \in [Keys -> OutcomeRows]
  BY <1>3 DEF CallRows, Carries
<1>5. k \in Keys /\ Tail(r.todo) \in Seq(Keys) /\ ToSet(r.todo) = {k} \cup ToSet(Tail(r.todo))
  BY <1>2, <1>3, <1>4, RestOfList
<1>6. PICK o : o = r.out[k]
  OBVIOUS
<1>7. PICK row : row = [method |-> o.method, active |-> o.success,
                        lease |-> IF o.success /\ o.lease # 0 THEN minute + o.lease ELSE 0]
  OBVIOUS
<1>8. /\ mappings' = [mappings EXCEPT ![k] = row]
      /\ promised' = IF o.success THEN promised \cup {k} ELSE promised \ {k}
  BY <1>1, <1>2, <1>6, <1>7 DEF SaveOutcome
<1>9. PICK to : to = [r EXCEPT !.todo = Tail(@)]
  OBVIOUS
<1>10. call' = [call EXCEPT ![c] = to]
  BY <1>1, <1>9, CallIs DEF SaveOutcome, MapInv, ForwardingTyped
<1>11. /\ to.kind = "save" /\ to.preferred = r.preferred /\ to.lease = r.lease /\ to.todo = Tail(r.todo)
       /\ to.out = r.out /\ to.env = r.env /\ to.read = r.read
  BY <1>3, <1>9 DEF CallRows
<1>12. to \in CallRows /\ Carries(to) /\ OnlyRelay(to)
  <2>1. to \in CallRows
    BY <1>3, <1>5, <1>9, <1>11 DEF CallRows
  <2>2. Carries(to)
    BY <1>3, <1>11 DEF Carries
  <2>3. OnlyRelay(to)
    BY <1>3, <1>11 DEF OnlyRelay
  <2> QED
    BY <2>1, <2>2, <2>3
<1>13. minute \in Nat /\ o \in OutcomeRows /\ mappings \in [Keys -> MapRows]
  BY <1>4, <1>5, <1>6, CallIs
<1>14. o.method \in RowMethods /\ o.success \in BOOLEAN /\ o.lease \in Nat
  BY <1>13 DEF OutcomeRows
<1>15. row \in MapRows
  BY <1>7, <1>13, <1>14 DEF MapRows
<1>16. mappings' \in [Keys -> MapRows] /\ mappings'[k] = row /\ \A j \in Keys : j # k => mappings'[j] = mappings[j]
  BY <1>5, <1>8, <1>13, <1>15
<1>17. UNCHANGED <<home, env, granted, minute, swept, crossed, short>> /\ Keys' = Keys
  BY DEF SaveOutcome, Keys, PortKeys
<1>18. MayMove(c, to)
  BY <1>1, <1>3, <1>12, <1>16, <1>17, CallIs DEF MayMove
<1>19. ASSUME Sound(r) PROVE Sound(to)'
  <2>1. Told(k, o)
    BY <1>3, <1>5, <1>6, <1>19 DEF Sound
  <2>2. Agrees(k)'
    <3>1. CASE o.success
      <4>1. row.method = o.method /\ row.active /\ row.lease = IF o.lease # 0 THEN minute + o.lease ELSE 0
        BY <1>7, <3>1
      <4>2. o.lease # 0 => minute + o.lease # 0
        BY <1>13, <1>14
      <4> QED
        BY <1>16, <1>17, <2>1, <3>1, <4>1, <4>2 DEF Agrees, Told
    <3>2. CASE ~ o.success
      <4>1. ~ row.active /\ row.lease = 0 /\ k \notin promised'
        BY <1>7, <1>8, <3>2
      <4> QED
        BY <1>16, <4>1 DEF Agrees
    <3> QED
      BY <3>1, <3>2
  <2>3. ASSUME NEW j \in Keys, j # k, Agrees(j) PROVE Agrees(j)'
    <3>1. j \in promised' <=> j \in promised
      BY <1>8, <2>3
    <3> QED
      BY <1>16, <1>17, <2>3, <3>1 DEF Agrees
  <2>4. ASSUME NEW j \in Keys PROVE Agrees(j)' \/ ToWrite(to, j)'
    <3>1. Agrees(j) \/ j \in ToSet(r.todo)
      BY <1>3, <1>19 DEF Sound, ToWrite
    <3>2. j \in ToSet(Tail(r.todo)) => ToWrite(to, j)'
      BY <1>11 DEF ToWrite
    <3> QED
      BY <1>5, <2>2, <2>3, <3>1, <3>2
  <2>5. ASSUME NEW j \in Keys PROVE Told(j, to.out[j])'
    <3>1. Told(j, r.out[j])
      BY <1>3, <1>19 DEF Sound
    <3> QED
      BY <1>11, <1>17, <3>1 DEF Told
  <2>6. ASSUME swept', NEW j \in Keys PROVE Fresh(j)'
    <3>1. Fresh(j)
      BY <1>17, <1>19, <2>6 DEF Sound
    <3>2. row.lease # 0 => row.lease > minute
      BY <1>7, <1>13, <1>14
    <3> QED
      BY <1>16, <1>17, <3>1, <3>2 DEF Fresh
  <2> QED
    BY <1>11, <1>17, <2>4, <2>5, <2>6 DEF Sound
<1> QED
  BY <1>1, <1>10, <1>17, <1>18, <1>19, CallMoves

\* A slot that is free.
LEMMA RestIs ==
  ASSUME home \in Homes
  PROVE  Rest \in CallRows /\ Carries(Rest) /\ OnlyRelay(Rest) /\ Rest.kind = "none" /\ Rest.preferred = None
<1>1. Rest \in CallRows
  BY DEF Rest, CallRows, CallKinds, Environments
<1> QED
  BY <1>1 DEF Rest, Carries, OnlyRelay

\* The last step of a request to open the ports leaves every row written.
LEMMA PublishKeeps ==
  ASSUME MapInv, NEW c \in Calls, PublishAddress(c)
  PROVE  MapInv'
<1>1. PICK r : r = call[c]
  OBVIOUS
<1>2. r.kind = "save" /\ r.todo = <<>>
  BY <1>1 DEF PublishAddress
<1>3. call' = [call EXCEPT ![c] = Rest]
  BY DEF PublishAddress
<1>4. UNCHANGED <<home, env, mappings, granted, minute, swept, crossed, short, promised>> /\ Keys' = Keys
  BY DEF PublishAddress, Keys, PortKeys
<1>5. MayMove(c, Rest)
  BY <1>1, <1>2, <1>4, CallIs, RestIs DEF MayMove
<1>6. ASSUME Sound(r) PROVE Sound(Rest)'
  <2>1. DOMAIN <<>> = {}
    OBVIOUS
  <2>2. ToSet(r.todo) = {}
    BY <1>2, <2>1 DEF ToSet
  <2>3. \A k \in Keys : Agrees(k)'
    BY <1>2, <1>4, <1>6, <2>2, KeptSaid DEF Sound, ToWrite
  <2>4. swept' => \A k \in Keys : Fresh(k)'
    BY <1>4, <1>6, KeptSaid DEF Sound
  <2>5. Rest.kind = "none"
    BY CallIs, RestIs
  <2> QED
    BY <1>4, <2>3, <2>4, <2>5 DEF Sound
<1> QED
  BY <1>1, <1>3, <1>4, <1>5, <1>6, CallMoves

\* A request to close the ports begins.
LEMMA ReleaseBegins ==
  ASSUME MapInv, NEW c \in Calls, ReleaseServerPortMappings(c)
  PROVE  MapInv'
<1>1. PICK active : active = {k \in Keys : mappings[k].active}
  OBVIOUS
<1>2. PICK todo : todo = InRows(active)
  OBVIOUS
<1>3. PICK request : request = [Rest EXCEPT !.kind = "release", !.read = mappings, !.todo = todo]
  OBVIOUS
<1>4. Begin(c, request)
  BY <1>1, <1>2, <1>3 DEF ReleaseServerPortMappings
<1>5. home \in Homes /\ mappings \in [Keys -> MapRows] /\ swept \in BOOLEAN
  BY CallIs
<1>6. todo \in Seq(Keys)
  BY <1>2, <1>5, RowsOf
<1>7. request = [kind |-> "release", preferred |-> None, lease |-> 0, env |-> NoEnvironment, todo |-> todo,
                 read |-> mappings, out |-> <<>>]
  BY <1>3 DEF Rest
<1>8. request \in CallRows
  BY <1>5, <1>6, <1>7 DEF CallRows, CallKinds, Environments
<1>9. UNCHANGED <<home, mappings, granted, minute, swept, short, promised>> /\ Keys' = Keys
  BY DEF ReleaseServerPortMappings, Keys, PortKeys
<1>10. ASSUME NEW to \in CallRows, NEW e, to = [request EXCEPT !.env = e]
       PROVE  Carries(to) /\ OnlyRelay(to) /\ (~ short /\ Sound(Rest) => Sound(to)')
  <2>1. to.kind = "release" /\ to.preferred = None /\ to.read = mappings
    BY <1>7, <1>10
  <2>2. Carries(to) /\ OnlyRelay(to)
    BY <1>5, <2>1 DEF Carries, OnlyRelay
  <2>3. ASSUME Sound(Rest) PROVE Sound(to)'
    <3>1. Rest.kind = "none"
      BY <1>5, RestIs
    <3>2. \A k \in Keys : Agrees(k)'
      BY <1>9, <2>3, <3>1, KeptSaid DEF Sound, ToWrite
    <3>3. swept' => \A k \in Keys : Fresh(k)'
      BY <1>9, <2>3, KeptSaid DEF Sound
    <3> QED
      BY <1>9, <2>1, <3>2, <3>3 DEF Sound
  <2> QED
    BY <2>2, <2>3
<1> QED
  BY <1>4, <1>5, <1>8, <1>9, <1>10, BeginMoves

\* The router is asked to close a port, whose row is still to be written.
LEMMA UnmapKeeps ==
  ASSUME MapInv, NEW c \in Calls, UnmapPort(c)
  PROVE  MapInv'
<1>1. PICK r : r = call[c]
  OBVIOUS
<1>2. PICK k : k = Head(r.todo)
  OBVIOUS
<1>3. r.kind = "release" /\ r.todo # <<>> /\ r \in CallRows /\ Carries(r) /\ OnlyRelay(r)
  BY <1>1, CallIs DEF UnmapPort
<1>4. r.todo \in Seq(Keys) /\ k \in Keys
  <2>1. r.todo \in Seq(Keys)
    BY <1>3 DEF CallRows
  <2> QED
    BY <1>2, <1>3, <2>1, RestOfList
<1>5. PICK effect : Hold(k, effect)
  BY <1>1, <1>2 DEF UnmapPort
<1>6. PICK to : to = [r EXCEPT !.kind = "released"]
  OBVIOUS
<1>7. call' = [call EXCEPT ![c] = to]
  BY <1>1, <1>6, CallIs DEF UnmapPort, MapInv, ForwardingTyped
<1>8. /\ to.kind = "released" /\ to.preferred = r.preferred /\ to.lease = r.lease /\ to.todo = r.todo
      /\ to.out = r.out /\ to.env = r.env /\ to.read = r.read
  BY <1>3, <1>6 DEF CallRows
<1>9. to \in CallRows /\ Carries(to) /\ OnlyRelay(to)
  <2>1. to \in CallRows
    BY <1>3, <1>6, <1>8 DEF CallRows, CallKinds
  <2>2. Carries(to)
    BY <1>3, <1>8 DEF Carries
  <2>3. OnlyRelay(to)
    BY <1>8 DEF OnlyRelay
  <2> QED
    BY <2>1, <2>2, <2>3
<1>10. UNCHANGED <<home, env, mappings, minute, swept, crossed, short, promised>> /\ Keys' = Keys
  BY DEF UnmapPort, Keys, PortKeys
<1>11. DOMAIN granted' = Keys /\ \A j \in Keys : j # k => granted'[j] = granted[j]
  BY <1>4, <1>5, CallIs, HoldIs
<1>12. MayMove(c, to)
  BY <1>1, <1>3, <1>9, <1>10, <1>11, CallIs DEF MayMove
<1>13. ASSUME Sound(r) PROVE Sound(to)'
  <2>1. ToWrite(to, k)'
    BY <1>2, <1>8 DEF ToWrite
  <2>2. ASSUME NEW j \in Keys, j # k PROVE Agrees(j)'
    <3>1. Agrees(j)
      BY <1>3, <1>13 DEF Sound, ToWrite
    <3> QED
      BY <1>10, <1>11, <2>2, <3>1 DEF Agrees
  <2>3. swept' => \A j \in Keys : Fresh(j)'
    BY <1>10, <1>13 DEF Sound, Fresh
  <2> QED
    BY <1>8, <1>10, <2>1, <2>2, <2>3 DEF Sound
<1> QED
  BY <1>1, <1>7, <1>10, <1>12, <1>13, CallMoves

\* Done with a port, a request goes on with the rest of its list, or is over.
LEMMA GoneOn ==
  ASSUME home \in Homes, NEW r \in CallRows, r.todo # <<>>, NEW kind \in CallKinds
  PROVE  /\ GoOn(r, kind) \in CallRows
         /\ Len(r.todo) = 1 => GoOn(r, kind) = Rest
         /\ Len(r.todo) # 1 => /\ GoOn(r, kind).kind = kind /\ GoOn(r, kind).preferred = r.preferred
                               /\ GoOn(r, kind).todo = Tail(r.todo) /\ GoOn(r, kind).read = r.read
<1>1. r.todo \in Seq(Keys)
  BY DEF CallRows
<1>2. Tail(r.todo) \in Seq(Keys)
  BY <1>1, RestOfList
<1>3. CASE Len(r.todo) = 1
  BY <1>3, RestIs DEF GoOn
<1>4. CASE Len(r.todo) # 1
  <2>1. GoOn(r, kind) = [r EXCEPT !.kind = kind, !.todo = Tail(@)]
    BY <1>4 DEF GoOn
  <2> QED
    BY <1>2, <1>4, <2>1 DEF CallRows
<1> QED
  BY <1>3, <1>4

\* The row of a port that was closed is written.
LEMMA ReleasedKeeps ==
  ASSUME MapInv, NEW c \in Calls, SaveReleased(c)
  PROVE  MapInv'
<1>1. PICK r : r = call[c]
  OBVIOUS
<1>2. PICK k : k = Head(r.todo)
  OBVIOUS
<1>3. r.kind = "released" /\ r \in CallRows /\ Carries(r) /\ OnlyRelay(r)
  BY <1>1, CallIs DEF SaveReleased
<1>4. r.todo \in Seq(Keys) /\ r.todo # <<>>
  BY <1>3 DEF CallRows, Carries
<1>5. k \in Keys /\ Tail(r.todo) \in Seq(Keys)
  BY <1>2, <1>4, RestOfList
<1>6. PICK to : to = GoOn(r, "release")
  OBVIOUS
<1>7. call' = [call EXCEPT ![c] = to]
  BY <1>1, <1>6, CallIs DEF SaveReleased, MapInv, ForwardingTyped
<1>8. to.kind \in {"none", "release"} /\ to \in CallRows /\ Carries(to) /\ OnlyRelay(to)
  <2>1. "release" \in CallKinds /\ home \in Homes
    BY CallIs DEF CallKinds
  <2>2. CASE Len(r.todo) = 1
    BY <1>3, <1>4, <1>6, <2>1, <2>2, GoneOn, RestIs
  <2>3. CASE Len(r.todo) # 1
    <3>1. to \in CallRows /\ to.kind = "release" /\ to.preferred = r.preferred /\ to.read = r.read
      BY <1>3, <1>4, <1>6, <2>1, <2>3, GoneOn
    <3>2. Carries(to) /\ OnlyRelay(to)
      BY <1>3, <3>1 DEF Carries, OnlyRelay
    <3> QED
      BY <3>1, <3>2
  <2> QED
    BY <2>2, <2>3
<1>9. mappings' = [mappings EXCEPT ![k].active = FALSE, ![k].lease = 0] /\ promised' = promised \ {k}
  BY <1>1, <1>2 DEF SaveReleased
<1>10. mappings \in [Keys -> MapRows] /\ mappings[k] \in MapRows
  BY <1>5, CallIs
<1>11. PICK row : row = [mappings[k] EXCEPT !.active = FALSE, !.lease = 0]
  OBVIOUS
<1>12. row \in MapRows /\ ~ row.active /\ row.lease = 0
  BY <1>10, <1>11 DEF MapRows
<1>13. mappings' = [mappings EXCEPT ![k] = row]
  BY <1>5, <1>9, <1>10, <1>11
<1>14. mappings' \in [Keys -> MapRows] /\ mappings'[k] = row /\ \A j \in Keys : j # k => mappings'[j] = mappings[j]
  BY <1>5, <1>10, <1>12, <1>13
<1>15. UNCHANGED <<home, env, granted, minute, swept, crossed, short>> /\ Keys' = Keys
  BY DEF SaveReleased, Keys, PortKeys
<1>16. MayMove(c, to)
  BY <1>1, <1>3, <1>8, <1>14, <1>15, CallIs DEF MayMove
<1>17. ASSUME Sound(r) PROVE Sound(to)'
  <2>1. Agrees(k)'
    BY <1>9, <1>12, <1>14 DEF Agrees
  <2>2. ASSUME NEW j \in Keys, j # k PROVE Agrees(j)'
    <3>1. Agrees(j)
      BY <1>2, <1>3, <1>17, <2>2 DEF Sound, ToWrite
    <3> QED
      BY <1>9, <1>14, <1>15, <2>2, <3>1 DEF Agrees
  <2>3. ASSUME swept', NEW j \in Keys PROVE Fresh(j)'
    <3>1. Fresh(j)
      BY <1>15, <1>17, <2>3 DEF Sound
    <3> QED
      BY <1>12, <1>14, <1>15, <3>1 DEF Fresh
  <2> QED
    BY <1>8, <1>15, <2>1, <2>2, <2>3 DEF Sound
<1> QED
  BY <1>1, <1>7, <1>15, <1>16, <1>17, CallMoves

\* A sweep finds the rows that run out soon, or none.
LEMMA RenewBegins ==
  ASSUME MapInv, NEW c \in Calls, RenewExpiringMappings(c)
  PROVE  MapInv'
<1>1. PICK due : due = InRows({k \in Keys : Due(k)})
  OBVIOUS
<1>2. home \in Homes /\ mappings \in [Keys -> MapRows] /\ {crossed, short, swept} \subseteq BOOLEAN /\ minute \in Nat
  BY CallIs
<1>3. due \in Seq(Keys) /\ ToSet(due) = {k \in Keys : Due(k)} /\ IsInjective(due)
  <2>1. PICK keys : keys = {k \in Keys : Due(k)}
    OBVIOUS
  <2>2. due \in Seq(Keys) /\ ToSet(due) = keys \cap Keys /\ IsInjective(due)
    BY <1>1, <1>2, <2>1, RowsOf
  <2> QED
    BY <2>1, <2>2
<1>4. \A k \in Keys \ ToSet(due) : Fresh(k)
  <2> SUFFICES ASSUME NEW k \in Keys, ~ Due(k) PROVE Fresh(k)
    BY <1>3
  <2>1. mappings[k].lease \in Nat
    BY <1>2 DEF MapRows
  <2> QED
    BY <1>2, <2>1, ForwardingAssumption DEF Due, Fresh
<1>5. UNCHANGED <<home, mappings, granted, minute, short, promised>> /\ Keys' = Keys
  BY DEF RenewExpiringMappings, Keys, PortKeys
<1>6. CASE due = <<>>
  <2>1. swept' = TRUE /\ UNCHANGED <<env, call, crossed>>
    BY <1>1, <1>6 DEF RenewExpiringMappings
  <2>2. DOMAIN <<>> = {}
    OBVIOUS
  <2>3. ToSet(due) = {}
    BY <1>6, <2>2 DEF ToSet
  <2>4. \A k \in Keys : Fresh(k)'
    BY <1>4, <1>5, <2>3, KeptSaid
  <2>5. ASSUME NEW r, Sound(r) PROVE Sound(r)'
    BY <1>5, <2>4, <2>5, KeptSaid DEF Sound, ToWrite
  <2>6. CallRows' = CallRows /\ \A r : (Carries(r)' <=> Carries(r)) /\ (OnlyRelay(r)' <=> OnlyRelay(r))
    BY <1>5 DEF CallRows, Carries, OnlyRelay
  <2>7. ForwardingTyped' /\ \A d \in Calls : OnlyRelay(call[d])'
    BY <1>5, <2>1, <2>6 DEF MapInv, ForwardingTyped
  <2>8. ASSUME ~ crossed' PROVE RowsSound'
    <3>1. RowsSound
      BY <2>1, <2>8 DEF MapInv
    <3>2. \A d \in Calls : Sound(call[d]) => Sound(call[d])'
      <4> SUFFICES ASSUME NEW d \in Calls, Sound(call[d]) PROVE Sound(call[d])'
        OBVIOUS
      <4>1. PICK r : r = call[d]
        OBVIOUS
      <4>2. Sound(r)'
        BY <2>5, <4>1
      <4> QED
        BY <2>1, <4>1, <4>2
    <3>3. \A d \in Calls : call'[d] = call[d]
      BY <2>1
    <3>4. Sound(Rest) => Sound(Rest)'
      <4>1. PICK r : r = Rest
        OBVIOUS
      <4> QED
        BY <2>5, <4>1
    <3> QED
      BY <1>5, <2>1, <3>1, <3>2, <3>3, <3>4 DEF RowsSound, Alone
  <2> QED
    BY <2>7, <2>8 DEF MapInv
<1>7. CASE due # <<>>
  <2>1. PICK request : request = [Rest EXCEPT !.kind = "renew", !.todo = due, !.read = mappings]
    OBVIOUS
  <2>2. swept' = FALSE /\ Begin(c, request)
    BY <1>1, <1>7, <2>1 DEF RenewExpiringMappings
  <2>3. request = [kind |-> "renew", preferred |-> None, lease |-> 0, env |-> NoEnvironment, todo |-> due,
                   read |-> mappings, out |-> <<>>]
    BY <2>1 DEF Rest
  <2>4. request \in CallRows
    BY <1>2, <1>3, <2>3 DEF CallRows, CallKinds, Environments
  <2>5. ASSUME NEW to \in CallRows, NEW e, to = [request EXCEPT !.env = e]
        PROVE  Carries(to) /\ OnlyRelay(to) /\ (~ short /\ Sound(Rest) => Sound(to)')
    <3>1. to.kind = "renew" /\ to.preferred = None /\ to.read = mappings /\ to.todo = due
      BY <2>3, <2>5
    <3>2. Carries(to) /\ OnlyRelay(to)
      BY <1>2, <1>3, <3>1 DEF Carries, OnlyRelay
    <3>3. ASSUME Sound(Rest) PROVE Sound(to)'
      <4>1. Rest.kind = "none"
        BY <1>2, RestIs
      <4>2. \A k \in Keys : Agrees(k)
        BY <3>3, <4>1 DEF Sound, ToWrite
      <4>3. \A k \in ToSet(due) : /\ mappings[k] = to.read[k] /\ to.read[k].active
                                  /\ to.read[k].lease # 0 /\ to.read[k].method \in Mapped
        BY <1>3, <3>1, <4>2 DEF Due, Agrees
      <4>4. \A k \in Keys \ ToSet(due) : Fresh(k)'
        BY <1>4, <1>5, KeptSaid
      <4>5. \A k \in Keys : Agrees(k)'
        BY <1>5, <4>2, KeptSaid
      <4> QED
        BY <1>5, <2>2, <3>1, <4>3, <4>4, <4>5 DEF Sound
    <3> QED
      BY <3>2, <3>3
  <2> QED
    BY <1>2, <1>5, <2>2, <2>4, <2>5, BeginMoves
<1> QED
  BY <1>6, <1>7

\* A lease is renewed at the router, and its row is still to be written.
LEMMA RenewKeeps ==
  ASSUME MapInv, NEW c \in Calls, RenewPort(c)
  PROVE  MapInv'
<1>1. PICK r : r = call[c]
  OBVIOUS
<1>2. PICK k : k = Head(r.todo)
  OBVIOUS
<1>3. r.kind = "renew" /\ r.todo # <<>> /\ r \in CallRows /\ Carries(r) /\ OnlyRelay(r)
  BY <1>1, CallIs DEF RenewPort
<1>4. k \in Keys /\ k \in ToSet(r.todo)
  <2>1. r.todo \in Seq(Keys)
    BY <1>3 DEF CallRows
  <2> QED
    BY <1>2, <1>3, <2>1, RestOfList
<1>5. PICK a : /\ Hold(k, a.granted)
               /\ short' = (short \/ a.granted # IF a.ok THEN Renewal ELSE Nothing)
               /\ call' = [call EXCEPT ![c].kind = "renewed", ![c].lease = IF a.ok THEN Renewal ELSE 0]
  BY <1>1, <1>2 DEF RenewPort
<1>6. PICK lease : lease = IF a.ok THEN Renewal ELSE 0
  OBVIOUS
<1>7. PICK to : to = [r EXCEPT !.kind = "renewed", !.lease = lease]
  OBVIOUS
<1>8. call' = [call EXCEPT ![c] = to]
  BY <1>1, <1>5, <1>6, <1>7, CallIs DEF MapInv, ForwardingTyped
<1>9. lease \in Nat /\ Renewal # 0 /\ Renewal \in Nat \ {0} /\ Renewal # Forever
  BY <1>6, NatAssumption
<1>10. /\ to.kind = "renewed" /\ to.preferred = r.preferred /\ to.lease = lease /\ to.todo = r.todo
       /\ to.out = r.out /\ to.env = r.env /\ to.read = r.read
  BY <1>3, <1>7 DEF CallRows
<1>11. to \in CallRows /\ Carries(to) /\ OnlyRelay(to)
  <2>1. to \in CallRows
    BY <1>3, <1>7, <1>9, <1>10 DEF CallRows, CallKinds
  <2>2. Carries(to)
    BY <1>3, <1>10 DEF Carries
  <2>3. OnlyRelay(to)
    BY <1>10 DEF OnlyRelay
  <2> QED
    BY <2>1, <2>2, <2>3
<1>12. UNCHANGED <<home, env, mappings, minute, swept, crossed, promised>> /\ Keys' = Keys
  BY DEF RenewPort, Keys, PortKeys
<1>13. /\ DOMAIN granted' = Keys /\ \A j \in Keys : j # k => granted'[j] = granted[j]
       /\ a.granted = Nothing => granted'[k] = granted[k]
       /\ a.granted \in Nat \ {0} /\ a.granted # Forever => granted'[k] = minute + a.granted
  BY <1>4, <1>5, CallIs, HoldIs
<1>14. short' \in BOOLEAN /\ (short => short')
  BY <1>5
<1>15. MayMove(c, to)
  BY <1>1, <1>3, <1>11, <1>12, <1>13, <1>14, CallIs DEF MayMove
<1>16. ASSUME ~ short', Sound(r) PROVE Sound(to)'
  <2>1. a.granted = IF a.ok THEN Renewal ELSE Nothing
    BY <1>5, <1>16
  <2>2. Agrees(k) /\ mappings[k].active /\ mappings[k].lease # 0 /\ mappings[k].method \in Mapped
    BY <1>3, <1>4, <1>16 DEF Sound, ToWrite
  <2>3. granted[k] = mappings[k].lease
    BY <2>2 DEF Agrees
  <2>4. granted'[k] = IF lease = Renewal THEN minute + Renewal ELSE mappings[k].lease
    BY <1>6, <1>9, <1>13, <2>1, <2>3
  <2>5. ToWrite(to, k)'
    BY <1>2, <1>10 DEF ToWrite
  <2>6. ASSUME NEW j \in Keys, j # k PROVE Agrees(j)'
    <3>1. Agrees(j)
      BY <1>3, <1>16 DEF Sound, ToWrite
    <3> QED
      BY <1>12, <1>13, <2>6, <3>1 DEF Agrees
  <2>7. \A j \in Keys : Fresh(j)' <=> Fresh(j)
    BY <1>12 DEF Fresh
  <2>8. \A j \in ToSet(r.todo) : /\ mappings'[j] = to.read[j] /\ to.read[j].active
                                 /\ to.read[j].lease # 0 /\ to.read[j].method \in Mapped
    BY <1>3, <1>10, <1>12, <1>16 DEF Sound
  <2>9. (\A j \in Keys \ ToSet(r.todo) : Fresh(j)') /\ (swept' => \A j \in Keys : Fresh(j)')
    BY <1>3, <1>12, <1>16, <2>7 DEF Sound
  <2> QED
    BY <1>2, <1>10, <1>12, <2>4, <2>5, <2>6, <2>8, <2>9 DEF Sound
<1> QED
  BY <1>1, <1>8, <1>12, <1>15, <1>16, CallMoves

\* The row of a renewed lease is written; the last of them ends the sweep.
LEMMA RenewedKeeps ==
  ASSUME MapInv, NEW c \in Calls, SaveRenewed(c)
  PROVE  MapInv'
<1>1. PICK r : r = call[c]
  OBVIOUS
<1>2. PICK k : k = Head(r.todo)
  OBVIOUS
<1>3. r.kind = "renewed" /\ r \in CallRows /\ Carries(r) /\ OnlyRelay(r)
  BY <1>1, CallIs DEF SaveRenewed
<1>4. /\ r.todo \in Seq(Keys) /\ r.todo # <<>> /\ IsInjective(r.todo) /\ r.read \in [Keys -> MapRows]
      /\ r.preferred = None
  BY <1>3 DEF CallRows, Carries
<1>5. /\ k \in Keys /\ Tail(r.todo) \in Seq(Keys) /\ ToSet(r.todo) = {k} \cup ToSet(Tail(r.todo))
      /\ k \notin ToSet(Tail(r.todo)) /\ IsInjective(Tail(r.todo))
      /\ (Len(r.todo) = 1 => ToSet(Tail(r.todo)) = {}) /\ ToSet(r.todo) \subseteq Keys
  BY <1>2, <1>4, RestOfList
<1>6. PICK to : to = GoOn(r, "renew")
  OBVIOUS
<1>7. call' = [call EXCEPT ![c] = to]
  BY <1>1, <1>6, CallIs DEF SaveRenewed, MapInv, ForwardingTyped
<1>8. /\ to \in CallRows /\ Carries(to) /\ OnlyRelay(to) /\ swept' \in BOOLEAN
      /\ \/ Len(r.todo) = 1 /\ to.kind = "none" /\ swept' = TRUE
         \/ to.kind = "renew" /\ to.todo = Tail(r.todo) /\ to.read = r.read /\ swept' = FALSE
  <2>1. "renew" \in CallKinds /\ home \in Homes
    BY CallIs DEF CallKinds
  <2>2. swept' = (Len(r.todo) = 1)
    BY <1>1 DEF SaveRenewed
  <2>3. CASE Len(r.todo) = 1
    BY <1>3, <1>4, <1>6, <2>1, <2>2, <2>3, GoneOn, RestIs
  <2>4. CASE Len(r.todo) # 1
    <3>1. /\ to \in CallRows /\ to.kind = "renew" /\ to.preferred = r.preferred /\ to.read = r.read
          /\ to.todo = Tail(r.todo)
      BY <1>3, <1>4, <1>6, <2>1, <2>4, GoneOn
    <3>2. Carries(to) /\ OnlyRelay(to)
      BY <1>4, <1>5, <3>1 DEF Carries, OnlyRelay
    <3> QED
      BY <2>2, <2>4, <3>1, <3>2
  <2> QED
    BY <2>3, <2>4
<1>9. minute \in Nat /\ mappings \in [Keys -> MapRows] /\ mappings[k] \in MapRows /\ r.read[k] \in MapRows
  BY <1>4, <1>5, CallIs
<1>10. PICK renewed : renewed = (r.lease = Renewal)
  OBVIOUS
<1>11. PICK row : row = AfterRenewal(mappings[k], r.read[k], renewed)
  OBVIOUS
<1>12. mappings' = [mappings EXCEPT ![k] = row]
  BY <1>1, <1>2, <1>10, <1>11 DEF SaveRenewed
<1>13. /\ row \in MapRows /\ row.method = mappings[k].method
       /\ row.active = (renewed \/ r.read[k].lease > minute)
       /\ row.lease = IF renewed THEN minute + Renewal ELSE IF r.read[k].lease > minute THEN r.read[k].lease ELSE 0
  <2>1. r.read[k].lease \in Nat /\ minute + Renewal \in Nat /\ renewed \in BOOLEAN
    BY <1>9, <1>10, NatAssumption DEF MapRows
  <2> QED
    BY <1>9, <1>11, <2>1 DEF AfterRenewal, MapRows
<1>14. mappings' \in [Keys -> MapRows] /\ mappings'[k] = row /\ \A j \in Keys : j # k => mappings'[j] = mappings[j]
  BY <1>5, <1>9, <1>12, <1>13
<1>15. UNCHANGED <<home, env, granted, minute, crossed, short, promised>> /\ Keys' = Keys
  BY DEF SaveRenewed, Keys, PortKeys
<1>16. MayMove(c, to)
  BY <1>1, <1>3, <1>8, <1>14, <1>15, CallIs DEF MayMove
<1>17. ASSUME Sound(r) PROVE Sound(to)'
  <2>1. /\ mappings[k] = r.read[k] /\ mappings[k].active /\ mappings[k].lease # 0 /\ mappings[k].method \in Mapped
        /\ granted[k] = IF renewed THEN minute + Renewal ELSE mappings[k].lease
    BY <1>2, <1>3, <1>5, <1>10, <1>17 DEF Sound
  <2>2. mappings[k].lease \in Nat /\ Renewal \in Nat \ {0}
    BY <1>9, NatAssumption DEF MapRows
  <2>3. Agrees(k)'
    <3>1. CASE renewed
      <4>1. row.active
        BY <1>13, <3>1, Zenon
      <4>2. row.lease = minute + Renewal
        BY <1>13, <3>1, Zenon
      <4>3. minute + Renewal # 0
        BY <1>9, <2>2
      <4> QED
        BY <1>13, <1>14, <1>15, <2>1, <3>1, <4>1, <4>2, <4>3 DEF Agrees
    <3>2. CASE ~ renewed /\ mappings[k].lease > minute
      <4>1. row.active /\ row.lease = mappings[k].lease
        BY <1>13, <2>1, <3>2
      <4> QED
        BY <1>13, <1>14, <1>15, <2>1, <3>2, <4>1 DEF Agrees
    <3>3. CASE ~ renewed /\ ~ (mappings[k].lease > minute)
      <4>1. ~ row.active /\ row.lease = 0
        BY <1>13, <2>1, <3>3
      <4>2. granted[k] \in Int /\ granted[k] <= minute
        BY <1>9, <2>1, <2>2, <3>3
      <4> QED
        BY <1>14, <1>15, <4>1, <4>2 DEF Agrees
    <3> QED
      BY <3>1, <3>2, <3>3
  <2>4. ASSUME NEW j \in Keys, j # k PROVE Agrees(j)'
    <3>1. Agrees(j)
      BY <1>2, <1>3, <1>17, <2>4 DEF Sound, ToWrite
    <3> QED
      BY <1>14, <1>15, <2>4, <3>1 DEF Agrees
  <2>5. Fresh(k)'
    <3>1. row.lease # 0 => row.lease > minute
      BY <1>9, <1>13, <2>1, <2>2
    <3> QED
      BY <1>14, <1>15, <3>1 DEF Fresh
  <2>6. ASSUME NEW j \in Keys \ ToSet(Tail(r.todo)) PROVE Fresh(j)'
    <3>1. CASE j = k
      BY <2>5, <3>1
    <3>2. CASE j # k
      <4>1. Fresh(j)
        BY <1>3, <1>5, <1>17, <3>2 DEF Sound
      <4> QED
        BY <1>14, <1>15, <3>2, <4>1 DEF Fresh
    <3> QED
      BY <3>1, <3>2
  <2>7. ASSUME NEW j \in ToSet(Tail(r.todo))
        PROVE  mappings'[j] = r.read[j] /\ r.read[j].active /\ r.read[j].lease # 0 /\ r.read[j].method \in Mapped
    <3>1. j # k /\ j \in ToSet(r.todo) /\ j \in Keys
      BY <1>5
    <3>2. mappings[j] = r.read[j] /\ r.read[j].active /\ r.read[j].lease # 0 /\ r.read[j].method \in Mapped
      BY <1>3, <1>17, <3>1 DEF Sound
    <3> QED
      BY <1>14, <3>1, <3>2
  <2>8. CASE to.kind = "none"
    <3>1. \A j \in Keys : Agrees(j)' /\ Fresh(j)'
      BY <1>5, <1>8, <2>3, <2>4, <2>6, <2>8
    <3> QED
      BY <1>15, <2>8, <3>1 DEF Sound
  <2>9. CASE to.kind # "none"
    <3>1. to.kind = "renew" /\ to.todo = Tail(r.todo) /\ to.read = r.read /\ swept' = FALSE
      BY <1>8, <2>9
    <3>2. \A j \in Keys : Agrees(j)'
      BY <2>3, <2>4
    <3> QED
      BY <1>15, <2>6, <2>7, <3>1, <3>2 DEF Sound
  <2> QED
    BY <2>8, <2>9
<1> QED
  BY <1>1, <1>7, <1>15, <1>16, <1>17, CallMoves

\* The clock moves only after a sweep, with nothing under way.
LEMMA MinutesKeep ==
  ASSUME MapInv, MinutesPass
  PROVE  MapInv'
<1>1. /\ UNCHANGED <<home, env, mappings, granted, call, crossed, short, promised>> /\ Keys' = Keys
      /\ minute' = minute + 1 /\ swept' = FALSE /\ minute < LastMinute
      /\ \A d \in Calls : call[d] = Rest
  BY DEF MinutesPass, Keys, PortKeys, Busy
<1>2. home \in Homes /\ minute \in 0 .. LastMinute /\ LastMinute \in Nat
  BY ForwardingAssumption DEF MapInv, ForwardingTyped
<1>3. CallRows' = CallRows /\ \A r : (Carries(r)' <=> Carries(r)) /\ (OnlyRelay(r)' <=> OnlyRelay(r))
  BY <1>1 DEF CallRows, Carries, OnlyRelay
<1>4. minute' \in 0 .. LastMinute
  BY <1>1, <1>2
<1>5. ForwardingTyped' /\ \A d \in Calls : OnlyRelay(call[d])'
  BY <1>1, <1>3, <1>4 DEF MapInv, ForwardingTyped
<1>6. ASSUME ~ crossed' PROVE RowsSound'
  <2>1. RowsSound /\ Rest.kind = "none"
    BY <1>1, <1>2, <1>6, RestIs DEF MapInv
  <2>2. ASSUME ~ short' PROVE Sound(Rest)'
    <3>1. \A d \in Calls : call[d].kind = "none"
      BY <1>1, <2>1
    <3>2. Sound(Rest)
      BY <1>1, <2>1, <2>2, <3>1 DEF RowsSound
    <3>3. ASSUME NEW k \in Keys PROVE Agrees(k)'
      <4>1. Agrees(k)
        BY <2>1, <3>2 DEF Sound, ToWrite
      <4>2. \A g \in Int : g <= minute => g <= minute'
        BY <1>1, <1>2
      <4> QED
        BY <1>1, <4>1, <4>2 DEF Agrees
    <3> QED
      BY <1>1, <2>1, <3>3 DEF Sound
  <2> QED
    BY <1>1, <2>1, <2>2 DEF RowsSound, Alone
<1> QED
  BY <1>5, <1>6 DEF MapInv

\* A restart drops the requests, and says so when there were any.
LEMMA RestartKeepsRows ==
  ASSUME MapInv, PanelRestarts
  PROVE  MapInv'
<1>1. /\ UNCHANGED <<home, mappings, granted, minute, short, promised>> /\ Keys' = Keys
      /\ call' = [c \in Calls |-> Rest] /\ env' = [value |-> NoEnvironment, at |-> -EnvLife]
      /\ crossed' = (crossed \/ Busy # {}) /\ swept' = FALSE
  BY DEF PanelRestarts, Keys, PortKeys
<1>2. home \in Homes /\ NoEnvironment \in Environments
  BY DEF MapInv, ForwardingTyped, Environments
<1>3. Rest \in CallRows /\ Carries(Rest) /\ OnlyRelay(Rest) /\ Rest.kind = "none"
  BY <1>2, RestIs
<1>4. CallRows' = CallRows /\ \A r : (Carries(r)' <=> Carries(r)) /\ (OnlyRelay(r)' <=> OnlyRelay(r))
  BY <1>1 DEF CallRows, Carries, OnlyRelay
<1>5. call' \in [Calls -> CallRows] /\ \A d \in Calls : call'[d] = Rest
  BY <1>1, <1>3
<1>6. \A d \in Calls : Carries(call'[d]) /\ OnlyRelay(call'[d])
  BY <1>3, <1>5
<1>7. env'.value \in Environments
  BY <1>1, <1>2
<1>8. ForwardingTyped'
  BY <1>1, <1>4, <1>5, <1>6, <1>7 DEF MapInv, ForwardingTyped
<1>9. \A d \in Calls : OnlyRelay(call[d])'
  BY <1>4, <1>6
<1>10. ASSUME ~ crossed' PROVE RowsSound'
  <2>1. ~ crossed /\ \A d \in Calls : call[d] = Rest
    BY <1>1, <1>10 DEF Busy
  <2>2. RowsSound
    BY <2>1 DEF MapInv
  <2>3. ASSUME ~ short' PROVE Sound(Rest)'
    <3>1. Sound(Rest)
      BY <1>1, <1>3, <2>1, <2>2, <2>3 DEF RowsSound
    <3>2. \A k \in Keys : Agrees(k)'
      BY <1>1, <1>3, <3>1, KeptSaid DEF Sound, ToWrite
    <3> QED
      BY <1>1, <1>3, <3>2 DEF Sound
  <2> QED
    BY <1>3, <1>5, <2>3 DEF RowsSound, Alone
<1> QED
  BY <1>8, <1>9, <1>10 DEF MapInv

\* Every step of forwarding keeps its invariant.
LEMMA ForwardingStep == MapInv /\ [ForwardingNext]_forwardingVars => MapInv'
<1> SUFFICES ASSUME MapInv, [ForwardingNext]_forwardingVars PROVE MapInv'
  OBVIOUS
<1>1. CASE UNCHANGED forwardingVars
  <2>1. UNCHANGED <<home, env, mappings, granted, minute, call, crossed, short, swept, promised>> /\ Keys' = Keys
    BY <1>1 DEF forwardingVars, Keys, PortKeys
  <2>2. CallRows' = CallRows /\ \A r : (Carries(r)' <=> Carries(r)) /\ (OnlyRelay(r)' <=> OnlyRelay(r))
    BY <2>1 DEF CallRows, Carries, OnlyRelay
  <2>3. \A r : Sound(r)' <=> Sound(r)
    BY <2>1, KeptSaid DEF Sound, ToWrite
  <2>4. ForwardingTyped' /\ \A d \in Calls : OnlyRelay(call[d])'
    BY <2>1, <2>2 DEF MapInv, ForwardingTyped
  <2>5. RowsSound => RowsSound'
    <3>1. \A d \in Calls : Sound(call[d]) => Sound(call[d])'
      <4> SUFFICES ASSUME NEW d \in Calls, Sound(call[d]) PROVE Sound(call[d])'
        OBVIOUS
      <4>1. PICK r : r = call[d]
        OBVIOUS
      <4>2. Sound(r)'
        BY <2>3, <4>1
      <4> QED
        BY <2>1, <4>1, <4>2
    <3>2. Sound(Rest) => Sound(Rest)'
      <4>1. PICK r : r = Rest
        OBVIOUS
      <4> QED
        BY <2>3, <4>1
    <3> QED
      BY <2>1, <3>1, <3>2 DEF RowsSound, Alone
  <2> QED
    BY <2>1, <2>4, <2>5 DEF MapInv
<1>2. CASE \E c \in Calls :
             \/ ForwardServerPorts(c) \/ ForwardPort(c) \/ ConfirmStaticForwards(c) \/ SaveOutcome(c)
             \/ PublishAddress(c)
             \/ ReleaseServerPortMappings(c) \/ UnmapPort(c) \/ SaveReleased(c)
             \/ RenewExpiringMappings(c) \/ RenewPort(c) \/ SaveRenewed(c)
  BY <1>2, ForwardBegins, ForwardKeeps, ConfirmKeeps, SaveKeeps, PublishKeeps, ReleaseBegins, UnmapKeeps,
     ReleasedKeeps, RenewBegins, RenewKeeps, RenewedKeeps
<1>3. CASE MinutesPass \/ PanelRestarts
  BY <1>3, MinutesKeep, RestartKeepsRows
<1> QED
  BY <1>1, <1>2, <1>3 DEF ForwardingNext

\* Nothing is mapped and nothing promised at first.
LEMMA ForwardingStarts == ForwardingInit => MapInv
<1> SUFFICES ASSUME ForwardingInit PROVE MapInv
  OBVIOUS
<1>1. home \in Homes /\ minute = 0 /\ ~ crossed /\ crossed = FALSE /\ short = FALSE /\ swept = FALSE /\ promised = {}
  BY DEF ForwardingInit
<1>2. call = [c \in Calls |-> Rest] /\ Rest \in CallRows /\ Carries(Rest) /\ OnlyRelay(Rest) /\ Rest.kind = "none"
  BY <1>1, RestIs DEF ForwardingInit
<1>3. PICK row : row = [method |-> "MANUAL", active |-> FALSE, lease |-> 0]
  OBVIOUS
<1>4. row \in MapRows /\ ~ row.active /\ row.lease = 0
  BY <1>3 DEF MapRows, RowMethods
<1>5. mappings = [k \in Keys |-> row] /\ granted = [k \in Keys |-> 0] /\ env = [value |-> NoEnvironment, at |-> -EnvLife]
  BY <1>3 DEF ForwardingInit
<1>6. env.value \in Environments /\ 0 \in 0 .. LastMinute
  BY <1>5, ForwardingAssumption DEF Environments
<1>7. ForwardingTyped
  BY <1>1, <1>2, <1>4, <1>5, <1>6 DEF ForwardingTyped
<1>8. Sound(Rest)
  <2>1. \A k \in Keys : Agrees(k)
    BY <1>1, <1>4, <1>5 DEF Agrees
  <2> QED
    BY <1>1, <1>2, <2>1 DEF Sound
<1>9. RowsSound
  BY <1>2, <1>8 DEF RowsSound
<1> QED
  BY <1>2, <1>7, <1>9 DEF MapInv

\* Once a sweep is through, the rows agree with what the router maps: for every
\* network, every set of ports and requests, every lease and every time.
THEOREM RowsAlwaysAgree == ForwardingSpec => []RowsAgree
<1>1. MapInv => RowsAgree
  <2> SUFFICES ASSUME MapInv, ~ crossed, ~ short, swept, Busy = {}, NEW k \in Keys
               PROVE  /\ mappings[k].active /\ mappings[k].method \in {"NATPMP", "PCP", "UPNP"} => granted[k] > minute
                      /\ k \in promised /\ granted[k] > minute => mappings[k].active
    BY DEF RowsAgree
  <2>1. \A d \in Calls : call[d] = Rest
    BY DEF Busy
  <2>2. home \in Homes /\ minute \in 0 .. LastMinute /\ mappings \in [Keys -> MapRows]
    BY DEF MapInv, ForwardingTyped
  <2>3. Sound(Rest) /\ Rest.kind = "none"
    BY <2>1, <2>2, RestIs DEF MapInv, RowsSound
  <2>4. Agrees(k) /\ Fresh(k)
    BY <2>3 DEF Sound, ToWrite
  <2>5. Forever \in Nat /\ minute \in Nat /\ Forever > minute /\ mappings[k].lease \in Nat
    BY <2>2, ForwardingAssumption, NatAssumption DEF MapRows
  <2>6. ASSUME mappings[k].active, mappings[k].method \in Mapped PROVE granted[k] > minute
    BY <2>4, <2>5, <2>6 DEF Agrees, Fresh
  <2>7. ASSUME k \in promised, granted[k] > minute, ~ mappings[k].active PROVE FALSE
    <3>1. granted[k] \in Int /\ granted[k] <= minute
      BY <2>4, <2>7 DEF Agrees
    <3> QED
      BY <2>5, <2>7, <3>1
  <2> QED
    BY <2>6, <2>7 DEF Mapped
<1> QED
  BY <1>1, ForwardingStarts, ForwardingStep, PTL DEF ForwardingSpec

\* The address of the relay, or the one that was there.
LEMMA PublishesRelay ==
  ASSUME MapInv, NEW c \in Calls, PublishAddress(c), call[c].preferred = "relay", home.relay
  PROVE  published'.address \in {published.address, "relay"}
<1>1. PICK out : out = call[c].out
  OBVIOUS
<1>2. call[c].kind = "save" /\ call[c].todo = <<>> /\ OnlyRelay(call[c]) /\ home \in Homes
  BY CallIs DEF PublishAddress
<1>3. ToSet(call[c].todo) = {}
  <2>1. DOMAIN <<>> = {}
    OBVIOUS
  <2> QED
    BY <1>2, <2>1 DEF ToSet
<1>4. \A k \in Keys : out[k].address \in {"relay", "blank", None}
  BY <1>1, <1>2 DEF OnlyRelay
<1>5. "game" \in Keys
  BY <1>2, KeysAre
<1>6. PICK others : others = {out[k].address : k \in {j \in Keys : out[j].success}} \ {None, "blank"}
  OBVIOUS
<1>7. PICK address : address = IF out["game"].success /\ out["game"].address # None
                               THEN {out["game"].address} ELSE others
  OBVIOUS
<1>8. \E a \in IF address \in {{}, {"blank"}} THEN {published.address} ELSE address : published'.address = a
  <2>1. \E a \in IF address \in {{}, {"blank"}} THEN {published.address} ELSE address :
          published' = [address |-> a, port |-> IF ~ out["game"].success THEN published.port
                                  ELSE IF out["game"].method = "RELAY" THEN "relay" ELSE "own"]
    BY <1>1, <1>6, <1>7, Zenon DEF PublishAddress
  <2> QED
    BY <2>1
<1>9. CASE out["game"].success /\ out["game"].address # None
  BY <1>4, <1>5, <1>7, <1>8, <1>9 DEF None
<1>10. CASE ~ (out["game"].success /\ out["game"].address # None)
  <2>1. \A a \in address : a = "relay"
    BY <1>4, <1>6, <1>7, <1>10
  <2> QED
    BY <1>8, <2>1
<1> QED
  BY <1>9, <1>10

\* Whoever asks for the relay is never answered with the address of this
\* connection, whatever other requests do at the same time.
THEOREM RelayAlwaysHides == ForwardingSpec => RelayHides
<1>1. MapInv /\ [ForwardingNext]_forwardingVars =>
        [\A c \in Calls : call[c].preferred = "relay" /\ home.relay /\ call'[c] = Rest =>
           published'.address \in {published.address, "relay"}]_forwardingVars
  <2> SUFFICES ASSUME MapInv, ForwardingNext, NEW c \in Calls, call[c].preferred = "relay", home.relay,
                      call'[c] = Rest
               PROVE  published'.address \in {published.address, "relay"}
    OBVIOUS
  <2>1. CASE published' = published
    BY <2>1
  <2>2. CASE published' # published
    <3>1. PICK d \in Calls : PublishAddress(d)
      BY <2>2 DEF ForwardingNext, ForwardServerPorts, ForwardPort, ConfirmStaticForwards, SaveOutcome,
                  ReleaseServerPortMappings, UnmapPort, SaveReleased, RenewExpiringMappings, RenewPort,
                  SaveRenewed, MinutesPass, PanelRestarts
    <3>2. home \in Homes
      BY DEF MapInv, ForwardingTyped
    <3>3. call[c] # Rest
      BY <3>2, RestIs DEF None
    <3>4. c = d
      BY <3>1, <3>3 DEF PublishAddress, MapInv, ForwardingTyped
    <3> QED
      BY <3>1, <3>4, PublishesRelay
  <2> QED
    BY <2>1, <2>2
<1> QED
  BY <1>1, ForwardingStarts, ForwardingStep, PTL DEF ForwardingSpec, RelayHides

(***************************************************************************)
(* The mod list of a server.                                               *)
(***************************************************************************)
Entries == [mod : ModIds, order : Nat, enabled : BOOLEAN]
ModRows == [mod : ModIds, order : Nat, enabled : BOOLEAN, by : Nat]
Editors == [stage : {"none", "planned", "deleting", "committed", "written"}, list : Seq(Entries),
            victims : SUBSET ModRows, behind : SUBSET Nat, by : Nat]

\* The orders of a list are its places.
Tight(list) == \A i \in 1..Len(list) : list[i].order = i - 1

\* No mod comes twice in a list.
Distinct(list) == \A i, j \in 1..Len(list) : list[i].mod = list[j].mod => i = j

ModsTyped ==
  /\ game \in Games
  /\ modRows \subseteq ModRows /\ IsFiniteSet(modRows)
  /\ preset.list \in Seq(Entries)
  /\ editor \in [Handlers -> Editors]
  /\ changes \in Nat

\* What is about to be written is tight.
PlannedTight == \A h \in Handlers : editor[h].stage \in {"planned", "deleting"} => Tight(editor[h].list)

\* Unless transactions overlapped, one at a time deletes, and it deletes all there is.
DeletesAll ==
  /\ \A g, h \in Handlers : editor[g].stage = "deleting" /\ editor[h].stage = "deleting" => g = h
  /\ \A h \in Handlers : editor[h].stage = "deleting" => editor[h].victims = modRows

EInv ==
  /\ ModsTyped /\ PlannedTight
  /\ ~ mixed => DeletesAll /\ OrderTight
  /\ PresetUsable

\* What is kept of a list is a list of the same kind, with no mod twice if it had none.
LEMMA AmongIs ==
  ASSUME NEW S, NEW list \in Seq(S), NEW entries
  PROVE  /\ Among(list, entries) \in Seq(S)
         /\ \A i \in 1..Len(Among(list, entries)) : Among(list, entries)[i] \in entries
         /\ Distinct(list) => Distinct(Among(list, entries))
<1>1. Len(list) \in Nat /\ DOMAIN list = 1..Len(list)
  BY LenProperties
<1> DEFINE Kept == CHOOSE f : Keeps(Len(list), f, list, entries)
<1>2. Keeps(Len(list), Kept, list, entries)
  BY <1>1, KeepsExists
<1>3. Among(list, entries) = Kept[Len(list)]
  BY DEF Among, Keeps
<1> HIDE DEF Kept
<1> DEFINE Good(n) ==
      /\ Kept[n] \in Seq(S)
      /\ \A i \in 1..Len(Kept[n]) : Kept[n][i] \in entries /\ \E k \in 1..n : Kept[n][i] = list[k]
      /\ Distinct(list) => Distinct(Kept[n])
    Bad == {n \in 0..Len(list) : ~ Good(n)}
<1>4. Bad = {}
  <2> SUFFICES ASSUME Bad # {} PROVE FALSE
    OBVIOUS
  <2>1. PICK n \in Bad : \A m \in Bad : n <= m
    <3>1. Bad \in SUBSET Nat
      BY <1>1
    <3> HIDE DEF Bad
    <3> QED
      BY <3>1, LeastOf
  <2>2. CASE n = 0
    <3>1. Kept[0] = <<>>
      BY <1>1, <1>2 DEF Keeps
    <3>2. <<>> \in Seq(S) /\ Len(<<>>) = 0
      OBVIOUS
    <3>3. Good(0)
      BY <3>1, <3>2 DEF Distinct
    <3> QED
      BY <2>1, <2>2, <3>3
  <2>3. CASE n # 0
    <3>1. n - 1 \in 0..Len(list) /\ n \in 1..Len(list) /\ ~ (n <= n - 1)
      BY <1>1, <2>1, <2>3
    <3>2. Good(n - 1)
      <4>1. n - 1 \notin Bad
        BY <2>1, <3>1
      <4> QED
        BY <3>1, <4>1
    <3>3. Kept[n] = IF list[n] \in entries THEN Append(Kept[n - 1], list[n]) ELSE Kept[n - 1]
      BY <1>2, <2>3, <3>1 DEF Keeps
    <3>4. list[n] \in S
      BY <1>1, <3>1, ElementOfSeq
    <3>5. PICK u : u = Kept[n - 1]
      OBVIOUS
    <3>6. /\ u \in Seq(S) /\ Len(u) \in Nat
          /\ \A i \in 1..Len(u) : u[i] \in entries /\ \E k \in 1..(n - 1) : u[i] = list[k]
          /\ Distinct(list) => Distinct(u)
      BY <3>2, <3>5, LenProperties
    <3>7. 1..n = (1..(n - 1)) \cup {n} /\ n \notin 1..(n - 1)
      BY <1>1, <3>1
    <3>8. CASE list[n] \notin entries
      <4>1. Good(n)
        BY <3>3, <3>5, <3>6, <3>7, <3>8
      <4> QED
        BY <2>1, <4>1
    <3>9. CASE list[n] \in entries
      <4>1. PICK v : v = Append(u, list[n])
        OBVIOUS
      <4>2. /\ v \in Seq(S) /\ Len(v) = Len(u) + 1 /\ v[Len(u) + 1] = list[n]
            /\ \A i \in 1..Len(u) : v[i] = u[i]
        BY <3>4, <3>6, <4>1, AppendProperties
      <4>3. 1..Len(v) = (1..Len(u)) \cup {Len(u) + 1}
        BY <3>6, <4>2
      <4>4. \A i \in 1..Len(v) : v[i] \in entries /\ \E k \in 1..n : v[i] = list[k]
        BY <3>6, <3>7, <3>9, <4>2, <4>3
      <4>5. ASSUME Distinct(list) PROVE Distinct(v)
        <5>1. \A i \in 1..Len(u) : v[i].mod # list[n].mod
          <6> TAKE i \in 1..Len(u)
          <6>1. PICK k \in 1..(n - 1) : u[i] = list[k]
            BY <3>6
          <6>2. k \in 1..Len(list) /\ k # n
            BY <3>1, <1>1, <3>7
          <6> QED
            BY <3>1, <4>2, <4>5, <6>1, <6>2 DEF Distinct
        <5>2. \A i, j \in 1..Len(u) : v[i].mod = v[j].mod => i = j
          BY <3>6, <4>2, <4>5 DEF Distinct
        <5> QED
          BY <4>2, <4>3, <5>1, <5>2 DEF Distinct
      <4>6. Kept[n] = v
        BY <3>3, <3>5, <3>9, <4>1
      <4>7. Good(n)
        BY <4>2, <4>4, <4>5, <4>6
      <4> QED
        BY <2>1, <4>7
    <3> QED
      BY <3>8, <3>9
  <2> QED
    BY <2>2, <2>3
<1>5. Good(Len(list))
  <2>1. Len(list) \in 0..Len(list)
    BY <1>1
  <2>2. ASSUME ~ Good(Len(list)) PROVE FALSE
    <3>1. Len(list) \in Bad
      BY <2>1, <2>2
    <3> HIDE DEF Bad
    <3> QED
      BY <1>4, <3>1
  <2> QED
    BY <2>2
<1> QED
  BY <1>3, <1>5

\* [Sorted] is a reordering of its list: every place has an entry of the list.
LEMMA SortedIs ==
  ASSUME NEW list \in Seq(Entries)
  PROVE  Sorted(list) \in Seq(Entries) /\ Len(Sorted(list)) = Len(list)
<1> DEFINE n == Len(list)
           Below(i) == {j \in 1..n : list[j].order < list[i].order \/ (list[j].order = list[i].order /\ j <= i)}
           rank == [i \in 1..n |-> Cardinality(Below(i))]
<1>1. n \in Nat /\ DOMAIN list = 1..n
  BY LenProperties
<1>2. \A i \in 1..n : list[i] \in Entries /\ list[i].order \in Nat
  <2> TAKE i \in 1..n
  <2>1. list[i] \in Entries
    BY <1>1, ElementOfSeq
  <2> QED
    BY <2>1 DEF Entries
<1>3. IsFiniteSet(1..n) /\ Cardinality(1..n) = n
  <2>1. IsFiniteSet(1..n) /\ Cardinality(1..n) = IF 1 > n THEN 0 ELSE n - 1 + 1
    BY <1>1, FS_Interval
  <2> QED
    BY <1>1, <2>1
<1>4. \A i \in 1..n : IsFiniteSet(Below(i)) /\ Cardinality(Below(i)) \in 1..n
  <2> TAKE i \in 1..n
  <2>1. Below(i) \in SUBSET (1..n) /\ i \in Below(i)
    BY <1>1, <1>2
  <2>2. IsFiniteSet(Below(i)) /\ Cardinality(Below(i)) <= n
    BY <1>3, <2>1, FS_Subset
  <2>3. Cardinality(Below(i)) \in Nat /\ Cardinality(Below(i)) # 0
    BY <2>1, <2>2, FS_EmptySet, FS_CardinalityType
  <2> QED
    BY <1>1, <2>2, <2>3
<1>5. ASSUME NEW i \in 1..n, NEW k \in 1..n, i # k, i \in Below(k)
      PROVE  Cardinality(Below(i)) # Cardinality(Below(k))
  <2>1. k \notin Below(i)
    BY <1>1, <1>2, <1>5
  <2>2. Below(i) \in SUBSET Below(k)
    <3> SUFFICES ASSUME NEW j \in Below(i) PROVE j \in Below(k)
      OBVIOUS
    <3>1. j \in 1..n /\ list[j].order \in Nat /\ list[i].order \in Nat /\ list[k].order \in Nat
      BY <1>2, <1>5
    <3> QED
      BY <1>1, <1>5, <3>1
  <2>3. k \in Below(k)
    BY <1>1, <1>2
  <2>4. IsFiniteSet(Below(k))
    BY <1>4
  <2> HIDE DEF Below
  <2> QED
    BY <2>1, <2>2, <2>3, <2>4, FS_Subset
<1>6. rank \in Injection(1..n, 1..n)
  <2>1. rank \in [1..n -> 1..n]
    BY <1>4
  <2>2. ASSUME NEW i \in 1..n, NEW k \in 1..n, rank[i] = rank[k] PROVE i = k
    <3>1. i \in Below(k) \/ k \in Below(i)
      BY <1>1, <1>2
    <3> HIDE DEF Below
    <3> QED
      BY <1>5, <2>2, <3>1
  <2> QED
    BY <2>1, <2>2 DEF Injection, IsInjective
<1>7. \A r \in 1..n : \E i \in 1..n : rank[i] = r
  <2>1. rank \in Surjection(1..n, 1..n)
    BY <1>3, <1>6, FS_Injection
  <2> HIDE DEF rank
  <2> QED
    BY <2>1 DEF Surjection
<1>8. \A r \in 1..n : \E i \in 1..n : Cardinality(Below(i)) = r
  BY <1>7
<1>9. Sorted(list) = [r \in 1..n |-> list[CHOOSE i \in 1..n : Cardinality(Below(i)) = r]]
  BY <1>1 DEF Sorted
<1> HIDE DEF Below
<1>10. \A r \in 1..n : list[CHOOSE i \in 1..n : Cardinality(Below(i)) = r] \in Entries
  BY <1>2, <1>8
<1>11. Sorted(list) \in [1..n -> Entries]
  BY <1>9, <1>10
<1> HIDE DEF n
<1>12. Sorted(list) \in Seq(Entries)
  BY <1>1, <1>11
<1> QED
  BY <1>1, <1>11, <1>12, LenProperties DEF n

\* A normalised list has its places for orders.
LEMMA NormaliseIs ==
  ASSUME NEW list \in Seq(Entries)
  PROVE  Normalise(list) \in Seq(Entries) /\ Tight(Normalise(list))
<1>1. PICK s : s = Sorted(list)
  OBVIOUS
<1>2. s \in Seq(Entries) /\ Len(s) \in Nat /\ DOMAIN s = 1..Len(s)
  BY <1>1, SortedIs, LenProperties
<1>3. Normalise(list) = [i \in 1..Len(s) |-> [s[i] EXCEPT !.order = i - 1]]
  BY <1>1, <1>2 DEF Normalise
<1>4. \A i \in 1..Len(s) : /\ [s[i] EXCEPT !.order = i - 1] \in Entries
                           /\ [s[i] EXCEPT !.order = i - 1].order = i - 1
  <2> TAKE i \in 1..Len(s)
  <2>1. s[i] \in Entries /\ i - 1 \in Nat
    BY <1>2, ElementOfSeq
  <2> QED
    BY <2>1 DEF Entries
<1>5. Normalise(list) \in [1..Len(s) -> Entries]
  BY <1>3, <1>4
<1>6. Normalise(list) \in Seq(Entries) /\ Len(Normalise(list)) = Len(s)
  BY <1>2, <1>5, LenProperties
<1> QED
  BY <1>3, <1>4, <1>6 DEF Tight

\* The rows of a tight list are as many, with the orders 0..n-1.
LEMMA RowsTight ==
  ASSUME NEW list \in Seq(Entries), NEW by \in Nat, NEW rows,
         rows = {[mod |-> e.mod, order |-> e.order, enabled |-> e.enabled, by |-> by] : e \in ToSet(list)}
  PROVE  /\ rows \subseteq ModRows /\ IsFiniteSet(rows)
         /\ Tight(list) => {r.order : r \in rows} = 0..(Cardinality(rows) - 1)
<1> DEFINE n == Len(list)
           row(i) == [mod |-> list[i].mod, order |-> list[i].order, enabled |-> list[i].enabled, by |-> by]
           f == [i \in 1..n |-> row(i)]
<1>1. n \in Nat /\ DOMAIN list = 1..n
  BY LenProperties
<1>2. \A i \in 1..n : row(i) \in ModRows
  <2> TAKE i \in 1..n
  <2>1. list[i] \in Entries
    BY <1>1, ElementOfSeq
  <2> QED
    BY <2>1 DEF Entries, ModRows
<1>3. rows = {row(i) : i \in 1..n}
  BY <1>1 DEF ToSet
<1>4. f \in Surjection(1..n, rows)
  BY <1>3 DEF Surjection
<1>5. IsFiniteSet(1..n) /\ Cardinality(1..n) = n
  <2>1. IsFiniteSet(1..n) /\ Cardinality(1..n) = IF 1 > n THEN 0 ELSE n - 1 + 1
    BY <1>1, FS_Interval
  <2> QED
    BY <1>1, <2>1
<1>6. rows \subseteq ModRows /\ IsFiniteSet(rows)
  <2>1. IsFiniteSet(rows)
    <3> HIDE DEF f
    <3> QED
      BY <1>4, <1>5, FS_Surjection
  <2> QED
    BY <1>2, <1>3, <2>1
<1>7. ASSUME Tight(list) PROVE {r.order : r \in rows} = 0..(Cardinality(rows) - 1)
  <2>1. \A i \in 1..n : row(i).order = i - 1
    BY <1>7 DEF Tight
  <2>2. f \in Injection(1..n, rows)
    <3>1. f \in [1..n -> rows]
      BY <1>3
    <3>2. \A i, j \in 1..n : f[i] = f[j] => i = j
      <4> TAKE i, j \in 1..n
      <4>1. f[i] = f[j] => row(i).order = row(j).order
        OBVIOUS
      <4>2. row(i).order = i - 1 /\ row(j).order = j - 1
        BY <2>1
      <4> HIDE DEF row, f
      <4> QED
        BY <4>1, <4>2, <1>1
    <3> HIDE DEF f
    <3> QED
      BY <3>1, <3>2 DEF Injection, IsInjective
  <2>3. Cardinality(rows) = n
    <3>1. f \in Bijection(1..n, rows)
      BY <1>4, <2>2 DEF Bijection
    <3> HIDE DEF f
    <3> QED
      BY <3>1, <1>5, FS_Bijection DEF ExistsBijection
  <2>4. {r.order : r \in rows} = {row(i).order : i \in 1..n}
    <3> HIDE DEF row
    <3> QED
      BY <1>3, Zenon
  <2>5. {row(i).order : i \in 1..n} = {i - 1 : i \in 1..n}
    BY <2>1
  <2>6. {i - 1 : i \in 1..n} = 0..(n - 1)
    <3>1. \A k \in 0..(n - 1) : k + 1 \in 1..n /\ k = (k + 1) - 1
      BY <1>1
    <3>2. \A i \in 1..n : i - 1 \in 0..(n - 1)
      BY <1>1
    <3> QED
      BY <3>1, <3>2
  <2> HIDE DEF row
  <2> QED
    BY <2>3, <2>4, <2>5, <2>6
<1> QED
  BY <1>6, <1>7

\* [f] takes the mods named in the first n lines of a preset file, as ParsePreset does.
NamedBy(format, raw) == IF format = "arma3-html" THEN raw ELSE Upper[raw]
Takes(n, f, format, payload) ==
  f = [k \in 0..n |->
         IF k = 0 THEN <<>>
         ELSE IF NamedBy(format, payload[k]) \in Accepts(format) THEN AddMod(f[k - 1], NamedBy(format, payload[k]))
         ELSE f[k - 1]]

\* There is such a function, however many lines there are.
LEMMA TakesExists ==
  ASSUME NEW format, NEW payload, NEW n \in Nat
  PROVE  \E f : Takes(n, f, format, payload)
<1> DEFINE Bad == {k \in Nat : ~ \E f : Takes(k, f, format, payload)}
           After(k, list) == IF NamedBy(format, payload[k]) \in Accepts(format)
                            THEN AddMod(list, NamedBy(format, payload[k])) ELSE list
<1>1. SUFFICES ASSUME Bad # {} PROVE FALSE
  BY <1>1 DEF Bad
<1>2. PICK k \in Bad : \A m \in Bad : k <= m
  BY <1>1, LeastOf
<1>3. \A m, f : Takes(m, f, format, payload) <=> f = [i \in 0..m |-> IF i = 0 THEN <<>> ELSE After(i, f[i - 1])]
  BY DEF Takes
<1> HIDE DEF After
<1>4. CASE k = 0
  <2>1. Takes(0, [i \in 0..0 |-> <<>>], format, payload)
    BY <1>3
  <2> QED
    BY <1>2, <1>4, <2>1
<1>5. CASE k # 0
  <2>1. k - 1 \in Nat /\ k - 1 \notin Bad /\ k \in Nat
    BY <1>2, <1>5
  <2>2. PICK f : Takes(k - 1, f, format, payload)
    BY <2>1
  <2> DEFINE g == [i \in 0..k |-> IF i = k THEN After(k, f[k - 1]) ELSE f[i]]
  <2>3. \A i \in 0..(k - 1) : g[i] = f[i]
    BY <2>1
  <2>4. ASSUME NEW i \in 0..k
        PROVE  g[i] = IF i = 0 THEN <<>> ELSE After(i, g[i - 1])
    <3>1. CASE i = k
      BY <1>5, <2>1, <2>3, <3>1
    <3>2. CASE i # k
      <4>1. i \in 0..(k - 1) /\ (i # 0 => i - 1 \in 0..(k - 1))
        BY <2>1, <3>2
      <4>2. g[i] = f[i] /\ (i # 0 => g[i - 1] = f[i - 1])
        BY <2>3, <4>1
      <4>3. f[i] = IF i = 0 THEN <<>> ELSE After(i, f[i - 1])
        BY <1>3, <2>2, <4>1
      <4> QED
        BY <4>2, <4>3
    <3> QED
      BY <3>1, <3>2
  <2>5. Takes(k, g, format, payload)
    BY <1>3, <2>4
  <2> QED
    BY <1>2, <2>1, <2>5
<1> QED
  BY <1>4, <1>5

\* A mod that is added does not come twice.
LEMMA AddModIs ==
  ASSUME NEW list \in Seq(Entries), Distinct(list), NEW mod \in ModIds
  PROVE  AddMod(list, mod) \in Seq(Entries) /\ Distinct(AddMod(list, mod))
<1>1. Len(list) \in Nat /\ DOMAIN list = 1..Len(list)
  BY LenProperties
<1>2. CASE mod \in {list[i].mod : i \in DOMAIN list}
  BY <1>2 DEF AddMod
<1>3. CASE mod \notin {list[i].mod : i \in DOMAIN list}
  <2>1. PICK e : e = Entry(mod, Len(list), TRUE)
    OBVIOUS
  <2>2. e \in Entries /\ e.mod = mod
    BY <1>1, <2>1 DEF Entry, Entries
  <2>3. PICK v : v = Append(list, e)
    OBVIOUS
  <2>4. /\ v \in Seq(Entries) /\ Len(v) = Len(list) + 1 /\ v[Len(list) + 1] = e
        /\ \A i \in 1..Len(list) : v[i] = list[i]
    BY <2>2, <2>3, AppendProperties
  <2>5. 1..Len(v) = (1..Len(list)) \cup {Len(list) + 1}
    BY <1>1, <2>4
  <2>6. \A i \in 1..Len(list) : v[i].mod # mod
    BY <1>1, <1>3, <2>4
  <2>7. \A i, j \in 1..Len(list) : v[i].mod = v[j].mod => i = j
    BY <2>4 DEF Distinct
  <2>8. Distinct(v)
    BY <2>2, <2>4, <2>5, <2>6, <2>7 DEF Distinct
  <2> QED
    BY <1>3, <2>1, <2>3, <2>4, <2>8 DEF AddMod
<1> QED
  BY <1>2, <1>3

\* What is parsed of a preset file names no mod twice, whatever the file does.
LEMMA ParsedIs ==
  ASSUME NEW format \in {"arma3-html", "reforger-json", "asp-json"}, NEW payload \in Seq(Raw)
  PROVE  ParsePreset(format, payload) \in Seq(Entries) /\ Distinct(ParsePreset(format, payload))
<1>1. Len(payload) \in Nat
  BY LenProperties
<1> DEFINE Parsed == CHOOSE f : Takes(Len(payload), f, format, payload)
<1>2. Takes(Len(payload), Parsed, format, payload)
  BY <1>1, TakesExists
<1>3. ParsePreset(format, payload) = Parsed[Len(payload)]
  BY DEF ParsePreset, Takes, NamedBy
<1> HIDE DEF Parsed
<1>4. Accepts(format) \subseteq ModIds
  BY DEF Accepts, ModIds
<1> DEFINE Good(n) == Parsed[n] \in Seq(Entries) /\ Distinct(Parsed[n])
           Bad == {n \in 0..Len(payload) : ~ Good(n)}
<1>5. Bad = {}
  <2> SUFFICES ASSUME Bad # {} PROVE FALSE
    OBVIOUS
  <2>1. PICK n \in Bad : \A m \in Bad : n <= m
    <3>1. Bad \in SUBSET Nat
      BY <1>1
    <3> HIDE DEF Bad
    <3> QED
      BY <3>1, LeastOf
  <2>2. CASE n = 0
    <3>1. Parsed[0] = <<>>
      BY <1>1, <1>2 DEF Takes
    <3>2. <<>> \in Seq(Entries) /\ Len(<<>>) = 0
      OBVIOUS
    <3>3. Good(0)
      BY <3>1, <3>2 DEF Distinct
    <3> QED
      BY <2>1, <2>2, <3>3
  <2>3. CASE n # 0
    <3>1. n - 1 \in 0..Len(payload) /\ n \in 1..Len(payload) /\ ~ (n <= n - 1)
      BY <1>1, <2>1, <2>3
    <3>2. Good(n - 1)
      <4>1. n - 1 \notin Bad
        BY <2>1, <3>1
      <4> QED
        BY <3>1, <4>1
    <3>3. Parsed[n] = IF NamedBy(format, payload[n]) \in Accepts(format)
                      THEN AddMod(Parsed[n - 1], NamedBy(format, payload[n])) ELSE Parsed[n - 1]
      BY <1>2, <2>3, <3>1 DEF Takes
    <3>4. Good(n)
      BY <1>4, <3>2, <3>3, AddModIs
    <3> QED
      BY <2>1, <3>4
  <2> QED
    BY <2>2, <2>3
<1>6. Good(Len(payload))
  <2>1. Len(payload) \in 0..Len(payload)
    BY <1>1
  <2>2. ASSUME ~ Good(Len(payload)) PROVE FALSE
    <3>1. Len(payload) \in Bad
      BY <2>1, <2>2
    <3> HIDE DEF Bad
    <3> QED
      BY <1>5, <3>1
  <2> QED
    BY <2>2
<1> QED
  BY <1>3, <1>6

\* A preset that can be imported can be applied.
LEMMA ImportableIs ==
  ASSUME NEW g \in Games, NEW valid \in Importable[g]
  PROVE  valid \in Seq(Entries) /\ Distinct(valid) /\ \A i \in 1..Len(valid) : Suits(g, valid[i].mod)
<1> DEFINE Kept(format, payload) ==
             Among(ParsePreset(format, payload), {e \in ToSet(ParsePreset(format, payload)) : Suits(g, e.mod)})
<1> DEFINE Formats == {"arma3-html", "reforger-json", "asp-json"}
           Files == BoundedSeq(Raw, MaxMods)
<1>0. Importable[g] = {Kept(format, payload) : format \in Formats, payload \in Files} \ {<<>>}
  BY DEF Importable
<1>1. PICK format \in Formats, payload \in Files : valid = Kept(format, payload)
  <2> HIDE DEF Kept, Formats, Files
  <2>1. valid \in {Kept(format, payload) : format \in Formats, payload \in Files}
    BY <1>0
  <2> QED
    BY <2>1
<1>2. payload \in Seq(Raw)
  BY DEF BoundedSeq, SeqOf
<1>3. PICK parsed : parsed = ParsePreset(format, payload)
  OBVIOUS
<1>4. parsed \in Seq(Entries) /\ Distinct(parsed)
  BY <1>2, <1>3, ParsedIs
<1>5. PICK suited : suited = {e \in ToSet(parsed) : Suits(g, e.mod)}
  OBVIOUS
<1>6. valid = Among(parsed, suited)
  BY <1>1, <1>3, <1>5
<1>7. valid \in Seq(Entries) /\ Distinct(valid) /\ \A i \in 1..Len(valid) : valid[i] \in suited
  BY <1>4, <1>6, AmongIs
<1> QED
  BY <1>5, <1>7

\* A list read from the rows is a list of entries.
LEMMA ReadIs ==
  ASSUME ModsTyped, NEW read \in ServerModLists
  PROVE  read \in Seq(Entries)
<1>1. PICK s \in SetToSeqs(modRows) : read = [i \in DOMAIN s |-> Entry(s[i].mod, s[i].order, s[i].enabled)]
  BY DEF ServerModLists
<1>2. Cardinality(modRows) \in Nat
  BY FS_CardinalityType DEF ModsTyped
<1>3. s \in [1..Cardinality(modRows) -> modRows]
  BY DEF SetToSeqs
<1>4. \A i \in 1..Cardinality(modRows) : Entry(s[i].mod, s[i].order, s[i].enabled) \in Entries
  <2> TAKE i \in 1..Cardinality(modRows)
  <2>1. s[i] \in ModRows
    BY <1>3 DEF ModsTyped
  <2> QED
    BY <2>1 DEF ModRows, Entry, Entries
<1>5. read \in [1..Cardinality(modRows) -> Entries]
  BY <1>1, <1>3, <1>4
<1> QED
  BY <1>2, <1>5

\* What a request makes of such a list is one too.
LEMMA RequestedIs ==
  ASSUME ModsTyped, NEW read \in Seq(Entries), NEW list \in Requested(read)
  PROVE  list \in Seq(Entries)
<1> DEFINE Renewed == {<<Entry(m, o, e)>> : m \in ModIds, o \in Orders, e \in BOOLEAN}
           Longer == {Append(read, Entry(m, Len(read), TRUE)) : m \in {n \in ModIds \ Mods(read) : ValidateModId(n)}}
           Shorter == {Among(read, {e \in ToSet(read) : e.mod # m}) : m \in Mods(read)}
           Reversed == {[i \in DOMAIN read |-> [read[Len(read) + 1 - i] EXCEPT !.order = i - 1]]}
           Switched == {[i \in DOMAIN read |-> IF i = k THEN [read[i] EXCEPT !.enabled = ~ read[i].enabled] ELSE read[i]] :
               k \in DOMAIN read}
           Preset == {preset.list}
           Joint == {read \o [i \in 1..Len(fresh) |-> [fresh[i] EXCEPT !.order = Len(read) + i - 1]] :
               fresh \in {Among(preset.list, {e \in ToSet(preset.list) : e.mod \notin Mods(read)})}}
<1>1. Len(read) \in Nat /\ DOMAIN read = 1..Len(read) /\ \A i \in 1..Len(read) : read[i] \in Entries
  BY LenProperties, ElementOfSeq
<1>2. preset.list \in Seq(Entries)
  BY DEF ModsTyped
<1>3. \A m \in ModIds, o \in Nat, e \in BOOLEAN : Entry(m, o, e) \in Entries
  BY DEF Entry, Entries
<1>4. CASE list \in Renewed
  <2>1. PICK m \in ModIds, o \in Orders, e \in BOOLEAN : list = <<Entry(m, o, e)>>
    BY <1>4
  <2>2. Entry(m, o, e) \in Entries
    BY <1>3, ModsAssumption DEF ModsAssumption
  <2> QED
    BY <2>1, <2>2
<1>5. CASE list \in Longer
  <2>1. PICK m \in ModIds : list = Append(read, Entry(m, Len(read), TRUE))
    BY <1>5
  <2> QED
    BY <1>1, <1>3, <2>1, AppendProperties
<1>6. CASE list \in Shorter
  <2>1. PICK entries : list = Among(read, entries)
    BY <1>6
  <2> QED
    BY <2>1, AmongIs
<1>7. CASE list \in Reversed
  <2>1. list = [i \in 1..Len(read) |-> [read[Len(read) + 1 - i] EXCEPT !.order = i - 1]]
    BY <1>1, <1>7
  <2>2. \A i \in 1..Len(read) : [read[Len(read) + 1 - i] EXCEPT !.order = i - 1] \in Entries
    <3> TAKE i \in 1..Len(read)
    <3>1. PICK e : e = read[Len(read) + 1 - i]
      OBVIOUS
    <3>2. Len(read) + 1 - i \in 1..Len(read) /\ i - 1 \in Nat
      BY <1>1
    <3>3. e \in Entries
      BY <1>1, <3>1, <3>2
    <3>4. [e EXCEPT !.order = i - 1] \in Entries
      BY <3>2, <3>3 DEF Entries
    <3> QED
      BY <3>1, <3>4
  <2> QED
    BY <1>1, <2>1, <2>2
<1>8. CASE list \in Switched
  <2>1. PICK k \in 1..Len(read) :
          list = [i \in 1..Len(read) |-> IF i = k THEN [read[i] EXCEPT !.enabled = ~ read[i].enabled] ELSE read[i]]
    BY <1>1, <1>8
  <2>2. [read[k] EXCEPT !.enabled = ~ read[k].enabled] \in Entries
    <3>1. PICK e \in Entries : e = read[k]
      BY <1>1
    <3>2. [e EXCEPT !.enabled = ~ e.enabled] \in Entries
      BY DEF Entries
    <3> QED
      BY <3>1, <3>2
  <2>3. list \in [1..Len(read) -> Entries]
    BY <1>1, <2>1, <2>2
  <2> QED
    BY <1>1, <2>3
<1>9. CASE list \in Preset
  BY <1>2, <1>9
<1>10. CASE list \in Joint
  <2>1. PICK entries : entries = {e \in ToSet(preset.list) : e.mod \notin Mods(read)}
    OBVIOUS
  <2>2. PICK fresh : fresh = Among(preset.list, entries)
    OBVIOUS
  <2>3. fresh \in Seq(Entries)
    BY <1>2, <2>2, AmongIs
  <2>4. PICK late : late = [i \in 1..Len(fresh) |-> [fresh[i] EXCEPT !.order = Len(read) + i - 1]]
    OBVIOUS
  <2>5. list = read \o late
    BY <1>10, <2>1, <2>2, <2>4
  <2>6. Len(fresh) \in Nat
    BY <2>3, LenProperties
  <2>7. \A i \in 1..Len(fresh) : [fresh[i] EXCEPT !.order = Len(read) + i - 1] \in Entries
    <3> TAKE i \in 1..Len(fresh)
    <3>1. fresh[i] \in Entries
      BY <2>3, ElementOfSeq, LenProperties
    <3>2. Len(read) + i - 1 \in Nat
      BY <1>1, <2>6
    <3> QED
      BY <3>1, <3>2 DEF Entries
  <2>8. late \in Seq(Entries)
    BY <2>4, <2>6, <2>7
  <2> QED
    BY <2>5, <2>8, ConcatProperties
<1>11. Requested(read) = Renewed \cup Longer \cup Shorter \cup Reversed \cup Switched \cup Preset \cup Joint
  BY DEF Requested
<1> HIDE DEF Renewed, Longer, Shorter, Reversed, Switched, Preset, Joint
<1> QED
  BY <1>4, <1>5, <1>6, <1>7, <1>8, <1>9, <1>10, <1>11

\* Acceptable, of a list as a sequence.
LEMMA AcceptableIs ==
  ASSUME NEW list \in Seq(Entries)
  PROVE  Acceptable(list) <=> Distinct(list) /\ \A i \in 1..Len(list) : Suits(game, list[i].mod)
<1>1. DOMAIN list = 1..Len(list)
  BY LenProperties
<1> QED
  BY <1>1 DEF Acceptable, Distinct, ValidateModId

\* One editor moves: what has to be said of it.
EditorFits(e) ==
  /\ e \in Editors
  /\ e.stage \in {"planned", "deleting"} => Tight(e.list)

LEMMA EditorMoves ==
  ASSUME EInv, NEW h \in Handlers, NEW e, EditorFits(e), editor' = [editor EXCEPT ![h] = e],
         modRows' \subseteq ModRows, IsFiniteSet(modRows'), changes' \in Nat,
         preset' = preset, game' = game
  PROVE  ModsTyped' /\ PlannedTight' /\ PresetUsable'
<1>1. /\ DOMAIN editor' = Handlers
      /\ \A g \in Handlers : editor'[g] = IF g = h THEN e ELSE editor[g]
  BY DEF EInv, ModsTyped
<1>2. ModsTyped'
  BY <1>1 DEF EInv, ModsTyped, EditorFits
<1>3. PlannedTight'
  <2> SUFFICES ASSUME NEW g \in Handlers, editor'[g].stage \in {"planned", "deleting"}
               PROVE  Tight(editor'[g].list)
    BY DEF PlannedTight
  <2>1. CASE g = h
    BY <1>1, <2>1 DEF EditorFits
  <2>2. CASE g # h
    BY <1>1, <2>2 DEF EInv, PlannedTight
  <2> QED
    BY <2>1, <2>2
<1>4. PresetUsable'
  BY DEF EInv, PresetUsable, Acceptable, ValidateModId
<1> QED
  BY <1>2, <1>3, <1>4

\* Presets come and go, and never one that is refused when it is applied.
LEMMA PresetKeeps == EInv /\ (ImportPreset \/ SavePreset) => EInv'
<1> SUFFICES ASSUME EInv, ImportPreset \/ SavePreset PROVE EInv'
  OBVIOUS
<1>1. /\ game' = game /\ modRows' = modRows /\ editor' = editor /\ changes' = changes /\ mixed' = mixed
  BY DEF ImportPreset, SavePreset
<1>2. PICK p : p = preset'
  OBVIOUS
<1>3. p.list \in Seq(Entries) /\ (p.imported => Acceptable(p.list))
  <2>1. CASE ImportPreset
    <3>1. PICK valid \in Importable[game] : preset' = [list |-> valid, imported |-> TRUE]
      BY <2>1 DEF ImportPreset
    <3>2. game \in Games
      BY DEF EInv, ModsTyped
    <3>3. valid \in Seq(Entries) /\ Distinct(valid) /\ \A i \in 1..Len(valid) : Suits(game, valid[i].mod)
      BY <3>2, ImportableIs
    <3>4. Acceptable(valid)
      BY <3>3, AcceptableIs
    <3>5. p.list = valid
      BY <1>2, <3>1
    <3> QED
      BY <3>3, <3>4, <3>5
  <2>2. CASE SavePreset
    <3>1. \A m \in ModIds : <<Entry(m, 0, TRUE), Entry(m, 1, TRUE)>> \in Seq(Entries)
      <4> TAKE m \in ModIds
      <4>1. PICK a \in Entries : a = Entry(m, 0, TRUE)
        BY DEF Entry, Entries
      <4>2. PICK b \in Entries : b = Entry(m, 1, TRUE)
        BY DEF Entry, Entries
      <4>3. <<a, b>> \in Seq(Entries)
        OBVIOUS
      <4> QED
        BY <4>1, <4>2, <4>3
    <3>2. <<>> \in Seq(Entries)
      OBVIOUS
    <3>3. \/ \E m \in ModIds : p = [list |-> <<Entry(m, 0, TRUE), Entry(m, 1, TRUE)>>, imported |-> FALSE]
          \/ p = [list |-> <<>>, imported |-> FALSE]
      BY <1>2, <2>2 DEF SavePreset
    <3>4. CASE \E m \in ModIds : p = [list |-> <<Entry(m, 0, TRUE), Entry(m, 1, TRUE)>>, imported |-> FALSE]
      <4>1. PICK m \in ModIds : p = [list |-> <<Entry(m, 0, TRUE), Entry(m, 1, TRUE)>>, imported |-> FALSE]
        BY <3>4
      <4>2. PICK list \in Seq(Entries) : list = <<Entry(m, 0, TRUE), Entry(m, 1, TRUE)>>
        BY <3>1
      <4>3. p = [list |-> list, imported |-> FALSE]
        BY <4>1, <4>2
      <4> QED
        BY <4>3
    <3>5. CASE p = [list |-> <<>>, imported |-> FALSE]
      BY <3>2, <3>5
    <3> QED
      BY <3>3, <3>4, <3>5
  <2> QED
    BY <2>1, <2>2
<1>4. preset'.list = p.list /\ preset'.imported = p.imported
  BY <1>2
<1>5. ModsTyped'
  BY <1>1, <1>3, <1>4 DEF EInv, ModsTyped
<1>6. PlannedTight' /\ (~ mixed' => DeletesAll' /\ OrderTight')
  BY <1>1 DEF EInv, PlannedTight, DeletesAll, OrderTight
<1>7. PresetUsable'
  BY <1>1, <1>3, <1>4 DEF PresetUsable, Acceptable, ValidateModId
<1> QED
  BY <1>5, <1>6, <1>7 DEF EInv

\* A plan is tight, however old the list it was made from.
LEMMA PlanKeeps ==
  ASSUME EInv, NEW h \in Handlers, PlanMods(h)
  PROVE  EInv'
<1>1. PICK read, list :
        /\ read \in ServerModLists /\ list \in Requested(read)
        /\ editor' = [editor EXCEPT ![h] = [Resting EXCEPT !.stage = "planned", !.list = Normalise(list), !.by = changes']]
  BY DEF PlanMods
<1>2. changes' = changes + 1 /\ changes \in Nat /\ editor[h] = Resting
  BY DEF PlanMods, EInv, ModsTyped
<1>3. /\ game' = game /\ modRows' = modRows /\ preset' = preset /\ mixed' = mixed
  BY DEF PlanMods
<1>4. list \in Seq(Entries)
  BY <1>1, ReadIs, RequestedIs DEF EInv
<1>5. Normalise(list) \in Seq(Entries) /\ Tight(Normalise(list))
  BY <1>4, NormaliseIs
<1>6. PICK n : n = changes + 1
  OBVIOUS
<1>7. PICK planned : planned = Normalise(list)
  OBVIOUS
<1>8. PICK rest : rest = Resting
  OBVIOUS
<1>9. PICK e : e = [rest EXCEPT !.stage = "planned", !.list = planned, !.by = n]
  OBVIOUS
<1>10. editor' = [editor EXCEPT ![h] = e] /\ EditorFits(e) /\ e.stage = "planned"
  <2>1. editor' = [editor EXCEPT ![h] = e]
    BY <1>1, <1>2, <1>6, <1>7, <1>8, <1>9
  <2>2. rest \in Editors
    BY <1>8 DEF Resting, Editors
  <2>3. n \in Nat /\ planned \in Seq(Entries) /\ Tight(planned)
    BY <1>2, <1>5, <1>6, <1>7
  <2>4. e \in Editors /\ e.stage = "planned" /\ e.list = planned
    BY <1>9, <2>2, <2>3 DEF Editors
  <2> QED
    BY <2>1, <2>3, <2>4 DEF EditorFits
<1>11. ModsTyped' /\ PlannedTight' /\ PresetUsable'
  <2>1. modRows' \subseteq ModRows /\ IsFiniteSet(modRows') /\ changes' \in Nat
    BY <1>2, <1>3 DEF EInv, ModsTyped
  <2> QED
    BY <1>3, <1>10, <2>1, EditorMoves
<1>12. DeletesAll => DeletesAll'
  BY <1>3, <1>10 DEF DeletesAll, EInv, ModsTyped
<1>13. OrderTight => OrderTight'
  BY <1>3 DEF OrderTight
<1> QED
  BY <1>3, <1>11, <1>12, <1>13 DEF EInv

\* The deletion is of all rows; another one under way makes them overlap.
LEMMA DeleteKeeps ==
  ASSUME EInv, NEW h \in Handlers, DeleteRows(h)
  PROVE  EInv'
<1>1. PICK behind : /\ behind = {editor[g].by : g \in {f \in Handlers : /\ editor[f].stage = "deleting"
                                                                       /\ editor[f].victims \cap modRows # {}}}
                    /\ editor' = [editor EXCEPT ![h].stage = "deleting", ![h].victims = modRows, ![h].behind = behind]
  BY DEF DeleteRows
<1>2. /\ game' = game /\ modRows' = modRows /\ preset' = preset /\ changes' = changes
      /\ editor[h].stage = "planned" /\ editor \in [Handlers -> Editors]
      /\ modRows \subseteq ModRows /\ IsFiniteSet(modRows) /\ changes \in Nat
      /\ mixed' = (mixed \/ \E g \in Handlers : editor[g].stage = "deleting")
  BY DEF DeleteRows, EInv, ModsTyped
<1>3. behind \subseteq Nat
  BY <1>1, <1>2 DEF Editors
<1>4. PICK e : e = [editor[h] EXCEPT !.stage = "deleting", !.victims = modRows, !.behind = behind]
  OBVIOUS
<1>5. editor' = [editor EXCEPT ![h] = e]
  BY <1>1, <1>4
<1>6. e \in Editors /\ e.list = editor[h].list /\ e.stage = "deleting" /\ e.victims = modRows
  <2>1. PICK d \in Editors : d = editor[h]
    BY <1>2
  <2>2. e = [d EXCEPT !.stage = "deleting", !.victims = modRows, !.behind = behind]
    BY <1>4, <2>1
  <2> QED
    BY <1>2, <1>3, <2>1, <2>2 DEF Editors
<1>7. EditorFits(e)
  BY <1>2, <1>6 DEF EInv, PlannedTight, EditorFits
<1>8. ModsTyped' /\ PlannedTight' /\ PresetUsable'
  BY <1>2, <1>5, <1>7, EditorMoves
<1>9. \A g \in Handlers : editor'[g] = IF g = h THEN e ELSE editor[g]
  BY <1>2, <1>5
<1>10. ~ mixed' => DeletesAll'
  BY <1>2, <1>6, <1>9 DEF DeletesAll
<1>11. OrderTight => OrderTight'
  BY <1>2 DEF OrderTight
<1> QED
  BY <1>2, <1>8, <1>10, <1>11 DEF EInv

\* The rows of the list come in place of all there were, unless transactions overlapped.
LEMMA CommitKeeps ==
  ASSUME EInv, NEW h \in Handlers, CommitRows(h)
  PROVE  EInv'
<1>1. PICK left : left = modRows \ editor[h].victims
  OBVIOUS
<1>2. PICK rows : rows = {[mod |-> e.mod, order |-> e.order, enabled |-> e.enabled, by |-> editor[h].by] :
                            e \in ToSet(editor[h].list)}
  OBVIOUS
<1>3. PICK clash \in BOOLEAN : clash = (\E r \in left : r.mod \in Mods(editor[h].list))
  OBVIOUS
<1>4. PICK d : d = editor[h]
  OBVIOUS
<1>5. /\ game' = game /\ preset' = preset /\ changes' = changes /\ mixed' = mixed
      /\ editor[h].stage = "deleting" /\ editor \in [Handlers -> Editors] /\ d \in Editors
      /\ modRows \subseteq ModRows /\ IsFiniteSet(modRows) /\ changes \in Nat
  BY <1>4 DEF CommitRows, EInv, ModsTyped
<1>6. PICK e : e = IF clash THEN Resting ELSE [d EXCEPT !.stage = "committed"]
  OBVIOUS
<1>7. /\ modRows' = IF clash THEN modRows ELSE left \cup rows
      /\ editor' = [editor EXCEPT ![h] = e]
  <2>1. editor' = [editor EXCEPT ![h] = IF clash THEN Resting ELSE [d EXCEPT !.stage = "committed"]]
    BY <1>1, <1>3, <1>4, <1>5 DEF CommitRows
  <2>2. modRows' = IF clash THEN modRows ELSE left \cup rows
    BY <1>1, <1>2, <1>3 DEF CommitRows
  <2> QED
    BY <1>6, <2>1, <2>2
<1>8. /\ rows \subseteq ModRows /\ IsFiniteSet(rows)
      /\ {r.order : r \in rows} = 0..(Cardinality(rows) - 1)
  <2>1. d.list \in Seq(Entries) /\ d.by \in Nat /\ Tight(d.list)
    BY <1>4, <1>5 DEF EInv, PlannedTight, Editors
  <2>2. rows = {[mod |-> x.mod, order |-> x.order, enabled |-> x.enabled, by |-> d.by] : x \in ToSet(d.list)}
    BY <1>2, <1>4
  <2> QED
    BY <2>1, <2>2, RowsTight
<1>9. modRows' \subseteq ModRows /\ IsFiniteSet(modRows')
  <2>1. left \in SUBSET modRows
    BY <1>1
  <2>2. IsFiniteSet(left)
    BY <1>5, <2>1, FS_Subset
  <2>3. IsFiniteSet(left \cup rows)
    BY <1>8, <2>2, FS_Union
  <2> QED
    BY <1>5, <1>7, <1>8, <2>1, <2>3
<1>10. e \in Editors /\ e.stage \in {"none", "committed"}
  <2>1. CASE clash
    <3>1. Resting \in Editors /\ Resting.stage = "none"
      BY DEF Editors, Resting
    <3> QED
      BY <1>6, <2>1, <3>1
  <2>2. CASE ~ clash
    <3>1. e = [d EXCEPT !.stage = "committed"]
      BY <1>6, <2>2
    <3> QED
      BY <1>5, <3>1 DEF Editors
  <2> QED
    BY <2>1, <2>2
<1>11. EditorFits(e)
  BY <1>10 DEF EditorFits
<1>12. ModsTyped' /\ PlannedTight' /\ PresetUsable'
  BY <1>5, <1>7, <1>9, <1>11, EditorMoves
<1>13. \A g \in Handlers : editor'[g] = IF g = h THEN e ELSE editor[g]
  BY <1>5, <1>7
<1>14. ~ mixed' => DeletesAll' /\ OrderTight'
  <2> SUFFICES ASSUME ~ mixed PROVE DeletesAll' /\ OrderTight'
    BY <1>5
  <2>1. DeletesAll
    BY DEF EInv
  <2>2. \A g \in Handlers : editor'[g].stage # "deleting"
    BY <1>5, <1>10, <1>13, <2>1 DEF DeletesAll
  <2>3. left = {} /\ ~ clash
    BY <1>1, <1>3, <1>5, <2>1 DEF DeletesAll
  <2>4. modRows' = rows
    BY <1>7, <2>3
  <2> QED
    BY <1>8, <2>2, <2>4 DEF DeletesAll, OrderTight
<1> QED
  BY <1>12, <1>14 DEF EInv

\* Reading back and writing the game's list change neither the rows nor a plan.
LEMMA WriteKeeps ==
  ASSUME EInv, NEW h \in Handlers, ReadBack(h) \/ WriteMods(h)
  PROVE  EInv'
<1>1. /\ game' = game /\ preset' = preset /\ changes' = changes /\ mixed' = mixed /\ modRows' = modRows
      /\ editor \in [Handlers -> Editors] /\ changes \in Nat
      /\ modRows \subseteq ModRows /\ IsFiniteSet(modRows)
  BY DEF ReadBack, WriteMods, EInv, ModsTyped
<1>2. PICK d : d = editor[h]
  OBVIOUS
<1>3. PICK e : e \in Editors /\ e.stage \in {"none", "written"} /\ editor' = [editor EXCEPT ![h] = e]
  <2>1. CASE ReadBack(h)
    <3>1. PICK list \in ServerModLists : editor' = [editor EXCEPT ![h].stage = "written", ![h].list = list]
      BY <2>1 DEF ReadBack
    <3>2. list \in Seq(Entries)
      BY ReadIs DEF EInv
    <3>3. PICK e : e = [d EXCEPT !.stage = "written", !.list = list]
      OBVIOUS
    <3>4. e \in Editors /\ e.stage = "written"
      BY <1>1, <1>2, <3>2, <3>3 DEF Editors
    <3>5. editor' = [editor EXCEPT ![h] = e]
      BY <1>2, <3>1, <3>3
    <3> QED
      BY <3>4, <3>5
  <2>2. CASE WriteMods(h)
    <3>1. Resting \in Editors /\ Resting.stage = "none"
      BY DEF Resting, Editors
    <3> QED
      BY <2>2, <3>1 DEF WriteMods
  <2> QED
    BY <2>1, <2>2
<1>4. EditorFits(e)
  BY <1>3 DEF EditorFits
<1>5. ModsTyped' /\ PlannedTight' /\ PresetUsable'
  BY <1>1, <1>3, <1>4, EditorMoves
<1>6. \A g \in Handlers : editor'[g] = IF g = h THEN e ELSE editor[g]
  BY <1>1, <1>3
<1>7. DeletesAll => DeletesAll'
  BY <1>1, <1>3, <1>6 DEF DeletesAll
<1>8. OrderTight => OrderTight'
  BY <1>1 DEF OrderTight
<1> QED
  BY <1>1, <1>5, <1>7, <1>8 DEF EInv

LEMMA ModsStep == EInv /\ [ModsNext]_modsVars => EInv'
<1> SUFFICES ASSUME EInv, [ModsNext]_modsVars PROVE EInv'
  OBVIOUS
<1>1. CASE ImportPreset \/ SavePreset
  BY <1>1, PresetKeeps
<1>2. CASE \E h \in Handlers : PlanMods(h) \/ DeleteRows(h) \/ CommitRows(h) \/ ReadBack(h) \/ WriteMods(h)
  BY <1>2, PlanKeeps, DeleteKeeps, CommitKeeps, WriteKeeps
<1>3. CASE UNCHANGED modsVars
  BY <1>3 DEF modsVars, EInv, ModsTyped, PlannedTight, DeletesAll, OrderTight, PresetUsable, Acceptable, ValidateModId
<1> QED
  BY <1>1, <1>2, <1>3 DEF ModsNext

\* ModsSound, of every list, preset and number of requests: the load order is
\* 0..n-1 so long as no two transactions overlapped, and a preset that could be
\* imported is never refused when it is applied (setServerMods, parsePreset).
THEOREM ModsAlwaysSound == ModsSpec => []ModsSound
<1>1. ModsInit => EInv
  <2> SUFFICES ASSUME ModsInit PROVE EInv
    OBVIOUS
  <2>1. IsFiniteSet({}) /\ Cardinality({}) = 0
    BY FS_EmptySet
  <2>2. ModsTyped
    BY <2>1 DEF ModsInit, ModsTyped, Resting, Editors
  <2>3. {r.order : r \in {}} = {} /\ 0..(0 - 1) = {}
    OBVIOUS
  <2>4. OrderTight
    BY <2>1, <2>3 DEF ModsInit, OrderTight
  <2> QED
    BY <2>2, <2>4 DEF ModsInit, EInv, PlannedTight, DeletesAll, PresetUsable, Resting
<1>2. EInv => ModsSound
  BY DEF EInv, ModsSound
<1> QED
  BY <1>1, <1>2, ModsStep, PTL DEF ModsSpec

=============================================================================
