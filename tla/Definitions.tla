---------------------------- MODULE Definitions ----------------------------
(***************************************************************************)
(* The registry of games: the titles compiled into the panel, and the      *)
(* documents administrators upload, which shadow them.  A document is      *)
(* checked when it is uploaded and each time it is read, since the panel   *)
(* may have been replaced by a release with another schema in between.     *)
(*                                                                         *)
(* Of a document: its id, what the checks across fields compare, and the   *)
(* last release whose schema parses it (until), for all that zod refuses.  *)
(***************************************************************************)
EXTENDS Integers, Sequences

CONSTANTS
  Titles,      \* the titles compiled in, those the game of a server can be
  BuiltIn,     \* per release, the document of each title
  Documents,   \* what is uploaded
  Calls,       \* requests in flight
  MaxReleases, \* bound: upgrades of the panel
  MaxCalls     \* bound: requests made

VARIABLES
  release, \* of the panel that runs
  stored,  \* the rows: per slug [there, document, enabled]
  used,    \* titles of the servers there are
  call,    \* per request: what it does next
  made     \* requests made

definitionsVars == <<release, stored, used, call, made>>

Releases == 0..MaxReleases
Slugs == Titles \cup {d.id : d \in Documents}
NoDocument == [there |-> FALSE]
Resting == [stage |-> "idle"]

(* validateGameDefinition *)

Distinct(list) == \A i, j \in DOMAIN list : i # j => list[i] # list[j]
Of(ports, field) == [i \in DOMAIN ports |-> ports[i][field]]

WithinStrideMut(d) == \A i \in DOMAIN d.ports : d.ports[i].offset <= d.stride
\* The span is the highest offset and one.
WithinStride(d) == \A i \in DOMAIN d.ports : d.ports[i].offset + 1 <= d.stride

Valid(d, r) ==
  /\ r <= d.until
  /\ Distinct(Of(d.ports, "key")) /\ Distinct(Of(d.ports, "offset"))
  /\ \E i \in DOMAIN d.ports : d.ports[i].key = "game"
  /\ WithinStride(d)
  /\ d.memory.recommended >= d.memory.min
  /\ d.slots.max >= d.slots.default

\* What zod has established of a document before those checks.
Document(d) ==
  /\ d.ports \in Seq([key : STRING, offset : 0..99]) /\ d.stride \in 1..1000

\* A title's document is made from GAMES under the title's id; one that fails the
\* schema is a bug of the panel, and throws.
BuiltInDefinition(r, t) ==
  Document(BuiltIn[r][t]) /\ Valid(BuiltIn[r][t], r) /\ BuiltIn[r][t].id = t

ASSUME DefinitionsAssumption ==
  /\ MaxReleases \in Nat /\ MaxCalls \in Nat
  /\ \A r \in Releases, t \in Titles : BuiltInDefinition(r, t)
  /\ \A d \in Documents : Document(d)

DefinitionsInit ==
  /\ release = 0 /\ stored = [s \in Slugs |-> NoDocument] /\ used = {}
  /\ call = [c \in Calls |-> Resting] /\ made = 0

(* The list: every row that still validates, and each title none of them shadows. *)

SeenMut(s) == stored[s].there
Seen(s) == stored[s].there /\ Valid(stored[s].document, release)

ListDefinitions ==
  {[document |-> stored[s].document, enabled |-> stored[s].enabled, shadows |-> s \in Titles] :
     s \in {s \in Slugs : Seen(s)}}
  \cup
  {[document |-> BuiltIn[release][t], enabled |-> TRUE, shadows |-> FALSE] : t \in {t \in Titles : ~Seen(t)}}

AvailableDefinitions == {e.document : e \in {e \in ListDefinitions : e.enabled}}

(* Requests *)

Request == made < MaxCalls /\ made' = made + 1
Then(c, next) == call' = [call EXCEPT ![c] = next]
End(c) == call' = [call EXCEPT ![c] = Resting]

\* One upsert: a row that is there stays switched on or off.
SaveDefinition(d) ==
  /\ Request /\ Valid(d, release)
  /\ stored' = [stored EXCEPT ![d.id] =
       [there |-> TRUE, document |-> d, enabled |-> ~stored[d.id].there \/ stored[d.id].enabled]]
  /\ UNCHANGED <<release, used, call>>

\* The row is looked for; a title without one is given its own document.
SetDefinitionEnabled(c, s, enabled) ==
  /\ Request /\ call[c].stage = "idle"
  /\ stored[s].there \/ s \in Titles
  /\ Then(c, [stage |-> IF stored[s].there THEN "update" ELSE "create", slug |-> s, enabled |-> enabled])
  /\ UNCHANGED <<release, stored, used>>

\* Another request's row makes the insertion fail.
CreateRow(c) ==
  /\ call[c].stage = "create"
  /\ LET s == call[c].slug IN
     stored' = IF stored[s].there THEN stored
               ELSE [stored EXCEPT ![s] = [there |-> TRUE, document |-> BuiltIn[release][s],
                                           enabled |-> call[c].enabled]]
  /\ End(c)
  /\ UNCHANGED <<release, used, made>>

\* A row deleted meanwhile makes the update fail.
UpdateRow(c) ==
  /\ call[c].stage = "update"
  /\ LET s == call[c].slug IN
     stored' = IF stored[s].there THEN [stored EXCEPT ![s].enabled = call[c].enabled] ELSE stored
  /\ End(c)
  /\ UNCHANGED <<release, used, made>>

DeleteDefinition(c, s) ==
  /\ Request /\ call[c].stage = "idle" /\ stored[s].there
  /\ Then(c, [stage |-> "count", slug |-> s])
  /\ UNCHANGED <<release, stored, used>>

\* Only a title can have servers, and a title has a document to go back to: the
\* refusal for a document in use meets none.
CountServers(c) ==
  /\ call[c].stage = "count"
  /\ IF call[c].slug \in used \ Titles THEN End(c) ELSE Then(c, [stage |-> "delete", slug |-> call[c].slug])
  /\ UNCHANGED <<release, stored, used, made>>

DeleteRow(c) ==
  /\ call[c].stage = "delete"
  /\ stored' = [stored EXCEPT ![call[c].slug] = NoDocument]
  /\ End(c)
  /\ UNCHANGED <<release, used, made>>

(* Around them *)

\* Servers are created from GAMES, whatever the registry says.
ServersChange ==
  /\ \E t \in Titles : used' \in {used \cup {t}, used \ {t}}
  /\ UNCHANGED <<release, stored, call, made>>

Upgrade ==
  /\ release < MaxReleases /\ release' = release + 1
  /\ call' = [c \in Calls |-> Resting]
  /\ UNCHANGED <<stored, used, made>>

DefinitionsNext ==
  \/ \E d \in Documents : SaveDefinition(d)
  \/ \E c \in Calls :
       \/ \E s \in Slugs : DeleteDefinition(c, s) \/ \E on \in BOOLEAN : SetDefinitionEnabled(c, s, on)
       \/ CreateRow(c) \/ UpdateRow(c) \/ CountServers(c) \/ DeleteRow(c)
  \/ ServersChange \/ Upgrade

DefinitionsSpec == DefinitionsInit /\ [][DefinitionsNext]_definitionsVars

(***************************************************************************)
(* Properties                                                              *)
(***************************************************************************)

\* The port of a document's i-th entry on the n-th server of its game.
PortOf(d, n, i) == n * d.stride + d.ports[i].offset

\* Through uploads, switches and deletions that overlap and through upgrades:
\* every title is listed, so that no server runs a game the registry has lost;
\* each id is listed once; only with a document this release accepts, whatever
\* was accepted when it was stored (definitions.ts:16); and so that neighbouring
\* servers of the game have no port in common (game-definition.ts:283).
CatalogueSound ==
  /\ \A t \in Titles : \E e \in ListDefinitions : e.document.id = t
  /\ \A e, f \in ListDefinitions : e.document.id = f.document.id => e = f
  /\ \A e \in ListDefinitions :
       /\ Valid(e.document, release)
       /\ \A m, n \in 0..1 : \A i, j \in DOMAIN e.document.ports :
            <<m, i>> # <<n, j>> => PortOf(e.document, m, i) # PortOf(e.document, n, j)

\* Claimed: a title is switched off in a row of its own, "so the state survives a
\* restart" (definitions.ts:227).  It does not survive an upgrade that no longer
\* accepts the document the row was given.
SwitchedOffStays ==
  [][\A t \in Titles :
       release' # release /\ (\A d \in AvailableDefinitions : d.id # t)
         => (\A d \in AvailableDefinitions' : d.id # t)]_definitionsVars
=============================================================================
