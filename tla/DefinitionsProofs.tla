------------------------- MODULE DefinitionsProofs -------------------------
(***************************************************************************)
(* For every set of titles, documents and requests: the registry's list is *)
(* sound, and a valid document keeps any two servers of its game apart.    *)
(***************************************************************************)
EXTENDS Definitions, TLAPS

\* Multiples of the stride are at least a stride apart.
LEMMA StrideApart ==
  ASSUME NEW m \in Nat, NEW n \in Nat, NEW s \in Nat, m < n
  PROVE  m * s + s <= n * s
<1>1. PICK k \in Nat : n = m + 1 + k
  <2>1. n - m - 1 \in Nat OBVIOUS
  <2> QED BY <2>1
<1>2. n * s = m * s + s + k * s BY <1>1
<1>3. k * s >= 0 OBVIOUS
<1>4. m * s \in Nat /\ k * s \in Nat OBVIOUS
<1> QED BY <1>2, <1>3, <1>4

\* Of a valid document, no two ports coincide, on one server of the game or on
\* two, however many there are (validateGameDefinition).
THEOREM BlocksApart ==
  ASSUME NEW d, Document(d), WithinStride(d), Distinct(Of(d.ports, "offset")),
         NEW m \in Nat, NEW n \in Nat, NEW i \in DOMAIN d.ports, NEW j \in DOMAIN d.ports,
         <<m, i>> # <<n, j>>
  PROVE  PortOf(d, m, i) # PortOf(d, n, j)
<1> DEFINE a == d.ports[i].offset  b == d.ports[j].offset  s == d.stride
<1>1. /\ a \in Nat /\ b \in Nat /\ s \in Nat
      /\ a < s /\ b < s
  <2>1. d.ports[i] \in [key : STRING, offset : 0..99] /\ d.ports[j] \in [key : STRING, offset : 0..99]
    <3> DEFINE Port == [key : STRING, offset : 0..99]
    <3>1. d.ports \in Seq(Port) BY DEF Document
    <3> HIDE DEF Port
    <3>2. d.ports[i] \in Port /\ d.ports[j] \in Port BY <3>1
    <3> QED BY <3>2 DEF Port
  <2>2. d.ports[i].offset \in 0..99 /\ d.ports[j].offset \in 0..99 BY <2>1
  <2>3. d.ports[i].offset + 1 <= d.stride /\ d.ports[j].offset + 1 <= d.stride BY DEF WithinStride
  <2>4. d.stride \in 1..1000 BY DEF Document
  <2> HIDE DEF a, b, s
  <2>5. a \in 0..99 /\ b \in 0..99 /\ a + 1 <= s /\ b + 1 <= s /\ s \in 1..1000
    BY <2>2, <2>3, <2>4 DEF a, b, s
  <2> QED BY <2>5
<1>2. i # j => a # b BY DEF Distinct, Of
<1>3. CASE m = n
  <2>1. i # j BY <1>3
  <2>2. m * s \in Nat BY <1>1
  <2> HIDE DEF a, b, s
  <2>3. m * s + a # m * s + b BY <1>1, <1>2, <2>1, <2>2
  <2> QED BY <1>3, <2>3 DEF PortOf, a, b, s
<1>4. CASE m < n
  <2>1. m * s + s <= n * s BY <1>1, <1>4, StrideApart
  <2>2. m * s \in Nat /\ n * s \in Nat BY <1>1
  <2> HIDE DEF a, b, s
  <2>3. m * s + a # n * s + b BY <1>1, <2>1, <2>2
  <2> QED BY <2>3 DEF PortOf, a, b, s
<1>5. CASE n < m
  <2>1. n * s + s <= m * s BY <1>1, <1>5, StrideApart
  <2>2. m * s \in Nat /\ n * s \in Nat BY <1>1
  <2> HIDE DEF a, b, s
  <2>3. m * s + a # n * s + b BY <1>1, <2>1, <2>2
  <2> QED BY <2>3 DEF PortOf, a, b, s
<1> QED BY <1>3, <1>4, <1>5

(***************************************************************************)
(* The inductive invariant: a row holds a document of its own slug, as zod *)
(* would parse it; the list judges the rest anew.                          *)
(***************************************************************************)
AllDocuments == Documents \cup {BuiltIn[r][t] : r \in Releases, t \in Titles}

Row == [there : {TRUE}, document : AllDocuments, enabled : BOOLEAN]
Rows == {NoDocument} \cup Row

RowsFit ==
  /\ release \in Releases
  /\ stored \in [Slugs -> Rows]
  /\ \A s \in Slugs : stored[s].there => stored[s].document.id = s
  /\ DOMAIN call = Calls
  /\ \A c \in Calls :
       /\ call[c].stage = "create" => call[c].slug \in Titles
       /\ call[c].stage \in {"create", "update"} => call[c].enabled \in BOOLEAN

\* A row that is there is a row, not its absence.
LEMMA RowThere ==
  ASSUME NEW r \in Rows, r.there
  PROVE  r \in Row
<1>1. NoDocument.there = FALSE BY DEF NoDocument
<1>2. r # NoDocument BY <1>1
<1> QED BY <1>2 DEF Rows

\* The rows are always such rows, whatever requests and upgrades overlap.
THEOREM RowsAlwaysFit == DefinitionsSpec => []RowsFit
<1>1. DefinitionsInit => RowsFit
  BY DefinitionsAssumption DEF DefinitionsInit, RowsFit, Rows, Releases, NoDocument, Resting
<1>2. RowsFit /\ [DefinitionsNext]_definitionsVars => RowsFit'
  <2> SUFFICES ASSUME RowsFit, [DefinitionsNext]_definitionsVars PROVE RowsFit' OBVIOUS
  <2> USE DEF RowsFit
  <2>1. ASSUME NEW d \in Documents, SaveDefinition(d) PROVE RowsFit'
    <3>1. d.id \in Slugs BY DEF Slugs
    <3>2. [there |-> TRUE, document |-> d, enabled |-> ~stored[d.id].there \/ stored[d.id].enabled] \in Rows
      <4>1. stored[d.id] \in Rows BY <3>1
      <4>2. (~stored[d.id].there \/ stored[d.id].enabled) \in BOOLEAN OBVIOUS
      <4> QED BY <4>2 DEF Rows, Row, AllDocuments
    <3> QED BY <2>1, <3>1, <3>2 DEF SaveDefinition
  <2>2. ASSUME NEW c \in Calls, NEW s \in Slugs, DeleteDefinition(c, s) PROVE RowsFit'
    BY <2>2 DEF DeleteDefinition, Then
  <2>3. ASSUME NEW c \in Calls, NEW s \in Slugs, NEW on \in BOOLEAN, SetDefinitionEnabled(c, s, on) PROVE RowsFit'
    BY <2>3 DEF SetDefinitionEnabled, Then
  <2>4. ASSUME NEW c \in Calls, CreateRow(c) PROVE RowsFit'
    <3> DEFINE s == call[c].slug
    <3>1. s \in Titles /\ s \in Slugs BY <2>4 DEF CreateRow, Slugs
    <3>2. BuiltIn[release][s].id = s /\ BuiltIn[release][s] \in AllDocuments
      BY <3>1, DefinitionsAssumption DEF BuiltInDefinition, AllDocuments, RowsFit
    <3> QED BY <2>4, <3>1, <3>2 DEF CreateRow, End, Resting, Rows, Row
  <2>5. ASSUME NEW c \in Calls, UpdateRow(c) PROVE RowsFit'
    <3> DEFINE s == call[c].slug
    <3>1. CASE stored[s].there /\ s \in Slugs
      <4>1. stored[s] \in Row BY <3>1, RowThere
      <4>2. call[c].enabled \in BOOLEAN BY <2>5 DEF UpdateRow
      <4>3. [stored[s] EXCEPT !.enabled = call[c].enabled] \in Rows BY <4>1, <4>2 DEF Rows, Row
      <4>4. [stored[s] EXCEPT !.enabled = call[c].enabled].document = stored[s].document BY <4>1 DEF Row
      <4> QED BY <2>5, <3>1, <4>3, <4>4 DEF UpdateRow, End, Resting
    <3>2. CASE ~(stored[s].there /\ s \in Slugs)
      <4>1. stored' = stored BY <2>5, <3>2 DEF UpdateRow
      <4> QED BY <2>5, <4>1 DEF UpdateRow, End, Resting
    <3> QED BY <3>1, <3>2
  <2>6. ASSUME NEW c \in Calls, CountServers(c) PROVE RowsFit'
    BY <2>6 DEF CountServers, End, Then, Resting
  <2>7. ASSUME NEW c \in Calls, DeleteRow(c) PROVE RowsFit'
    BY <2>7 DEF DeleteRow, End, Resting, Rows, NoDocument
  <2>8. CASE ServersChange BY <2>8 DEF ServersChange
  <2>9. CASE Upgrade BY <2>9, DefinitionsAssumption DEF Upgrade, Releases, Resting
  <2>10. CASE UNCHANGED definitionsVars BY <2>10 DEF definitionsVars
  <2> QED BY <2>1, <2>2, <2>3, <2>4, <2>5, <2>6, <2>7, <2>8, <2>9, <2>10 DEF DefinitionsNext
<1> QED BY <1>1, <1>2, PTL DEF DefinitionsSpec

\* Whatever is listed, from a row or from the panel, passes this release's checks.
LEMMA EntriesSound ==
  ASSUME RowsFit, NEW e \in ListDefinitions
  PROVE  Document(e.document) /\ Valid(e.document, release)
<1>1. CASE \E s \in Slugs : Seen(s) /\ e.document = stored[s].document
  <2>1. PICK s \in Slugs : Seen(s) /\ e.document = stored[s].document BY <1>1
  <2>2. stored[s].document \in AllDocuments
    <3>1. stored[s] \in Rows /\ stored[s].there BY <2>1 DEF RowsFit, Seen
    <3> QED BY <3>1, RowThere DEF Row
  <2>3. Document(stored[s].document) BY <2>2, DefinitionsAssumption DEF BuiltInDefinition, AllDocuments
  <2> QED BY <2>1, <2>3 DEF Seen
<1>2. CASE \E t \in Titles : e.document = BuiltIn[release][t]
  BY <1>2, DefinitionsAssumption DEF BuiltInDefinition, RowsFit
<1> QED BY <1>1, <1>2 DEF ListDefinitions

\* Every title is listed, each id once, with documents this release accepts, and
\* neighbouring servers of a listed game have no port in common.
THEOREM CatalogueAlwaysSound == DefinitionsSpec => []CatalogueSound
<1>1. RowsFit => CatalogueSound
  <2> SUFFICES ASSUME RowsFit PROVE CatalogueSound OBVIOUS
  <2> DEFINE Entry(s) == [document |-> stored[s].document, enabled |-> stored[s].enabled, shadows |-> s \in Titles]
             Own(t) == [document |-> BuiltIn[release][t], enabled |-> TRUE, shadows |-> FALSE]
  <2>1. \A t \in Titles : BuiltIn[release][t].id = t BY DefinitionsAssumption DEF BuiltInDefinition, RowsFit
  <2>2. \A s \in Slugs : Seen(s) => stored[s].document.id = s BY DEF RowsFit, Seen
  <2>3. ASSUME NEW t \in Titles PROVE \E e \in ListDefinitions : e.document.id = t
    <3>1. t \in Slugs BY DEF Slugs
    <3>2. CASE Seen(t)
      <4>1. Entry(t) \in ListDefinitions BY <3>1, <3>2 DEF ListDefinitions
      <4>2. Entry(t).document = stored[t].document OBVIOUS
      <4> QED BY <2>2, <3>1, <3>2, <4>1, <4>2
    <3>3. CASE ~Seen(t)
      <4>1. Own(t) \in ListDefinitions BY <3>3 DEF ListDefinitions
      <4>2. Own(t).document = BuiltIn[release][t] OBVIOUS
      <4> QED BY <2>1, <4>1, <4>2
    <3> QED BY <3>2, <3>3
  <2>4. ASSUME NEW e \in ListDefinitions, NEW f \in ListDefinitions, e.document.id = f.document.id PROVE e = f
    <3>1. ASSUME NEW g \in ListDefinitions
          PROVE  \/ g.document.id \in Slugs /\ Seen(g.document.id) /\ g = Entry(g.document.id)
                 \/ g.document.id \in Titles /\ ~Seen(g.document.id) /\ g = Own(g.document.id)
      <4>1. CASE \E s \in Slugs : Seen(s) /\ g = Entry(s) BY <4>1, <2>2
      <4>2. CASE \E t \in Titles : ~Seen(t) /\ g = Own(t)
        <5>1. PICK t \in Titles : ~Seen(t) /\ g = Own(t) BY <4>2
        <5>2. g.document.id = t BY <5>1, <2>1
        <5> QED BY <5>1, <5>2
      <4> QED BY <4>1, <4>2 DEF ListDefinitions
    <3> HIDE DEF Entry, Own
    <3> QED BY <3>1, <2>4
  <2>5. ASSUME NEW e \in ListDefinitions
        PROVE  /\ Valid(e.document, release)
               /\ \A m, n \in 0..1 : \A i, j \in DOMAIN e.document.ports :
                    <<m, i>> # <<n, j>> => PortOf(e.document, m, i) # PortOf(e.document, n, j)
    <3>1. Document(e.document) /\ Valid(e.document, release) BY <2>5, EntriesSound
    <3>2. WithinStride(e.document) /\ Distinct(Of(e.document.ports, "offset")) BY <3>1 DEF Valid
    <3> QED BY <3>1, <3>2, BlocksApart
  <2> QED BY <2>3, <2>4, <2>5 DEF CatalogueSound
<1> QED BY <1>1, RowsAlwaysFit, PTL
=============================================================================
