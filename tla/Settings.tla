------------------------------- MODULE Settings -------------------------------
(***************************************************************************)
(* A server's game settings: the page that shows them as a form or as      *)
(* JSON, the request that saves them, the assistant's change_config, and   *)
(* the file the game reads when it starts.                                 *)
(*                                                                         *)
(* A save reads the row, lays what was sent over it, has the adapter       *)
(* validate the whole, writes the whole back and then writes the file.  A  *)
(* start writes the file from the row it read first.  Writing the file is  *)
(* opening it, which empties it, and then filling it.  Pages, the assistant*)
(* and starts interleave between all of these.                             *)
(*                                                                         *)
(* A setting is on or off.  The rule across settings is Reforger's: other  *)
(* platforms than the PC may be listed only with cross-play.               *)
(***************************************************************************)
EXTENDS Naturals

CONSTANTS
  Pages,        \* open settings pages
  Assistant,    \* approved change_config proposals
  MaxEdits,     \* bound: changes made on pages and by the assistant
  MaxSaves,     \* bound: saves
  MaxStarts     \* bound: starts of the server

VARIABLES
  row,          \* Server.config
  file,         \* the game's configuration file: settings, Empty, or Broken
  alone,        \* whether the last to open the file had it alone since, and no write of it
                \* failed (records what happened)
  page,         \* each page: what the open view shows, the view, "Configuration saved"
  save,         \* each save under way
  starter,      \* the start under way and the settings it loaded
  writer,       \* who wrote the row last
  settingsCounts

settingsVars == <<row, file, alone, page, save, starter, writer, settingsCounts>>

\* Of Reforger's settings: cross-play, another platform listed, a mission header.
Keys == {"cross", "xbox", "header"}

\* Those the form has a control for: it has none for the platforms or the header.
FormKeys == {"cross"}

\* Text that does not parse, and a file without any.
Broken == [broken |-> TRUE]
Empty == <<>>

Consistent(config) == config["xbox"] => config["cross"]

\* Every setting is there, and they agree.
ValidConfig(config) == DOMAIN config = Keys /\ Consistent(config)

\* The view that is not open is made from the one that is when it is opened,
\* so the page has one value: the object of the form, or the text typed.
Loaded(config) == [shown |-> config, mode |-> "form", saved |-> FALSE]
NoSave == [pc |-> "idle", sent |-> <<>>, config |-> <<>>]
Defaults == [k \in Keys |-> k # "header"]

SettingsInit ==
  /\ row = Defaults
  /\ file = Defaults /\ alone = TRUE
  /\ page = [p \in Pages |-> Loaded(Defaults)]
  /\ save = [c \in Pages \union Assistant |-> NoSave]
  /\ starter = [pc |-> "idle", config |-> <<>>]
  /\ writer = "nobody"
  /\ settingsCounts = [edits |-> 0, saves |-> 0, starts |-> 0]

Saving(p) == save[p].pc # "idle"
Edit(p, what) ==
  /\ settingsCounts.edits < MaxEdits
  /\ settingsCounts' = [settingsCounts EXCEPT !.edits = @ + 1]
  /\ page' = [page EXCEPT ![p] = what]
  /\ UNCHANGED <<row, file, alone, save, starter, writer>>

\* The page is opened again, and loads what the row holds.
Visit(p) == ~ Saving(p) /\ page[p] # Loaded(row) /\ Edit(p, Loaded(row))

\* A copy with one setting turned over; one that is not there shows as off.
Turned(config, k) ==
  [key \in DOMAIN config \union {k} |->
     IF key = k THEN k \notin DOMAIN config \/ ~ config[k] ELSE config[key]]

\* A control of the form sets one setting of the object; none while saving.
SetField(p, k) ==
  /\ page[p].mode = "form"
  /\ ~ Saving(p)
  /\ Edit(p, [page[p] EXCEPT !.shown = Turned(@, k), !.saved = FALSE])

\* The text is typed in, also while a save is under way.
TypeText(p, text) ==
  /\ page[p].mode = "json"
  /\ text # page[p].shown
  /\ Edit(p, [page[p] EXCEPT !.shown = text, !.saved = FALSE])

\* One setting turned over or left out, or a brace forgotten.
Typed(text) ==
  {Broken} \union
  IF text = Broken THEN {}
  ELSE {[text EXCEPT ![k] = ~ @] : k \in DOMAIN text}
       \union {[k \in DOMAIN text \ {gone} |-> text[k]] : gone \in DOMAIN text}

\* Text that does not parse is not shown as a form.
SwitchConfigMode(p) ==
  /\ page[p].shown # Broken
  /\ page' = [page EXCEPT ![p].mode = IF @ = "form" THEN "json" ELSE "form"]
  /\ UNCHANGED <<row, file, alone, save, starter, writer, settingsCounts>>

Send(c, sent) ==
  /\ settingsCounts.saves < MaxSaves
  /\ save[c].pc = "idle"
  /\ settingsCounts' = [settingsCounts EXCEPT !.saves = @ + 1]
  /\ save' = [save EXCEPT ![c] = [pc |-> "read", sent |-> sent, config |-> <<>>]]
  /\ UNCHANGED <<row, file, alone, page, starter, writer>>

\* The whole of what the open view shows is sent, unless it does not parse.
SaveConfig(p) == page[p].shown # Broken /\ Send(p, page[p].shown)

\* The assistant sends the settings it would change, and no others.
ChangeConfig(a, k) == \E on \in BOOLEAN : Send(a, [key \in {k} |-> on])

Merged(current, patch) ==
  [k \in Keys |-> IF k \in DOMAIN patch THEN patch[k] ELSE current[k]]

Progress(c, to) ==
  /\ save' = [save EXCEPT ![c] = to]
  /\ UNCHANGED <<page, starter, settingsCounts>>

\* Load the row; the merged settings must be valid as a whole.
ValidateConfig(c) ==
  LET merged == Merged(row, save[c].sent)
  IN  /\ save[c].pc = "read"
      /\ Progress(c, IF Consistent(merged)
                       THEN [save[c] EXCEPT !.pc = "write", !.config = merged]
                       ELSE NoSave)
      /\ UNCHANGED <<row, file, alone, writer>>

\* Mutant: only the settings that were sent are written.
WrittenMut(c) == Merged(row, save[c].sent)
Written(c) == save[c].config

WriteRow(c) ==
  /\ save[c].pc = "write"
  /\ row' = Written(c)
  /\ writer' = c
  /\ Progress(c, [save[c] EXCEPT !.pc = "file", !.sent = <<>>])
  /\ UNCHANGED <<file, alone>>

(* Writing the file *)

NobodyFills == starter.pc # "fill" /\ \A c \in DOMAIN save : save[c].pc # "fill"

OpenFile == file' = Empty /\ alone' = NobodyFills

\* Over what another has written since, some of that may stick out behind.  The
\* write may fail before the first byte or after some.
FillFile(config) ==
  \/ file' \in {config} \union (IF file = Empty THEN {} ELSE {Broken}) /\ UNCHANGED alone
  \/ file' \in {file, Broken} /\ alone' = FALSE

\* The file is written from the row as updated; a failure is passed over, one to
\* open it here.
WriteConfig(c) ==
  /\ save[c].pc = "file"
  /\ \/ OpenFile /\ Progress(c, [save[c] EXCEPT !.pc = "fill"])
     \/ UNCHANGED <<file, alone>> /\ Progress(c, [save[c] EXCEPT !.pc = "answer"])
  /\ UNCHANGED <<row, writer>>

FillConfig(c) ==
  /\ save[c].pc = "fill"
  /\ FillFile(save[c].config)
  /\ Progress(c, [save[c] EXCEPT !.pc = "answer"])
  /\ UNCHANGED <<row, writer>>

\* Both views are made from the settings the server answers with.
ApplyConfig(c) ==
  /\ save[c].pc = "answer"
  /\ save' = [save EXCEPT ![c] = NoSave]
  /\ page' = [p \in Pages |->
                IF p # c THEN page[p]
                ELSE [page[p] EXCEPT !.shown = save[c].config, !.saved = TRUE]]
  /\ UNCHANGED <<row, file, alone, starter, writer, settingsCounts>>

(* Starting: the row is loaded with the request, the file written from it. *)

StartRead ==
  /\ starter.pc = "idle" /\ settingsCounts.starts < MaxStarts
  /\ starter' = [pc |-> "file", config |-> row]
  /\ settingsCounts' = [settingsCounts EXCEPT !.starts = @ + 1]
  /\ UNCHANGED <<row, file, alone, page, save, writer>>

\* The game reads the file as it starts; a start whose write fails ends here.
StartWrite ==
  /\ starter.pc = "file"
  /\ \/ OpenFile /\ starter' = [pc |-> "fill", config |-> starter.config]
     \/ UNCHANGED <<file, alone>> /\ starter' = [pc |-> "idle", config |-> <<>>]
  /\ UNCHANGED <<row, page, save, writer, settingsCounts>>

StartFill ==
  /\ starter.pc = "fill"
  /\ FillFile(starter.config)
  /\ starter' = [pc |-> "idle", config |-> <<>>]
  /\ UNCHANGED <<row, page, save, writer, settingsCounts>>

SettingsNext ==
  \/ \E p \in Pages : Visit(p) \/ SwitchConfigMode(p) \/ SaveConfig(p)
  \/ \E p \in Pages, k \in FormKeys : SetField(p, k)
  \/ \E p \in Pages : \E text \in Typed(page[p].shown) : TypeText(p, text)
  \/ \E a \in Assistant, k \in Keys : ChangeConfig(a, k)
  \/ \E c \in Pages \union Assistant :
        ValidateConfig(c) \/ WriteRow(c) \/ WriteConfig(c) \/ FillConfig(c) \/ ApplyConfig(c)
  \/ StartRead \/ StartWrite \/ StartFill

SettingsSpec == SettingsInit /\ [][SettingsNext]_settingsVars

(***************************************************************************)
(* However saves of several pages, the assistant and starts overlap, and   *)
(* although each lays what it was sent over a row that may be stale, the   *)
(* row is valid as a whole, the rules across settings included; so is the  *)
(* file the game starts from when nobody is writing it, unless a write of  *)
(* it failed or two overlapped since it was last written by one alone; and *)
(* a page that says it has saved shows what the row holds for as long as   *)
(* nobody else has written.                                                *)
(***************************************************************************)
SettingsSound ==
  /\ ValidConfig(row)
  /\ alone /\ NobodyFills => ValidConfig(file)
  /\ \A p \in Pages : page[p].saved /\ ~ Saving(p) /\ writer = p => page[p].shown = row

(***************************************************************************)
(* Claimed in server-service.ts:565 and routes/servers.ts:207: once        *)
(* nothing is under way the file has the settings of the row, unless a     *)
(* write of it failed.  A start, or another save, that read the row before *)
(* the last write of it and writes the file after it leaves the older      *)
(* settings there; and two that open the file at the same time may leave   *)
(* it with the settings of either, or with text that does not parse.       *)
(***************************************************************************)
FileFollows ==
  starter.pc = "idle" /\ (\A c \in DOMAIN save : save[c].pc = "idle") => file = row
=============================================================================
