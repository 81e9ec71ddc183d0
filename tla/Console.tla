------------------------------ MODULE Console ------------------------------
(***************************************************************************)
(* One server's console: the scrollback with its subscribers               *)
(* (modules/servers/console-buffer.ts), the WebSocket that streams it      *)
(* (routes/console.ts), and the page that shows it and reconnects          *)
(* (components/panel/ServerConsole.tsx).  Messages of one socket arrive in *)
(* order; a socket may break at any moment, with messages still on it.     *)
(* Rights come and go, so that every look-up of them may go either way.    *)
(***************************************************************************)
EXTENDS Integers, Sequences, SequencesExt

CONSTANTS
  Sockets,      \* the sockets of one page: the present one, and earlier ones
  Scrollback,   \* CONSOLE_LIMITS.scrollbackLines
  HelloLines,   \* how many of them a hello carries
  MaxLines,     \* bound on the lines of all runs
  MaxRuns,      \* bound on restarts
  MaxCommands   \* bound on the commands sent

NoSocket == "noSocket"

ASSUME ConsoleAssumption ==
  /\ {Scrollback, HelloLines} \subseteq Nat \ {0} /\ {MaxLines, MaxRuns, MaxCommands} \subseteq Nat
  /\ NoSocket \notin Sockets

VARIABLES
  buffer,      \* seqs of the lines that are kept
  written,     \* run -> lines appended: nextSeq - 1
  run,         \* how often the buffer began anew
  subscribers, \* sockets the buffer sends its lines to
  link,        \* socket -> [stage, mail]: what is on its way to the page
  current,     \* the socket the page listens to, or NoSocket
  shown,       \* the lines on the page: [run, lines]
  commands,    \* commands accepted from the page: [socket, asked], asked once the game has them
  sent         \* commands the game was given

consoleVars == <<buffer, written, run, subscribers, link, current, shown, commands, sent>>

Unused == [stage |-> "none", mail |-> <<>>]
AllRuns == 0..MaxRuns
OwnCopy == 0  \* the line made of a result: it has no number of the log

ConsoleInit ==
  /\ buffer = <<>> /\ written = [r \in AllRuns |-> 0] /\ run = 0
  /\ subscribers = {} /\ link = [s \in Sockets |-> Unused] /\ current = NoSocket
  /\ shown = [run |-> 0, lines |-> <<>>]
  /\ commands = {} /\ sent = 0

LastOf(lines, n) == IF Len(lines) <= n THEN lines ELSE SubSeq(lines, Len(lines) - n + 1, Len(lines))

(* The buffer *)

\* appendConsoleLine: the line is kept, and sent to every subscriber that is
\* still open; what follows on each socket comes after it.
Appended(follows) ==
  LET seq == written[run] + 1
      line == [type |-> "line", run |-> run, lines |-> <<seq>>]
  IN  /\ FoldFunction(+, 0, written) < MaxLines
      /\ written' = [written EXCEPT ![run] = seq]
      /\ buffer' = LastOf(Append(buffer, seq), Scrollback)
      /\ link' = [s \in Sockets |->
           IF link[s].stage # "open" THEN link[s]
           ELSE [link[s] EXCEPT !.mail = @ \o (IF s \in subscribers THEN <<line>> ELSE <<>>) \o follows[s]]]

\* The container prints, or the panel has a notice (emitPanelNotice).
Output ==
  /\ Appended([t \in Sockets |-> <<>>])
  /\ UNCHANGED <<run, subscribers, current, shown, commands, sent>>

\* Mutated: the first lines that are kept, and not the last ones.
GetScrollbackMut(limit) == IF Len(buffer) <= limit THEN buffer ELSE SubSeq(buffer, 1, limit)
GetScrollback(limit) == LastOf(buffer, limit)

\* The server is deleted (dropConsole), or the process starts again and every socket breaks.
Emptied ==
  /\ run < MaxRuns /\ run' = run + 1
  /\ buffer' = <<>> /\ subscribers' = {}

DropConsole ==
  /\ Emptied
  /\ UNCHANGED <<written, link, current, shown, commands, sent>>

Restart ==
  /\ Emptied /\ commands' = {}
  /\ link' = [s \in Sockets |->
       IF link[s].stage \in {"asked", "open"} THEN [link[s] EXCEPT !.stage = "broken"] ELSE link[s]]
  /\ UNCHANGED <<written, current, shown, sent>>

(* The socket, at the server *)

\* The upgrade: access is looked up; then the scrollback is sent and the
\* subscription made, with nothing in between.
Accept(s) ==
  /\ link[s].stage = "asked"
  /\ subscribers' = subscribers \cup {s}
  /\ link' = [link EXCEPT ![s] = [stage |-> "open", mail |->
       <<[type |-> "hello", run |-> run, lines |-> GetScrollback(HelloLines)]>>]]
  /\ UNCHANGED <<buffer, written, run, current, shown, commands, sent>>

\* Not permitted: closed with 1008, and the page does not try again.
Refuse(s) ==
  /\ link[s].stage = "asked"
  /\ link' = [link EXCEPT ![s].stage = "denied"]
  /\ UNCHANGED <<buffer, written, run, subscribers, current, shown, commands, sent>>

\* The connection breaks, or a heartbeat is not answered: the handlers of an
\* accepted socket unsubscribe.  (One that breaks while access is looked up is
\* subscribed all the same, and its lines go nowhere.)
Break(s) ==
  /\ link[s].stage \in {"asked", "open", "leaving"}
  /\ link' = [link EXCEPT ![s].stage = "broken", ![s].mail = IF s = current THEN @ ELSE <<>>]
  /\ subscribers' = subscribers \ {s}
  /\ UNCHANGED <<buffer, written, run, current, shown, commands, sent>>

\* A command that passes the right held at the upgrade, its shape and the rate.
ReceiveCommand(s) ==
  /\ link[s].stage = "open" /\ s = current
  /\ sent < MaxCommands /\ commands = {} /\ commands' = {[socket |-> s, asked |-> FALSE]}
  /\ UNCHANGED <<buffer, written, run, subscribers, link, current, shown, sent>>

\* The rights are looked up again; lost, the socket is closed.
CommandRevoked(s) ==
  /\ [socket |-> s, asked |-> FALSE] \in commands
  /\ commands' = {}
  /\ link' = [link EXCEPT ![s].stage = IF @ = "open" THEN "denied" ELSE @]
  /\ subscribers' = subscribers \ {s}
  /\ UNCHANGED <<buffer, written, run, current, shown, sent>>

\* sendCommand: everybody watching sees who runs what, unless the server is not RUNNING.
SendCommand(s) ==
  /\ [socket |-> s, asked |-> FALSE] \in commands
  /\ \/ Appended([t \in Sockets |-> <<>>]) /\ sent' = sent + 1 /\ commands' = {[socket |-> s, asked |-> TRUE]}
     \/ commands' = {} /\ UNCHANGED <<buffer, written, link, sent>>
  /\ UNCHANGED <<run, subscribers, current, shown>>

\* What the game answers is a line for everybody, and a result for whoever
\* asked; it may answer nothing, or not at all.
CommandAnswered(s) ==
  /\ [socket |-> s, asked |-> TRUE] \in commands
  /\ commands' = {}
  /\ \/ Appended([t \in Sockets |->
            IF t = s THEN <<[type |-> "result", run |-> run, lines |-> <<OwnCopy>>]>> ELSE <<>>])
     \/ UNCHANGED <<buffer, written, link>>
  /\ UNCHANGED <<run, subscribers, current, shown, sent>>

(* The page *)

\* connect: the earlier socket is detached, closed, and heard no more.
Connect(s) ==
  /\ link[s] = Unused
  /\ current # NoSocket => link[current].stage = "broken"
  /\ current' = s
  /\ link' = [t \in Sockets |-> CASE t = s -> [Unused EXCEPT !.stage = "asked"]
                                 [] t = current -> Unused
                                 [] OTHER -> link[t]]
  /\ UNCHANGED <<buffer, written, run, subscribers, shown, commands, sent>>

\* The page is left, or shown for the server again, while its socket is still up.
Leave ==
  /\ current # NoSocket
  /\ current' = NoSocket
  /\ link' = [link EXCEPT ![current].stage = IF @ \in {"asked", "open"} THEN "leaving" ELSE "broken"]
  /\ UNCHANGED <<buffer, written, run, subscribers, shown, commands, sent>>

\* Mutated: a socket that was replaced keeps its handlers.
ListensMut(s) == TRUE
Listens(s) == s = current

\* appendLines keeps at most scrollbackLines; a hello replaces what was shown.
Message(s) ==
  LET m == Head(link[s].mail) IN
  /\ link[s].mail # <<>>
  /\ shown' = IF ~ Listens(s) THEN shown
              ELSE IF m.type = "hello" THEN [run |-> m.run, lines |-> m.lines]
              ELSE [run |-> IF m.type = "line" THEN m.run ELSE shown.run,
                    lines |-> LastOf(shown.lines \o m.lines, Scrollback)]
  /\ link' = [link EXCEPT ![s].mail = Tail(@)]
  /\ UNCHANGED <<buffer, written, run, subscribers, current, commands, sent>>

\* A socket that has broken and been read out, or that nobody listens to, is gone.
Discard(s) ==
  /\ s # current /\ link[s].stage \in {"broken", "denied"}
  /\ link' = [link EXCEPT ![s] = Unused]
  /\ UNCHANGED <<buffer, written, run, subscribers, current, shown, commands, sent>>

ConsoleNext ==
  \/ Output \/ DropConsole \/ Restart \/ Leave
  \/ \E s \in Sockets : \/ Accept(s) \/ Refuse(s) \/ Break(s) \/ Connect(s) \/ Message(s) \/ Discard(s)
                        \/ ReceiveCommand(s) \/ CommandRevoked(s) \/ SendCommand(s)
                        \/ CommandAnswered(s)

ConsoleSpec == ConsoleInit /\ [][ConsoleNext]_consoleVars

(* Properties *)

\* The lines of the log that are on the page.
LogLines(lines) ==
  LET Taken[n \in 0..Len(lines)] ==
        IF n = 0 THEN <<>>
        ELSE IF lines[n] = OwnCopy THEN Taken[n - 1] ELSE Append(Taken[n - 1], lines[n])
  IN  Taken[Len(lines)]

LogShown == [shown EXCEPT !.lines = LogLines(@)]

Log == INSTANCE ConsoleLog WITH Runs <- AllRuns, view <- LogShown

\* Across broken sockets, reconnections and restarts the page shows a stretch
\* of the log without a gap or a repetition, and never goes back (module
\* ConsoleLog): the scrollback of a hello and the lines after it fit together.
ShowsLog == Log!Spec
=============================================================================
