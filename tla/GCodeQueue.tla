----------------------------- MODULE GCodeQueue -----------------------------
(***************************************************************************)
(* The G-code queue (gcode/queue.cpp, gcode/queue.h) and the main loop     *)
(* around it (MarlinCore.cpp): lines from the serial ports and commands    *)
(* from the file on the U disk and from the display go into a ring, and    *)
(* loop() runs them one at a time.                                         *)
(*                                                                         *)
(* All of it is one thread, and yet not sequential: a handler that waits   *)
(* calls idle(), which fills the queue, and whatever idle() runs (the end  *)
(* of the file, an M410, the display) may wait, and call idle(), itself.   *)
(* The calls under way are the frames of "stack", the innermost last.      *)
(*                                                                         *)
(* A serial line is one unit: its characters change nothing until the end  *)
(* of the line is read.  The host is external: it sends its next line when *)
(* it has an "ok" for all but Window - 1 of those before, and goes back    *)
(* when it is asked to.                                                    *)
(***************************************************************************)
EXTENDS Integers, Sequences, FiniteSets, SequencesExt

CONSTANTS
  BufSize,      \* BUFSIZE
  NumSerial,    \* NUM_SERIAL: a host may be on each of the ports 0 .. NumSerial - 1
  Hosts,        \* the ports a host is on
  Window,       \* lines a host sends ahead of the answers
  Script,       \* the lines each host sends: "plain", "M410" or "M290"
  Corruptions,  \* bound: lines damaged on the way
  FileLines,    \* lines of the file being printed, 0 for no file
  Presses,      \* bound: commands entered at the display with storeCmd
  MustPresses,  \* bound: commands entered with mustStoreCmd
  Holds,        \* bound: times the print is paused or resumed at the display
  Stopping,     \* whether the print is stopped at the display
  MaxDepth      \* bound: calls under way at once

ASSUME QueueAssumption ==
  /\ BufSize \in Nat /\ BufSize > 2 /\ NumSerial \in Nat \ {0}
  /\ Hosts \subseteq 0 .. NumSerial - 1 /\ Window \in Nat \ {0}
  /\ Script \in Seq({"plain", "M410", "M290"})
  /\ {Corruptions, FileLines, Presses, MustPresses, Holds, MaxDepth} \subseteq Nat
  /\ Stopping \in BOOLEAN

VARIABLES
  length, index_r, index_w,    \* the ring's counters
  command, port, send_ok,      \* its slots: what, from which port, answered or not
  last_N,                      \* the last line number accepted on each port, and
                               \* behind the last port what lies behind the array
  rx,                          \* lines arrived on each port and not yet read
  buffer,                      \* serial_line_buffer: the line last read on each port
  injected,                    \* whether an injected command is pending
  stack,                       \* the main program's calls under way
  file,                        \* the print: [next, printing, pause, stop, complete]
  next, unanswered,            \* hosts: the line to send, lines without an "ok"
  budget,                      \* what is left of the bounds
  ran,                         \* history: the last command of each source started
  stopped,                     \* history: the print has been stopped
  resent                       \* history: the last resend asked for

ringVars == <<length, index_r, index_w, command, port, send_ok>>
hostVars == <<next, unanswered>>
histVars == <<ran, stopped, resent>>
vars == <<ringVars, last_N, rx, buffer, injected, stack, file, hostVars, budget, histVars>>

(* Sources of commands: the ports, then the file, the display, the end of  *)
(* the print.                                                              *)
FileSource  == NumSerial
PanelSource == NumSerial + 1
EndSource   == NumSerial + 2
Sources     == 0 .. NumSerial + 2

NoCommand == [src |-> 0, n |-> 0]
NoLine    == [n |-> 0, kind |-> "plain", good |-> TRUE]
NoResend  == [from |-> 0, expected |-> 0, to |-> 0, n |-> 0]

Frame(at) == [at |-> at, left |-> {}]
Top       == Last(stack)
In(at)    == Top.at = at
Becomes(f)  == stack' = Append(Front(stack), f)
Calls(f)    == stack' = Append(stack, f)
Returns     == stack' = Front(stack)

full == length >= BufSize

-----------------------------------------------------------------------------
(* The ring *)

NextSlotLate(i) == IF i + 1 > BufSize THEN 0 ELSE i + 1   \* variant: wrapped one too late
NextSlot(i) == IF i + 1 >= BufSize THEN 0 ELSE i + 1

(* _commit_command: p is the port to answer on, 1-based, -1 for none. *)
CommitStuck(c, say_ok, p) ==   \* variant: the write index not moved on
  /\ command' = [command EXCEPT ![index_w] = c]
  /\ send_ok' = [send_ok EXCEPT ![index_w] = say_ok]
  /\ port'    = [port EXCEPT ![index_w] = p]
  /\ length'  = length + 1
  /\ UNCHANGED <<index_r, index_w>>
Commit(c, say_ok, p) ==
  /\ command' = [command EXCEPT ![index_w] = c]
  /\ send_ok' = [send_ok EXCEPT ![index_w] = say_ok]
  /\ port'    = [port EXCEPT ![index_w] = p]
  /\ index_w' = NextSlot(index_w)
  /\ length'  = length + 1
  /\ index_r' = index_r

(* _enqueue: into a full queue nothing goes. *)
Enqueue(c, say_ok, p) == IF full THEN UNCHANGED ringVars ELSE Commit(c, say_ok, p)

(* PORT_REDIRECT: a reply to port p goes out on this serial port. *)
SerialOf(p) == IF p = 0 THEN 0 ELSE p - 1

(* ok_to_send, for the command at the read index; the host counts.         *)
OkTo(h) == port[index_r] >= 0 /\ send_ok[index_r] /\ SerialOf(port[index_r]) = h
OkToSend ==
  unanswered' = [h \in Hosts |-> IF OkTo(h) /\ unanswered[h] > 0 THEN unanswered[h] - 1
                                                                 ELSE unanswered[h]]

-----------------------------------------------------------------------------
(* idle(), and those who call it while they wait *)

(* manage_inactivity leaves a full queue alone. *)
IdleFrame == Frame(IF full THEN "panel" ELSE "serial")

(* The handler of a queued or an injected command, quickstop_stepper, the  *)
(* end of the file, the stop of the print, enqueue_one_now: each may idle  *)
(* any number of times before it goes on.                                  *)
Waiters == {"handler", "injected", "quickstop", "ending", "stopping"}
CallIdle ==
  /\ Top.at \in Waiters \/ (In("mustStore") /\ full)
  /\ Len(stack) < MaxDepth
  /\ Calls(IdleFrame)
  /\ UNCHANGED <<ringVars, last_N, rx, buffer, injected, file, hostVars, budget, histVars>>

-----------------------------------------------------------------------------
(* get_serial_commands *)

Waiting == {i \in DOMAIN rx : rx[i] # <<>>}

(* "while (length < BUFSIZE && serial_data_available())", then one         *)
(* character from every port: in one pass any of the ports may come to the *)
(* end of its line.                                                        *)
SerialPassAnyway ==   \* variant: whether the queue is full not looked at
  /\ In("serial") /\ Top.left = {}
  /\ \E ends \in SUBSET Waiting \ {{}} : Becomes([Top EXCEPT !.left = ends])
  /\ UNCHANGED <<ringVars, last_N, rx, buffer, injected, file, hostVars, budget, histVars>>
SerialPass ==
  /\ In("serial") /\ Top.left = {}
  /\ ~full
  /\ \E ends \in SUBSET Waiting \ {{}} : Becomes([Top EXCEPT !.left = ends])
  /\ UNCHANGED <<ringVars, last_N, rx, buffer, injected, file, hostVars, budget, histVars>>

SerialDone ==
  /\ In("serial") /\ Top.left = {}
  /\ full \/ Waiting = {}
  /\ Becomes(Frame("media"))
  /\ UNCHANGED <<ringVars, last_N, rx, buffer, injected, file, hostVars, budget, histVars>>

(* The line port i has just completed, and the frame once it is dealt with *)
Due  == CHOOSE i \in Top.left : \A j \in Top.left : i <= j
Line == Head(rx[Due])
RestOfPass == [Top EXCEPT !.left = @ \ {Due}]

AtLine == In("serial") /\ Top.left # {}

(* A nested call may have emptied the port meanwhile. *)
LineGone ==
  /\ AtLine /\ rx[Due] = <<>>
  /\ Becomes(RestOfPass)
  /\ UNCHANGED <<ringVars, last_N, rx, buffer, injected, file, hostVars, budget, histVars>>

(* M290 is executed on the spot, before any check, and never answered. *)
BabystepLine ==
  /\ AtLine /\ rx[Due] # <<>> /\ Line.kind = "M290"
  /\ rx' = [rx EXCEPT ![Due] = Tail(@)]
  /\ buffer' = [buffer EXCEPT ![Due] = Line]
  /\ Becomes(Frame("media"))
  /\ UNCHANGED <<ringVars, last_N, injected, file, hostVars, budget, histVars>>

(* A bare M410 carries no number and is not checked (with a number it is   *)
(* not recognised); other lines are numbered and checksummed.              *)
Number(n) == Cardinality({k \in 1 .. n : Script[k] # "M410"})
Accepted(l, i) == l.good /\ Number(l.n) = last_N[i] + 1

(* The line a host goes back to when asked for a number. *)
LineNumbered(number) ==
  LET found == {k \in DOMAIN Script : Script[k] # "M410" /\ Number(k) = number}
  IN  IF found = {} THEN Len(Script) + 1 ELSE CHOOSE k \in found : TRUE

(* gcode_line_error(err, i+1), flush_and_request_resend.  The port it is   *)
(* given counts from 1 and is used as an index from 0; the resend goes to  *)
(* the port of the slot at the read index.                                 *)
LineErrorAt(i, pn) ==
  LET q == port[index_r]
      number == last_N[q] + 1
  IN  /\ rx' = [j \in DOMAIN rx |->
                  IF j = pn THEN <<>> ELSE IF j = i THEN Tail(rx[j]) ELSE rx[j]]
      /\ next' = [h \in Hosts |-> IF q >= 0 /\ h = SerialOf(q) THEN LineNumbered(number)
                              ELSE next[h]]
      /\ resent' = IF q >= 0 THEN [from |-> i, expected |-> last_N[i] + 1,
                                   to |-> SerialOf(q), n |-> number]
                   ELSE [from |-> i, expected |-> last_N[i] + 1, to |-> -1, n |-> 0]
      /\ OkToSend
LineError ==
  /\ AtLine /\ rx[Due] # <<>> /\ Line.kind = "plain" /\ ~Accepted(Line, Due)
  /\ LineErrorAt(Due, Due + 1)
  /\ buffer' = [buffer EXCEPT ![Due] = Line]
  /\ Becomes(Frame("media"))
  /\ UNCHANGED <<ringVars, last_N, injected, file, budget, ran, stopped>>

EnqueueBuffer(i, l) == Enqueue([src |-> i, n |-> l.n], TRUE, i + 1)

AcceptLine ==
  /\ AtLine /\ rx[Due] # <<>> /\ Line.kind = "plain" /\ Accepted(Line, Due)
  /\ rx' = [rx EXCEPT ![Due] = Tail(@)]
  /\ buffer' = [buffer EXCEPT ![Due] = Line]
  /\ last_N' = [last_N EXCEPT ![Due] = Number(Line.n)]
  /\ EnqueueBuffer(Due, Line)
  /\ Becomes(RestOfPass)
  /\ UNCHANGED <<injected, file, hostVars, budget, histVars>>

(* M410 stops the motors early, which idles, and is enqueued afterwards:   *)
(* from the buffer, whatever it holds by then.                             *)
EarlyStopLine ==
  /\ AtLine /\ rx[Due] # <<>> /\ Line.kind = "M410"
  /\ rx' = [rx EXCEPT ![Due] = Tail(@)]
  /\ buffer' = [buffer EXCEPT ![Due] = Line]
  /\ stack' = Front(stack) \o << [Top EXCEPT !.at = "enqueue"], Frame("quickstop") >>
  /\ UNCHANGED <<ringVars, last_N, injected, file, hostVars, budget, histVars>>

EarlyStopDone ==
  /\ In("quickstop")
  /\ Returns
  /\ UNCHANGED <<ringVars, last_N, rx, buffer, injected, file, hostVars, budget, histVars>>

EnqueueAfterStop ==
  /\ In("enqueue")
  /\ EnqueueBuffer(Due, buffer[Due])
  /\ Becomes([RestOfPass EXCEPT !.at = "serial"])
  /\ UNCHANGED <<last_N, rx, buffer, injected, file, hostVars, budget, histVars>>

-----------------------------------------------------------------------------
(* get_udisk_commands *)

MayRead == file.printing /\ ~file.pause /\ length < BufSize - 2 /\ file.next <= FileLines

MediaShort ==   \* variant: the end of the file seen one line early
  /\ In("media") /\ MayRead
  /\ Commit([src |-> FileSource, n |-> file.next], FALSE, -1)
  /\ file' = [file EXCEPT !.next = @ + 1]
  /\ IF file.next >= FileLines - 1 THEN Calls(Frame("ending")) ELSE stack' = stack
  /\ UNCHANGED <<last_N, rx, buffer, injected, hostVars, budget, histVars>>
MediaLine ==
  /\ In("media") /\ MayRead
  /\ Commit([src |-> FileSource, n |-> file.next], FALSE, -1)
  /\ file' = [file EXCEPT !.next = @ + 1]
  /\ IF file.next = FileLines THEN Calls(Frame("ending")) ELSE stack' = stack
  /\ UNCHANGED <<last_N, rx, buffer, injected, hostVars, budget, histVars>>

MediaDone ==
  /\ In("media") /\ ~MayRead
  /\ Becomes(Frame("panel"))
  /\ UNCHANGED <<ringVars, last_N, rx, buffer, injected, file, hostVars, budget, histVars>>

(* fileHasFinish, once the planner has run dry. *)
FileFinished ==
  /\ In("ending")
  /\ file' = [file EXCEPT !.printing = FALSE, !.complete = TRUE]
  /\ Returns
  /\ UNCHANGED <<ringVars, last_N, rx, buffer, injected, hostVars, budget, histVars>>

-----------------------------------------------------------------------------
(* The display, at the end of idle() *)

PanelCommand == [src |-> PanelSource, n |-> budget.entered + 1]

PanelNothing ==
  /\ In("panel")
  /\ Returns
  /\ UNCHANGED <<ringVars, last_N, rx, buffer, injected, file, hostVars, budget, histVars>>

(* storeCmd gives up on a full queue. *)
StoreCmd ==
  /\ In("panel") /\ budget.press > 0 /\ ~full
  /\ Commit(PanelCommand, FALSE, -1)
  /\ budget' = [budget EXCEPT !.press = @ - 1, !.entered = @ + 1]
  /\ Returns
  /\ UNCHANGED <<last_N, rx, buffer, injected, file, hostVars, histVars>>

(* mustStoreCmd waits for room in enqueue_one_now. *)
MustStoreCmd ==
  /\ In("panel") /\ budget.must > 0
  /\ budget' = [budget EXCEPT !.must = @ - 1]
  /\ Becomes(Frame("mustStore"))
  /\ UNCHANGED <<ringVars, last_N, rx, buffer, injected, file, hostVars, histVars>>

MustStored ==
  /\ In("mustStore") /\ ~full
  /\ Commit(PanelCommand, FALSE, -1)
  /\ budget' = [budget EXCEPT !.entered = @ + 1]
  /\ Returns
  /\ UNCHANGED <<last_N, rx, buffer, injected, file, hostVars, histVars>>

(* pauseUdiskPrint, resumeUdiskPrint *)
Hold ==
  /\ In("panel") /\ budget.hold > 0 /\ file.printing
  /\ file' = [file EXCEPT !.pause = ~@]
  /\ budget' = [budget EXCEPT !.hold = @ - 1]
  /\ Returns
  /\ UNCHANGED <<ringVars, last_N, rx, buffer, injected, hostVars, histVars>>

(* menuCallBackStopPrinting, while the print's timer runs: the file is not  *)
(* read any further, and the main loop is to abort the print.              *)
CanStop == Stopping /\ FileLines > 0 /\ ran[EndSource] = 0 /\ ~stopped
StopPrintClearing ==   \* variant: the queue cleared on the spot
  /\ In("panel") /\ CanStop
  /\ file' = [file EXCEPT !.printing = FALSE, !.stop = TRUE]
  /\ stopped' = TRUE
  /\ length' = 0 /\ index_r' = 0 /\ index_w' = 0
  /\ Returns
  /\ UNCHANGED <<command, port, send_ok, last_N, rx, buffer, injected, hostVars, budget, ran,
                 resent>>
StopPrint ==
  /\ In("panel") /\ CanStop
  /\ file' = [file EXCEPT !.printing = FALSE, !.stop = TRUE]
  /\ stopped' = TRUE
  /\ Returns
  /\ UNCHANGED <<ringVars, last_N, rx, buffer, injected, hostVars, budget, ran, resent>>

-----------------------------------------------------------------------------
(* loop() *)

LoopIdle ==
  /\ In("loop")
  /\ stack' = << Frame("jobs"), IdleFrame >>
  /\ UNCHANGED <<ringVars, last_N, rx, buffer, injected, file, hostVars, budget, histVars>>

(* abortSDPrinting: clear() first, then much waiting. *)
AbortUncleared ==   \* variant: the queue left as it is
  /\ In("jobs") /\ file.stop
  /\ injected' = FALSE
  /\ Calls(Frame("stopping"))
  /\ UNCHANGED <<ringVars, last_N, rx, buffer, file, hostVars, budget, histVars>>
AbortPrint ==
  /\ In("jobs") /\ file.stop
  /\ length' = 0 /\ index_r' = 0 /\ index_w' = 0
  /\ injected' = FALSE
  /\ Calls(Frame("stopping"))
  /\ UNCHANGED <<command, port, send_ok, last_N, rx, buffer, file, hostVars, budget, histVars>>

(* Its end: EVENT_GCODE_SD_ABORT is injected, the print's flags are reset. *)
Aborted ==
  /\ In("stopping")
  /\ injected' = TRUE
  /\ file' = [file EXCEPT !.printing = FALSE, !.pause = FALSE, !.stop = FALSE]
  /\ Returns
  /\ UNCHANGED <<ringVars, last_N, rx, buffer, hostVars, budget, histVars>>

(* finishSDPrinting: again next time round if there is no room for M1001. *)
FinishPrintOnce ==   \* variant: tried once only
  /\ In("jobs") /\ ~file.stop
  /\ file' = [file EXCEPT !.complete = FALSE]
  /\ IF file.complete /\ ~full THEN Commit([src |-> EndSource, n |-> 1], FALSE, -1)
                               ELSE UNCHANGED ringVars
  /\ Becomes(Frame("advance"))
  /\ UNCHANGED <<last_N, rx, buffer, injected, hostVars, budget, histVars>>
FinishPrint ==
  /\ In("jobs") /\ ~file.stop
  /\ IF file.complete /\ ~full
     THEN /\ Commit([src |-> EndSource, n |-> 1], FALSE, -1)
          /\ file' = [file EXCEPT !.complete = FALSE]
     ELSE UNCHANGED <<ringVars, file>>
  /\ Becomes(Frame("advance"))
  /\ UNCHANGED <<last_N, rx, buffer, injected, hostVars, budget, histVars>>

(* advance: an injected command comes first. *)
RunInjected ==
  /\ In("advance") /\ injected
  /\ injected' = FALSE
  /\ stack' = << Frame("loop"), Frame("injected") >>
  /\ UNCHANGED <<ringVars, last_N, rx, buffer, file, hostVars, budget, histVars>>

RunCommand ==
  /\ In("advance") /\ ~injected /\ length > 0
  /\ stack' = << Frame("loop"), Frame("handler") >>
  /\ ran' = [ran EXCEPT ![command[index_r].src] = command[index_r].n]
  /\ UNCHANGED <<ringVars, last_N, rx, buffer, injected, file, hostVars, budget, stopped,
                 resent>>

RunNothing ==
  /\ In("advance") /\ ~injected /\ length = 0
  /\ Becomes(Frame("loop"))
  /\ UNCHANGED <<ringVars, last_N, rx, buffer, injected, file, hostVars, budget, histVars>>

(* process_parsed_command ends with ok_to_send; advance then frees the     *)
(* slot.                                                                   *)
HandlerSilent ==   \* variant: no "ok"
  /\ In("handler")
  /\ length' = length - 1 /\ index_r' = NextSlot(index_r)
  /\ Returns
  /\ UNCHANGED <<index_w, command, port, send_ok, last_N, rx, buffer, injected, file, next,
                 unanswered, budget, histVars>>
HandlerDone ==
  /\ In("handler")
  /\ OkToSend
  /\ length' = length - 1 /\ index_r' = NextSlot(index_r)
  /\ Returns
  /\ UNCHANGED <<index_w, command, port, send_ok, last_N, rx, buffer, injected, file, next,
                 budget, histVars>>

(* An injected command has no slot: the "ok" is for the one at the read    *)
(* index, which has not run.                                               *)
InjectedDone ==
  /\ In("injected")
  /\ OkToSend
  /\ Returns
  /\ UNCHANGED <<ringVars, last_N, rx, buffer, injected, file, next, budget, histVars>>

-----------------------------------------------------------------------------
(* The host (external) *)

HostSend(h) ==
  /\ next[h] <= Len(Script) /\ unanswered[h] < Window
  /\ \E good \in BOOLEAN :
       /\ ~good => budget.bad > 0
       /\ rx' = [rx EXCEPT ![h] = Append(@, [n |-> next[h], kind |-> Script[next[h]], good |-> good])]
       /\ budget' = [budget EXCEPT !.bad = IF good THEN @ ELSE @ - 1]
  /\ next' = [next EXCEPT ![h] = @ + 1]
  /\ unanswered' = [unanswered EXCEPT ![h] = @ + 1]
  /\ UNCHANGED <<ringVars, last_N, buffer, injected, stack, file, histVars>>

-----------------------------------------------------------------------------
Init ==
  /\ length = 0 /\ index_r = 0 /\ index_w = 0
  /\ command = [i \in 0 .. BufSize - 1 |-> NoCommand]
  /\ port = [i \in 0 .. BufSize - 1 |-> 0]
  /\ send_ok = [i \in 0 .. BufSize - 1 |-> TRUE]
  /\ last_N = [i \in 0 .. NumSerial |-> 0]
  /\ rx = [i \in 0 .. NumSerial - 1 |-> <<>>]
  /\ buffer = [i \in 0 .. NumSerial - 1 |-> NoLine]
  /\ injected = FALSE
  /\ stack = << Frame("loop") >>
  /\ file = [next |-> 1, printing |-> FileLines > 0, pause |-> FALSE, stop |-> FALSE,
             complete |-> FALSE]
  /\ next = [h \in Hosts |-> 1] /\ unanswered = [h \in Hosts |-> 0]
  /\ budget = [press |-> Presses, must |-> MustPresses, hold |-> Holds, bad |-> Corruptions,
               entered |-> 0]
  /\ ran = [s \in Sources |-> 0]
  /\ stopped = FALSE /\ resent = NoResend

(* What a waiting call waits for always comes. *)
Return == EarlyStopDone \/ FileFinished \/ Aborted \/ HandlerDone \/ InjectedDone

Program ==
  \/ CallIdle \/ Return
  \/ SerialPass \/ SerialDone \/ LineGone \/ BabystepLine \/ LineError \/ AcceptLine
  \/ EarlyStopLine \/ EnqueueAfterStop
  \/ MediaLine \/ MediaDone
  \/ PanelNothing \/ StoreCmd \/ MustStoreCmd \/ MustStored \/ Hold \/ StopPrint
  \/ LoopIdle \/ AbortPrint \/ FinishPrint
  \/ RunInjected \/ RunCommand \/ RunNothing

Next == Program \/ \E h \in Hosts : HostSend(h)

(* The program runs on, and handlers come to their end: the planner drains *)
(* and heaters heat without the main program.                              *)
Spec     == Init /\ [][Next]_vars
FairSpec == Spec /\ WF_vars(Program) /\ SF_vars(Return)

-----------------------------------------------------------------------------
Labels == Waiters \cup {"loop", "jobs", "advance", "serial", "enqueue", "media", "panel", "mustStore"}
Lines  == [n : Nat, kind : {"plain", "M410", "M290"}, good : BOOLEAN]

(* The types of the variables. *)
TypeOK ==
  /\ length \in 0 .. BufSize /\ {index_r, index_w} \subseteq 0 .. BufSize - 1
  /\ \A i \in 0 .. BufSize - 1 :
       /\ command[i] \in [src : Sources, n : Nat]
       /\ port[i] \in -1 .. NumSerial /\ send_ok[i] \in BOOLEAN
  /\ \A i \in 0 .. NumSerial : last_N[i] \in Nat
  /\ \A i \in DOMAIN rx : buffer[i] \in Lines /\ \A k \in DOMAIN rx[i] : rx[i][k] \in Lines
  /\ injected \in BOOLEAN
  /\ \A k \in DOMAIN stack : stack[k].at \in Labels /\ stack[k].left \subseteq DOMAIN rx
  /\ file \in [next : 1 .. FileLines + 1, printing : BOOLEAN, pause : BOOLEAN, stop : BOOLEAN,
               complete : BOOLEAN]
  /\ \A h \in Hosts : next[h] \in Nat /\ unanswered[h] \in 0 .. Window
  /\ stopped \in BOOLEAN
  /\ \A s \in Sources : ran[s] \in Nat

(* However deep the calls nest, the ring is the queue of CommandQueue:     *)
(* commands run to their end in the order they were committed, the slot of *)
(* the one being executed is not given out again, and clear() is never     *)
(* called under a handler, whose slot would otherwise be freed twice ("The *)
(* queue may be reset by a command handler or by code invoked by idle()",  *)
(* queue.cpp:805).                                                         *)
AllCommands == [src : Sources,
                n : 0 .. Len(Script) + FileLines + Presses + MustPresses + 1]
Commands == INSTANCE CommandQueue WITH
  Capacity <- BufSize,
  Commands <- AllCommands,
  queue    <- [k \in 1 .. length |-> command[(index_r + k - 1) % BufSize]],
  busy     <- \E k \in DOMAIN stack : stack[k].at = "handler"
ImplementsCommandQueue == Commands!QSpec

(* Once the stop has been pressed no further command of the file is        *)
(* started, wherever the display ran and however many were queued.         *)
NothingAfterStop == [][ ran'[FileSource] # ran[FileSource] => ~stopped ]_ran

(* M1001, which closes the print, runs after the last command of the file, *)
(* unless the print was stopped while its end was awaited.                 *)
JobComplete ==
  [][ ran'[EndSource] # ran[EndSource] => ran[FileSource] = FileLines \/ stopped ]_ran

(* Every source's commands are executed once each, in the order they came, *)
(* except those a stop of the print has thrown away.                       *)
SourceOrder ==
  [][ \A s \in Sources : ran'[s] # ran[s] =>
        ran'[s] = ran[s] + 1 \/ (stopped /\ ran'[s] > ran[s]) ]_ran

(* ok_to_send: 'Send an "ok" message to the host, indicating that a        *)
(* command was successfully processed' (queue.cpp:285).  Every line a host *)
(* sends is answered, unless a stop of the print has thrown it away.       *)
HostServed ==
  \A h \in Hosts : unanswered[h] > 0 ~> (unanswered[h] = 0 \/ stopped)

(* What a host has sent and the program has not run is what the host waits *)
(* for an answer to: no line and no answer is lost, and none is answered   *)
(* twice.  A stop throws lines away unanswered, and the command it injects *)
(* answers for the slot at the read index, where a line may wait that has  *)
(* not run: from then on a host may be one line ahead of its window, and   *)
(* never more.                                                             *)
Outstanding(h) ==
  Len(rx[h]) + Cardinality({k \in 1 .. length : command[(index_r + k - 1) % BufSize].src = h})
FlowControl ==
  \A h \in Hosts : /\ ~stopped => Outstanding(h) = unanswered[h]
                  /\ Outstanding(h) <= unanswered[h] + 1

(* A print that is being read comes to its M1001, or somebody holds or     *)
(* stops it.                                                               *)
JobEnds == file.printing ~> (ran[EndSource] = 1 \/ file.pause \/ stopped)

(* "Clear the serial line and request a resend of the next expected line   *)
(* number" (queue.h:148): the host whose line was wrong is asked for the   *)
(* number its port expects.                                                *)
ResendRight == resent.to = resent.from /\ resent.n = resent.expected
=============================================================================
