---------------------------- MODULE GCodeHostProofs ----------------------------
(***************************************************************************)
(* Proofs about GCodeQueue where one host is connected and it sends no     *)
(* M410, the conditions under which idle() does not read the serial ports  *)
(* below a pass over them: with two hosts, or with the early stop that     *)
(* idles in the middle of a pass, an accepted line can find the ring full. *)
(***************************************************************************)
EXTENDS GCodeQueueProofs

OneHost   == \A g, h \in Hosts : g = h
NoStops   == \A k \in 1 .. Len(Script) : Script[k] # "M410"
PlainOnly == \A k \in 1 .. Len(Script) : Script[k] = "plain"

-----------------------------------------------------------------------------
(* What arrives is what a host has sent *)

Sent(i, l) == i \in Hosts /\ l.n \in 1 .. Len(Script) /\ l.kind = Script[l.n]
Arrived    == \A i \in Ports : \A k \in 1 .. Len(rx[i]) : Sent(i, rx[i][k])

LEMMA ArrivedLine ==
  ASSUME Types, Arrived, AtLine, rx[Due] # <<>>
  PROVE  Sent(Due, Line) /\ Due \in Ports
<1>1. Due \in Ports /\ rx[Due] \in Seq(HostLines)
  BY DuePort DEF Types, PortsTyped
<1>2. Len(rx[Due]) \in Nat /\ Len(rx[Due]) # 0 /\ Line = rx[Due][1]
  BY <1>1, EmptySeq, LenProperties DEF Line
<1>3. 1 \in 1 .. Len(rx[Due])
  BY <1>2
<1> QED
  BY <1>1, <1>2, <1>3 DEF Arrived

LEMMA TailArrived ==
  ASSUME NEW i, NEW q \in Seq(HostLines), q # <<>>, \A k \in 1 .. Len(q) : Sent(i, q[k])
  PROVE  \A k \in 1 .. Len(Tail(q)) : Sent(i, Tail(q)[k])
<1>1. /\ Len(Tail(q)) = Len(q) - 1 /\ Len(q) \in Nat
      /\ \A k \in 1 .. Len(Tail(q)) : Tail(q)[k] = q[k + 1]
  BY HeadTailProperties, LenProperties
<1>2. \A k \in 1 .. Len(Tail(q)) : k + 1 \in 1 .. Len(q)
  BY <1>1
<1> QED
  BY <1>1, <1>2

LEMMA ArrivedStep ==
  ASSUME Types, Arrived, [Next]_vars
  PROVE  Arrived'
<1>1. PortsTyped /\ HostsTyped /\ Nested(stack)
  BY DEF Types
<1>2. CASE rx' = rx
  BY <1>2 DEF Arrived, Sent
<1>3. CASE BabystepLine \/ AcceptLine \/ EarlyStopLine \/ LineError
  <2>1. AtLine /\ rx[Due] # <<>>
    BY <1>3 DEF BabystepLine, AcceptLine, EarlyStopLine, LineError
  <2>2. Due \in Ports /\ DOMAIN rx = Ports /\ \A j \in Ports : rx[j] \in Seq(HostLines)
    BY <1>1, <2>1, DuePort DEF PortsTyped
  <2>3. \A j \in Ports : rx'[j] \in {rx[j], <<>>} \/ (j = Due /\ rx'[j] = Tail(rx[j]))
    <3>1. CASE LineError
      BY <2>2, <3>1 DEF LineError, LineErrorAt
    <3>2. CASE BabystepLine \/ AcceptLine \/ EarlyStopLine
      <4>1. rx' = [rx EXCEPT ![Due] = Tail(@)]
        BY <3>2 DEF BabystepLine, AcceptLine, EarlyStopLine
      <4> QED
        BY <2>2, <4>1
    <3> QED
      BY <1>3, <3>1, <3>2
  <2>4. ASSUME NEW j \in Ports
        PROVE  \A k \in 1 .. Len(rx'[j]) : Sent(j, rx'[j][k])
    <3>1. CASE rx'[j] = rx[j]
      BY <3>1 DEF Arrived
    <3>2. CASE rx'[j] = <<>>
      <4>1. Len(<<>>) = 0 /\ \A k \in 1 .. 0 : FALSE
        OBVIOUS
      <4> QED
        BY <3>2, <4>1
    <3>3. CASE j = Due /\ rx'[j] = Tail(rx[j])
      BY <2>1, <2>2, <3>3, TailArrived DEF Arrived
    <3> QED
      BY <2>3, <3>1, <3>2, <3>3
  <2> QED
    BY <2>4 DEF Arrived, Sent
<1>4. CASE \E h \in Hosts : HostSend(h)
  <2>1. PICK h \in Hosts : HostSend(h)
    BY <1>4
  <2>2. PICK good \in BOOLEAN :
          rx' = [rx EXCEPT ![h] = Append(@, [n |-> next[h], kind |-> Script[next[h]], good |-> good])]
    BY <2>1 DEF HostSend
  <2> DEFINE l == [n |-> next[h], kind |-> Script[next[h]], good |-> good]
  <2>3. h \in Ports /\ rx[h] \in Seq(HostLines) /\ DOMAIN rx = Ports
    BY <1>1, Constants DEF PortsTyped
  <2>4. next[h] \in 1 .. Len(Script)
    <3>1. next[h] \in 1 .. Len(Script) + 1 /\ next[h] <= Len(Script) /\ Len(Script) \in Nat
      BY <1>1, <2>1, Constants DEF HostsTyped, HostSend
    <3> QED
      BY <3>1
  <2>5. l \in HostLines /\ Sent(h, l)
    BY <1>1, <2>1, <2>4, SentTyped DEF HostSend, Sent
  <2>6. rx' = [rx EXCEPT ![h] = Append(rx[h], l)]
    BY <2>2
  <2> HIDE DEF l
  <2>7. ASSUME NEW j \in Ports
        PROVE  \A k \in 1 .. Len(rx'[j]) : Sent(j, rx'[j][k])
    <3>1. CASE j # h
      BY <2>3, <2>6, <2>7, <3>1 DEF Arrived
    <3>2. CASE j = h
      <4>1. rx'[j] = Append(rx[h], l)
        BY <2>3, <2>6, <3>2
      <4>2. /\ Len(rx'[j]) = Len(rx[h]) + 1 /\ Len(rx[h]) \in Nat /\ rx'[j][Len(rx[h]) + 1] = l
            /\ \A k \in 1 .. Len(rx[h]) : rx'[j][k] = rx[h][k]
        BY <2>3, <2>5, <4>1, AppendProperties, LenProperties
      <4>3. \A k \in 1 .. Len(rx'[j]) : k \in 1 .. Len(rx[h]) \/ k = Len(rx[h]) + 1
        BY <4>2
      <4> QED
        BY <2>3, <2>5, <3>2, <4>2, <4>3 DEF Arrived
    <3> QED
      BY <3>1, <3>2
  <2> QED
    BY <2>7 DEF Arrived, Sent
<1>5. CASE \/ CallIdle \/ EarlyStopDone \/ FileFinished \/ Aborted \/ HandlerDone \/ InjectedDone
           \/ SerialPass \/ SerialDone \/ LineGone \/ EnqueueAfterStop \/ MediaLine \/ MediaDone
           \/ UNCHANGED vars
  BY <1>2, <1>5 DEF CallIdle, EarlyStopDone, FileFinished, Aborted, HandlerDone, InjectedDone,
     SerialPass, SerialDone, LineGone, EnqueueAfterStop, MediaLine, MediaDone, vars
<1>6. CASE \/ PanelNothing \/ StoreCmd \/ MustStoreCmd \/ MustStored \/ Hold \/ StopPrint
           \/ LoopIdle \/ AbortPrint \/ FinishPrint \/ RunInjected \/ RunCommand \/ RunNothing
  BY <1>2, <1>6 DEF PanelNothing, StoreCmd, MustStoreCmd, MustStored, Hold, StopPrint,
     LoopIdle, AbortPrint, FinishPrint, RunInjected, RunCommand, RunNothing
<1> QED
  BY <1>3, <1>4, <1>5, <1>6 DEF Next, Program, Return

-----------------------------------------------------------------------------
(* One reader of the ports *)

(* A pass over the ports is never called into: it is the innermost call,   *)
(* and where a line of it is still due there is room for it.               *)
Passing(f, last) ==
  f.at = "serial" => last /\ (f.left # {} => f.left \subseteq Hosts /\ ~full)
OneReader ==
  \A k \in 1 .. Len(stack) : stack[k].at \notin {"enqueue", "quickstop"}
                               /\ Passing(stack[k], k = Len(stack))

LEMMA ReaderTop ==
  ASSUME Nested(stack), OneReader
  PROVE  /\ ~In("enqueue") /\ ~In("quickstop")
         /\ AtLine => Top.left \subseteq Hosts /\ ~full
         /\ Top.at # "serial" => \A k \in 1 .. Len(stack) : stack[k].at # "serial"
<1>1. Top = stack[Len(stack)] /\ Len(stack) \in 1 .. Len(stack)
  <2>1. Top = stack[Len(stack)] /\ Len(stack) \in Nat /\ Len(stack) > 0
    BY TopFrame DEF Top
  <2> QED
    BY <2>1
<1> QED
  BY <1>1 DEF OneReader, Passing, In, AtLine

LEMMA ReaderReplaced ==
  ASSUME Nested(stack), OneReader, NEW f \in FrameT, Becomes(f),
         f.at \notin {"enqueue", "quickstop"},
         f.at = "serial" /\ f.left # {} => f.left \subseteq Hosts /\ ~full'
  PROVE  OneReader'
<1>1. stack \in Seq(FrameT) /\ Len(stack) \in Nat /\ Len(stack) > 0
  BY TopFrame DEF Nested
<1>2. /\ Front(stack) \in Seq(FrameT) /\ Len(Front(stack)) = Len(stack) - 1
      /\ \A k \in 1 .. Len(stack) - 1 : Front(stack)[k] = stack[k]
  BY <1>1, FrontOf
<1>3. /\ Len(stack') = Len(stack) /\ stack'[Len(stack)] = f
      /\ \A k \in 1 .. Len(stack) - 1 : stack'[k] = stack[k]
  BY <1>1, <1>2, AppendProperties DEF Becomes
<1>4. \A k \in 1 .. Len(stack) : k = Len(stack) \/ (k \in 1 .. Len(stack) - 1 /\ k # Len(stack))
  BY <1>1
<1>5. ASSUME NEW k \in 1 .. Len(stack')
      PROVE  stack'[k].at \notin {"enqueue", "quickstop"}
             /\ (stack'[k].at = "serial" => k = Len(stack')
                   /\ (stack'[k].left # {} => stack'[k].left \subseteq Hosts /\ ~full'))
  <2>1. CASE k = Len(stack)
    BY <1>3, <2>1
  <2>2. CASE k \in 1 .. Len(stack) - 1 /\ k # Len(stack)
    <3>1. k \in 1 .. Len(stack) /\ stack'[k] = stack[k]
      BY <1>3, <1>5, <2>2
    <3> QED
      BY <2>2, <3>1 DEF OneReader, Passing
  <2> QED
    BY <1>3, <1>4, <2>1, <2>2
<1> QED
  BY <1>5 DEF OneReader, Passing

LEMMA ReaderPushed ==
  ASSUME Nested(stack), OneReader, Top.at # "serial", NEW f \in FrameT, Calls(f),
         f.at \notin {"enqueue", "quickstop"}, f.left = {}
  PROVE  OneReader'
<1>1. stack \in Seq(FrameT) /\ Len(stack) \in Nat
  BY TopFrame DEF Nested
<1>2. /\ Len(stack') = Len(stack) + 1 /\ stack'[Len(stack) + 1] = f
      /\ \A k \in 1 .. Len(stack) : stack'[k] = stack[k]
  BY <1>1, AppendProperties DEF Calls
<1>3. \A k \in 1 .. Len(stack) + 1 : k = Len(stack) + 1 \/ k \in 1 .. Len(stack)
  BY <1>1
<1>4. \A k \in 1 .. Len(stack) : stack[k].at \notin {"enqueue", "quickstop", "serial"}
  BY ReaderTop DEF OneReader
<1> QED
  BY <1>2, <1>3, <1>4 DEF OneReader, Passing

LEMMA ReaderPopped ==
  ASSUME Nested(stack), OneReader, Returns
  PROVE  OneReader'
<1>1. stack \in Seq(FrameT) /\ Len(stack) \in Nat /\ Len(stack) > 0
  BY TopFrame DEF Nested
<1>2. Len(stack') = Len(stack) - 1 /\ \A k \in 1 .. Len(stack) - 1 : stack'[k] = stack[k]
  BY <1>1, FrontOf DEF Returns
<1>3. \A k \in 1 .. Len(stack) - 1 : k \in 1 .. Len(stack) /\ k # Len(stack)
  BY <1>1
<1>4. \A k \in 1 .. Len(stack) - 1 : stack[k].at \notin {"enqueue", "quickstop", "serial"}
  BY <1>3 DEF OneReader, Passing
<1> QED
  BY <1>2, <1>4 DEF OneReader, Passing

LEMMA ReaderTwo ==
  ASSUME NEW a \in FrameT, NEW b \in FrameT, stack' = <<a, b>>, a.at # "serial", b.left = {},
         {a.at, b.at} \cap {"enqueue", "quickstop"} = {}
  PROVE  OneReader'
<1>1. Len(stack') = 2 /\ stack'[1] = a /\ stack'[2] = b
  OBVIOUS
<1>2. \A k \in 1 .. 2 : k = 1 \/ k = 2
  OBVIOUS
<1> QED
  BY <1>1, <1>2 DEF OneReader, Passing

(* With one host all lines that are due are one line.                      *)
LEMMA OneDue ==
  ASSUME OneHost, Nested(stack), AtLine, Top.left \subseteq Hosts
  PROVE  RestOfPass.left = {}
<1>1. Due \in Top.left /\ Top \in FrameT
  BY DuePort
<1>2. \A i \in Top.left : i = Due
  BY <1>1 DEF OneHost
<1>3. RestOfPass.left = Top.left \ {Due}
  BY <1>1 DEF RestOfPass, FrameT
<1> QED
  BY <1>2, <1>3

LEMMA NoEarlyStop ==
  ASSUME NoStops, Types, Arrived, OneReader
  PROVE  ~EarlyStopLine /\ ~EarlyStopDone /\ ~EnqueueAfterStop
<1>1. ~EarlyStopLine
  <2> SUFFICES ASSUME EarlyStopLine PROVE FALSE
    OBVIOUS
  <2>1. AtLine /\ rx[Due] # <<>> /\ Line.kind = "M410"
    BY DEF EarlyStopLine
  <2>2. Sent(Due, Line)
    BY <2>1, ArrivedLine
  <2> QED
    BY <2>1, <2>2 DEF Sent, NoStops
<1>2. ~In("quickstop") /\ ~In("enqueue")
  BY ReaderTop DEF Types
<1> QED
  BY <1>1, <1>2 DEF EarlyStopDone, EnqueueAfterStop

LEMMA ReaderSerial ==
  ASSUME OneHost, Types, Arrived, OneReader,
         SerialPass \/ SerialDone \/ LineGone \/ BabystepLine \/ LineError \/ AcceptLine
  PROVE  OneReader'
<1>1. Nested(stack) /\ PortsTyped
  BY DEF Types
<1>2. Top \in FrameT
  BY <1>1, TopFrame DEF Top
<1>3. CASE SerialDone \/ BabystepLine \/ LineError
  <2>1. Becomes(Frame("media"))
    BY <1>3 DEF SerialDone, BabystepLine, LineError
  <2>2. Frame("media") \in FrameT /\ Frame("media").at = "media"
    BY Frames
  <2> QED
    BY <1>1, <2>1, <2>2, ReaderReplaced
<1>4. CASE SerialPass
  <2>1. PICK ends \in SUBSET Waiting \ {{}} : Becomes([Top EXCEPT !.left = ends])
    BY <1>4 DEF SerialPass
  <2>2. Waiting \subseteq Hosts
    <3> SUFFICES ASSUME NEW i \in Waiting PROVE i \in Hosts
      OBVIOUS
    <3>1. i \in Ports /\ rx[i] # <<>> /\ rx[i] \in Seq(HostLines)
      BY <1>1 DEF Waiting, PortsTyped
    <3>2. Len(rx[i]) \in Nat /\ Len(rx[i]) # 0
      BY <3>1, EmptySeq, LenProperties
    <3>3. 1 \in 1 .. Len(rx[i])
      BY <3>2
    <3> QED
      BY <3>1, <3>3 DEF Arrived, Sent
  <2>3. ends \subseteq Hosts /\ Hosts \subseteq Ports
    BY <2>1, <2>2, Constants
  <2> DEFINE f == [Top EXCEPT !.left = ends]
  <2>4. f \in FrameT /\ f.at = "serial" /\ f.left = ends
    BY <1>2, <1>4, <2>3 DEF FrameT, SerialPass, In
  <2>5. Becomes(f)
    BY <2>1
  <2>6. ~full'
    BY <1>4 DEF SerialPass, full, ringVars
  <2> HIDE DEF f
  <2> QED
    BY <1>1, <2>3, <2>4, <2>5, <2>6, ReaderReplaced
<1>5. CASE LineGone \/ AcceptLine
  <2>1. AtLine /\ Becomes(RestOfPass) /\ Top.at = "serial"
    BY <1>5 DEF LineGone, AcceptLine, AtLine, In
  <2>2. Top.left \subseteq Hosts
    BY <1>1, <2>1, ReaderTop
  <2>3. RestOfPass \in FrameT /\ RestOfPass.at = "serial" /\ RestOfPass.left = {}
    BY <1>1, <2>1, <2>2, DuePort, OneDue
  <2> QED
    BY <1>1, <2>1, <2>3, ReaderReplaced
<1> QED
  BY <1>3, <1>4, <1>5

LEMMA ReaderStep ==
  ASSUME OneHost, NoStops, Types, Arrived, OneReader, [Next]_vars
  PROVE  OneReader'
<1>1. Nested(stack)
  BY DEF Types
<1>2. \A at \in Labels : Frame(at) \in FrameT /\ Frame(at).at = at /\ Frame(at).left = {}
  BY Frames DEF Frame
<1>3. {"loop", "jobs", "advance", "serial", "enqueue", "media", "panel", "mustStore", "handler",
       "injected", "quickstop", "ending", "stopping"} = Labels
  BY Frames
<1>4. IdleFrame \in FrameT /\ IdleFrame.left = {} /\ IdleFrame.at \notin {"enqueue", "quickstop"}
  BY Frames DEF IdleFrame, Frame
<1>5. CASE SerialPass \/ SerialDone \/ LineGone \/ BabystepLine \/ LineError \/ AcceptLine
  BY <1>5, ReaderSerial
<1>6. CASE EarlyStopLine \/ EnqueueAfterStop \/ EarlyStopDone
  BY <1>6, NoEarlyStop
<1>7. CASE CallIdle
  <2>1. Calls(IdleFrame) /\ Top.at # "serial"
    BY <1>7 DEF CallIdle, Waiters, In
  <2> QED
    BY <1>1, <1>4, <2>1, ReaderPushed
<1>8. CASE MediaLine \/ AbortPrint
  <2>1. \/ stack' = stack /\ UNCHANGED rx /\ Top.at # "serial"
        \/ Top.at # "serial" /\ \E at \in {"ending", "stopping"} : Calls(Frame(at))
    BY <1>8 DEF MediaLine, AbortPrint, In
  <2>2. CASE stack' = stack /\ Top.at # "serial"
    <3>1. \A k \in 1 .. Len(stack) : stack[k].at \notin {"enqueue", "quickstop", "serial"}
      BY <1>1, <2>2, ReaderTop DEF OneReader
    <3> QED
      BY <2>2, <3>1 DEF OneReader, Passing
  <2>3. CASE Top.at # "serial" /\ \E at \in {"ending", "stopping"} : Calls(Frame(at))
    BY <1>1, <1>2, <1>3, <2>3, ReaderPushed
  <2> QED
    BY <2>1, <2>2, <2>3
<1>9. CASE \/ FileFinished \/ Aborted \/ HandlerDone \/ InjectedDone \/ PanelNothing
           \/ StoreCmd \/ MustStored \/ Hold \/ StopPrint
  <2>1. Returns
    BY <1>9 DEF FileFinished, Aborted, HandlerDone, InjectedDone, PanelNothing, StoreCmd,
       MustStored, Hold, StopPrint
  <2> QED
    BY <1>1, <2>1, ReaderPopped
<1>10. CASE MediaDone \/ MustStoreCmd \/ FinishPrint \/ RunNothing
  <2>1. \E at \in {"panel", "mustStore", "advance", "loop"} : Becomes(Frame(at))
    BY <1>10 DEF MediaDone, MustStoreCmd, FinishPrint, RunNothing
  <2> QED
    BY <1>1, <1>2, <1>3, <2>1, ReaderReplaced
<1>11. CASE LoopIdle
  <2>1. stack' = <<Frame("jobs"), IdleFrame>>
    BY <1>11 DEF LoopIdle
  <2> QED
    BY <1>2, <1>3, <1>4, <2>1, ReaderTwo
<1>12. CASE RunInjected \/ RunCommand
  <2>1. \E at \in {"injected", "handler"} : stack' = <<Frame("loop"), Frame(at)>>
    BY <1>12 DEF RunInjected, RunCommand
  <2>2. PICK at \in {"injected", "handler"} : stack' = <<Frame("loop"), Frame(at)>>
    BY <2>1
  <2>3. /\ Frame("loop") \in FrameT /\ Frame("loop").at = "loop"
        /\ Frame(at) \in FrameT /\ Frame(at).at = at /\ Frame(at).left = {}
    BY <1>2, <1>3
  <2> QED
    BY <2>2, <2>3, ReaderTwo
<1>13. CASE UNCHANGED vars \/ \E h \in Hosts : HostSend(h)
  <2>1. stack' = stack /\ length' = length
    BY <1>13 DEF vars, ringVars, HostSend
  <2> QED
    BY <2>1 DEF OneReader, Passing, full
<1> QED
  BY <1>5, <1>6, <1>7, <1>8, <1>9, <1>10, <1>11, <1>12, <1>13 DEF Next, Program, Return

LEMMA ReaderInit ==
  ASSUME Init
  PROVE  Arrived /\ OneReader
<1>1. \A i \in Ports : rx[i] = <<>>
  BY DEF Init, Ports
<1>2. Len(<<>>) = 0 /\ \A k \in 1 .. 0 : FALSE
  OBVIOUS
<1>3. Arrived
  BY <1>1, <1>2 DEF Arrived
<1>4. stack = <<Frame("loop")>> /\ Frame("loop").at = "loop"
  BY Frames DEF Init
<1>5. Len(stack) = 1 /\ stack[1].at = "loop" /\ \A k \in 1 .. 1 : k = 1
  BY <1>4
<1>6. OneReader
  BY <1>5 DEF OneReader, Passing
<1> QED
  BY <1>3, <1>6

LEMMA ReaderHolds ==
  ASSUME OneHost, NoStops
  PROVE  Spec => [](Types /\ Arrived /\ OneReader)
<1>1. Init => Types /\ Arrived /\ OneReader
  BY TypesInit, ReaderInit
<1>2. Types /\ Arrived /\ OneReader /\ [Next]_vars => (Types /\ Arrived /\ OneReader)'
  BY TypesStep, ArrivedStep, ReaderStep
<1> QED
  BY <1>1, <1>2, PTL DEF Spec

-----------------------------------------------------------------------------
(* The order of the commands *)

LEMMA PlainStops ==
  ASSUME PlainOnly
  PROVE  NoStops
BY DEF PlainOnly, NoStops

LEMMA NumberPlain ==
  ASSUME PlainOnly, NEW n \in 1 .. Len(Script)
  PROVE  Number(n) = n
<1>1. n \in Nat /\ n > 0 /\ \A k \in 1 .. n : k \in 1 .. Len(Script)
  BY Constants
<1>2. {k \in 1 .. n : Script[k] # "M410"} = 1 .. n
  BY <1>1 DEF PlainOnly
<1>3. Cardinality(1 .. n) = n
  BY <1>1, FS_Interval
<1> QED
  BY <1>2, <1>3 DEF Number

(* What is queued of a port's lines: those accepted and not yet started.   *)
PortQueued == \A i \in Ports : Queued(Ready, i, ran[i], last_N[i], ~stopped)

LEMMA NumberSteps ==
  ASSUME [Next]_vars, ~AcceptLine
  PROVE  last_N' = last_N
<1>1. CASE \/ CallIdle \/ EarlyStopDone \/ FileFinished \/ Aborted \/ HandlerDone \/ InjectedDone
           \/ SerialPass \/ SerialDone \/ LineGone \/ BabystepLine \/ LineError
           \/ EarlyStopLine \/ EnqueueAfterStop \/ MediaLine \/ MediaDone \/ UNCHANGED vars
  BY <1>1 DEF CallIdle, EarlyStopDone, FileFinished, Aborted, HandlerDone, InjectedDone,
     SerialPass, SerialDone, LineGone, BabystepLine, LineError, EarlyStopLine,
     EnqueueAfterStop, MediaLine, MediaDone, vars
<1>2. CASE \/ PanelNothing \/ StoreCmd \/ MustStoreCmd \/ MustStored \/ Hold \/ StopPrint
           \/ LoopIdle \/ AbortPrint \/ FinishPrint \/ RunInjected \/ RunCommand \/ RunNothing
           \/ \E h \in Hosts : HostSend(h)
  BY <1>2 DEF PanelNothing, StoreCmd, MustStoreCmd, MustStored, Hold, StopPrint, LoopIdle,
     AbortPrint, FinishPrint, RunInjected, RunCommand, RunNothing, HostSend
<1> QED
  BY <1>1, <1>2 DEF Next, Program, Return

(* The line accepted is the one after the last, and it is committed.       *)
LEMMA NextAccepted ==
  ASSUME PlainOnly, Types, Arrived, OneReader, AcceptLine
  PROVE  /\ Due \in Ports /\ Line.n = last_N[Due] + 1
         /\ last_N' = [last_N EXCEPT ![Due] = last_N[Due] + 1]
         /\ length' = length + 1 /\ ~RunCommand /\ ~AbortPrint
<1>1. AtLine /\ rx[Due] # <<>> /\ Accepted(Line, Due) /\ EnqueueBuffer(Due, Line)
      /\ last_N' = [last_N EXCEPT ![Due] = Number(Line.n)]
  BY DEF AcceptLine
<1>2. Sent(Due, Line) /\ Due \in Ports
  BY <1>1, ArrivedLine
<1>3. Number(Line.n) = Line.n
  BY <1>2, NumberPlain DEF Sent
<1>4. Line.n = last_N[Due] + 1
  BY <1>1, <1>3 DEF Accepted
<1>5. ~full
  BY <1>1, ReaderTop DEF Types
<1>6. length' = length + 1
  BY <1>1, <1>5 DEF EnqueueBuffer, Enqueue, Commit
<1>7. ~RunCommand /\ ~AbortPrint
  BY <1>1 DEF AtLine, In, RunCommand, AbortPrint
<1> QED
  BY <1>1, <1>2, <1>3, <1>4, <1>6, <1>7

LEMMA PortQueuedStep ==
  ASSUME PlainOnly, Types, StopHolds, Arrived, OneReader, PortQueued, [Next]_vars
  PROVE  PortQueued'
<1>1. PortsTyped /\ ~EnqueueAfterStop
  BY PlainStops, NoEarlyStop DEF Types
<1>2. Ports \subseteq Sources /\ Ports \subseteq 0 .. NumSerial
  BY Constants DEF Ports, Sources
<1>3. ASSUME NEW i \in Ports
      PROVE  Queued(Ready', i, ran'[i], last_N'[i], ~stopped')
  <2>1. last_N[i] \in Nat /\ i \in Sources /\ Queued(Ready, i, ran[i], last_N[i], ~stopped)
    BY <1>1, <1>2 DEF PortsTyped, PortQueued
  <2>2. \/ last_N'[i] = last_N[i] /\ (AcceptLine => Due # i)
        \/ AcceptLine /\ Due = i /\ last_N'[i] = last_N[i] + 1 /\ Line.n = last_N[i] + 1
    <3>1. CASE AcceptLine
      <4>1. /\ Due \in Ports /\ Line.n = last_N[Due] + 1
            /\ last_N' = [last_N EXCEPT ![Due] = last_N[Due] + 1]
        BY <3>1, NextAccepted
      <4>2. last_N'[i] = IF i = Due THEN last_N[Due] + 1 ELSE last_N[i]
        BY <1>1, <1>2, <4>1 DEF PortsTyped
      <4> QED
        BY <3>1, <4>1, <4>2
    <3>2. CASE ~AcceptLine
      BY <3>2, NumberSteps
    <3> QED
      BY <3>1, <3>2
  <2>3. last_N'[i] \in Nat
    BY <2>1, <2>2
  <2>4. \A c \in AllCommands : Owner(c) /\ c.src = i =>
          c.n = last_N[i] + 1 /\ last_N'[i] = last_N[i] + 1
    <3> TAKE c \in AllCommands
    <3> HAVE Owner(c) /\ c.src = i
    <3>1. AcceptLine /\ c.src = Due /\ c.n = Line.n
      BY <1>1, OwnerOf
    <3> QED
      BY <2>2, <3>1
  <2>5. \/ last_N'[i] = last_N[i]
        \/ /\ length' = length + 1 /\ ~RunCommand /\ ~AbortPrint
           /\ \A c \in AllCommands : Owner(c) => c.src = i
    <3>1. CASE AcceptLine /\ Due = i
      <4>1. length' = length + 1 /\ ~RunCommand /\ ~AbortPrint
        BY <3>1, NextAccepted
      <4>2. \A c \in AllCommands : Owner(c) => c.src = i
        BY <3>1, OwnSource
      <4> QED
        BY <4>1, <4>2
    <3> QED
      BY <2>2, <3>1
  <2> QED
    BY <2>1, <2>3, <2>4, <2>5, QueuedStep
<1> QED
  BY <1>3 DEF PortQueued

LEMMA PortQueuedInit ==
  ASSUME Init
  PROVE  PortQueued
<1>1. Ready = <<>> /\ Len(<<>>) = 0 /\ \A k \in 1 .. 0 : FALSE
  BY ReadyInit
<1>2. \A i \in Ports : ran[i] = 0 /\ last_N[i] = 0
  BY Constants DEF Init, Ports, Sources
<1>3. 0 <= 0 /\ \A n \in 0 + 1 .. 0 : FALSE
  OBVIOUS
<1>4. \A i \in Ports : Queued(<<>>, i, 0, 0, ~stopped)
  BY <1>1, <1>3 DEF Queued
<1> QED
  BY <1>1, <1>2, <1>4 DEF PortQueued

(* The command started is the next of its source.                          *)
LEMMA NextStarted ==
  ASSUME Types, [Next]_vars, NEW s \in Sources, NEW hi \in Nat,
         Queued(Ready, s, ran[s], hi, ~stopped), ran'[s] # ran[s]
  PROVE  ran'[s] = ran[s] + 1 \/ (stopped /\ ran'[s] > ran[s])
<1>1. /\ Ready # <<>> /\ Head(Ready).src = s /\ ran'[s] = Head(Ready).n
      /\ Ready \in Seq(AllCommands)
  BY StartsFirst
<1>2. ran[s] \in Nat
  BY DEF Types, HistoryTyped
<1>3. Head(Ready).n > ran[s] /\ (~stopped => Head(Ready).n = ran[s] + 1)
  BY <1>1, <1>2, QueuedTail
<1> QED
  BY <1>1, <1>3

LEMMA OrderStep ==
  ASSUME Types, StopHolds, EndLast, FileQueued, PanelQueued, PortQueued, [Next]_vars,
         NEW s \in Sources, ran'[s] # ran[s]
  PROVE  ran'[s] = ran[s] + 1 \/ (stopped /\ ran'[s] > ran[s])
<1>1. s \in Ports \/ s = FileSource \/ s = PanelSource \/ s = EndSource
  BY Constants DEF Sources, Ports, FileSource, PanelSource, EndSource
<1>2. CASE s \in Ports
  <2>1. last_N[s] \in Nat
    BY <1>2, Constants DEF Types, PortsTyped, Ports
  <2> QED
    BY <1>2, <2>1, NextStarted DEF PortQueued
<1>3. CASE s = FileSource
  <2>1. file.next - 1 \in Nat
    BY Constants DEF Types, FileTyped
  <2> QED
    BY <1>3, <2>1, NextStarted DEF FileQueued
<1>4. CASE s = PanelSource
  <2>1. budget.entered \in Nat
    BY DEF Types, BudgetTyped, Budgets
  <2> QED
    BY <1>4, <2>1, NextStarted DEF PanelQueued
<1>5. CASE s = EndSource
  <2>1. /\ Ready # <<>> /\ Head(Ready).src = EndSource /\ ran'[s] = Head(Ready).n
        /\ Ready \in Seq(AllCommands)
    BY <1>5, StartsFirst
  <2>2. Len(Ready) \in Nat /\ Len(Ready) # 0 /\ Ready[1] = Head(Ready)
    BY <2>1, EmptySeq, LenProperties
  <2>3. 1 \in 1 .. Len(Ready)
    BY <2>2
  <2>4. Head(Ready).n = 1
    BY <2>1, <2>2, <2>3 DEF EndLast
  <2>5. ran[s] = 0
    BY <1>5, <2>1, <2>4 DEF EndLast
  <2> QED
    BY <2>1, <2>4, <2>5
<1> QED
  BY <1>1, <1>2, <1>3, <1>4, <1>5

(* One host sends lines that are all queued, beside the display, the file  *)
(* and its end: the commands of every source are executed once each, in    *)
(* the order they came, whichever handlers, waits and stops they are read  *)
(* under, and left out only after a stop has thrown them away.             *)
THEOREM SourcesInOrder ==
  ASSUME OneHost, PlainOnly
  PROVE  Spec => SourceOrder
<1>1. NoStops
  BY PlainStops
<1>2. Spec => [](Types /\ Arrived /\ OneReader)
  BY <1>1, ReaderHolds
<1>3. Types /\ StopHolds /\ Arrived /\ OneReader /\ PortQueued /\ [Next]_vars => PortQueued'
  BY PortQueuedStep
<1>4. Types /\ StopHolds /\ EndLast /\ FileQueued /\ PanelQueued /\ PortQueued /\ [Next]_vars =>
        [\A s \in Sources : ran'[s] # ran[s] =>
           ran'[s] = ran[s] + 1 \/ (stopped /\ ran'[s] > ran[s])]_ran
  BY OrderStep
<1> QED
  BY <1>2, <1>3, <1>4, PortQueuedInit, OrderHolds, PTL DEF Spec, SourceOrder
=============================================================================
