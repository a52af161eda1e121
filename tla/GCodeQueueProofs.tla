-------------------------- MODULE GCodeQueueProofs --------------------------
(***************************************************************************)
(* Proofs about GCodeQueue, for every number of ports and hosts, every     *)
(* length of the queue, of the file and of what the hosts send, and calls  *)
(* of idle() nested to any depth.                                          *)
(***************************************************************************)
EXTENDS GCodeQueue, SequenceTheorems, FiniteSetTheorems, WellFoundedInduction, TLAPS

-----------------------------------------------------------------------------
(* Constants *)

Slots == 0 .. BufSize - 1
Ports == 0 .. NumSerial - 1

LEMMA Constants ==
  /\ BufSize \in Nat /\ BufSize > 2 /\ NumSerial \in Nat /\ NumSerial > 0
  /\ Hosts \subseteq Ports /\ Window \in Nat /\ Window > 0
  /\ Script \in Seq({"plain", "M410", "M290"}) /\ Len(Script) \in Nat
  /\ Corruptions \in Nat /\ FileLines \in Nat /\ Presses \in Nat /\ MustPresses \in Nat
  /\ Holds \in Nat /\ Stopping \in BOOLEAN
BY QueueAssumption, LenProperties DEF Ports

(* A set of ports that is not empty has a first one.                       *)
LEMMA FirstPort ==
  ASSUME NEW P \in SUBSET Ports, P # {}
  PROVE  \E i \in P : \A j \in P : i <= j
<1>1. P \subseteq Nat
  BY Constants DEF Ports
<1>2. PICK i \in P : \A j \in P : <<j, i>> \notin OpToRel(<, Nat)
  BY <1>1, NatLessThanWellFounded, WFMin
<1>3. \A j \in P : ~(j < i)
  BY <1>1, <1>2 DEF OpToRel
<1> QED
  BY <1>1, <1>3
-----------------------------------------------------------------------------
(* The calls under way *)

FrameT == [at : Labels, left : SUBSET Ports]
Bottom == {"loop", "jobs", "advance"}
Runs   == {"handler", "injected", "stopping"}

(* loop() is at the bottom, on it whatever runs a command or stops a print,*)
(* and idle() is called from above.                                        *)
Nested(s) ==
  /\ s \in Seq(FrameT) /\ Len(s) > 0
  /\ s[1].at \in Bottom /\ (Len(s) > 1 => s[1].at # "advance")
  /\ \A k \in 1 .. Len(s) : k > 1 => s[k].at \notin Bottom
  /\ \A k \in 1 .. Len(s) : s[k].at \in Runs => k = 2
  /\ \A k \in 1 .. Len(s) : s[k].at = "enqueue" => s[k].left # {}

(* Whether such a call is under way, and which ones are.                   *)
Has(s, at)   == \E k \in 1 .. Len(s) : s[k].at = at
Depths(s)    == {k \in 1 .. Len(s) : s[k].at = "mustStore"}

LEMMA FrontOf ==
  ASSUME NEW s \in Seq(FrameT), Len(s) > 0
  PROVE  /\ Front(s) \in Seq(FrameT) /\ Len(Front(s)) = Len(s) - 1
         /\ \A k \in 1 .. Len(s) - 1 : Front(s)[k] = s[k]
         /\ Last(s) = s[Len(s)] /\ Last(s) \in FrameT /\ Len(s) \in Nat
<1>1. Len(s) \in Nat /\ s[Len(s)] \in FrameT
  BY LenProperties
<1>2. 1 \in 1 .. Len(s) + 1 /\ Len(s) - 1 \in 0 .. Len(s) /\ 1 <= (Len(s) - 1) + 1
  BY <1>1
<1>2a. \A i \in 1 .. Len(s) - 1 : s[i] \in FrameT
  BY <1>1, LenProperties
<1>2b. Len(s) - 1 \in Int /\ 1 \in Int
  BY <1>1
<1> DEFINE f == SubSeq(s, 1, Len(s) - 1)
<1>2c. /\ f \in Seq(FrameT) /\ Len(f) = IF 1 <= Len(s) - 1 THEN Len(s) - 1 - 1 + 1 ELSE 0
       /\ \A k \in 1 .. Len(s) - 1 - 1 + 1 : f[k] = s[1 + k - 1]
  BY <1>2a, <1>2b, SubSeqProperties
<1> HIDE DEF f
<1>3. f \in Seq(FrameT) /\ Len(f) = Len(s) - 1
  <2>1. \A n \in Nat : n > 0 => (IF 1 <= n - 1 THEN n - 1 - 1 + 1 ELSE 0) = n - 1
    OBVIOUS
  <2> QED
    BY <1>1, <1>2c, <2>1
<1>4. \A k \in 1 .. Len(s) - 1 : f[k] = s[k]
  <2> TAKE k \in 1 .. Len(s) - 1
  <2>1. k \in 1 .. Len(s) - 1 - 1 + 1 /\ 1 + k - 1 = k
    BY <1>1
  <2> QED
    BY <1>2c, <2>1
<1>5. Front(s) = f
  BY DEF Front, f
<1> QED
  BY <1>1, <1>3, <1>4, <1>5 DEF Last

LEMMA TopFrame ==
  ASSUME NEW s, Nested(s)
  PROVE  /\ Last(s) = s[Len(s)] /\ Last(s) \in FrameT /\ Len(s) \in Nat /\ Len(s) > 0
         /\ Last(s).at \in Bottom <=> Len(s) = 1
         /\ Last(s).at \in Runs => Len(s) = 2
         /\ Last(s).at = "enqueue" => Last(s).left # {}
         /\ Has(s, Last(s).at)
<1>1. s \in Seq(FrameT) /\ Len(s) > 0
  BY DEF Nested
<1>2. Last(s) = s[Len(s)] /\ Last(s) \in FrameT /\ Len(s) \in Nat
  BY <1>1, FrontOf
<1>3. Len(s) \in 1 .. Len(s) /\ (Len(s) > 1 \/ Len(s) = 1)
  <2>1. \A n \in Nat : n > 0 => n \in 1 .. n /\ (n > 1 \/ n = 1)
    OBVIOUS
  <2> QED
    BY <1>1, <1>2, <2>1
<1>4. Last(s).at \in Bottom <=> Len(s) = 1
  BY <1>1, <1>2, <1>3 DEF Nested
<1>5. (Last(s).at \in Runs => Len(s) = 2) /\ (Last(s).at = "enqueue" => Last(s).left # {})
  BY <1>2, <1>3 DEF Nested
<1>6. Has(s, Last(s).at)
  BY <1>2, <1>3 DEF Has
<1> QED
  BY <1>1, <1>2, <1>4, <1>5, <1>6

(* A call, the next step of the innermost call, a return.                  *)
LEMMA Pushed ==
  ASSUME NEW s, Nested(s), NEW f \in FrameT, f.at \notin Bottom,
         f.at \in Runs => Len(s) = 1, f.at # "enqueue", Last(s).at # "advance"
  PROVE  /\ Nested(Append(s, f))
         /\ \A x : Has(Append(s, f), x) <=> Has(s, x) \/ f.at = x
         /\ Depths(Append(s, f)) = Depths(s) \cup (IF f.at = "mustStore" THEN {Len(s) + 1} ELSE {})
         /\ Append(s, f)[1] = s[1] /\ Len(Append(s, f)) > 1
<1>1. s \in Seq(FrameT) /\ Len(s) > 0 /\ Len(s) \in Nat
  BY TopFrame DEF Nested
<1> DEFINE t == Append(s, f)
<1>2. t \in Seq(FrameT) /\ Len(t) = Len(s) + 1 /\ \A k \in 1 .. Len(s) : t[k] = s[k]
  BY <1>1, AppendProperties
<1>3. t[Len(s) + 1] = f
  BY <1>1, AppendProperties
<1> HIDE DEF t
<1>4. \A k \in 1 .. Len(t) : k \in 1 .. Len(s) \/ k = Len(s) + 1
  BY <1>1, <1>2
<1>5. \A k \in 1 .. Len(s) : k \in 1 .. Len(t)
  BY <1>1, <1>2
<1>6. Len(s) + 1 \in 1 .. Len(t) /\ 1 \in 1 .. Len(s)
  BY <1>1, <1>2
<1>7. t[1] = s[1] /\ Len(t) > 1
  BY <1>1, <1>2, <1>6
<1>8. s[1].at # "advance"
  <2>1. CASE Len(s) > 1
    BY <2>1 DEF Nested
  <2>2. CASE Len(s) = 1
    <3>1. Last(s) = s[1]
      BY <2>2 DEF Last
    <3> QED
      BY <3>1
  <2>3. Len(s) > 1 \/ Len(s) = 1
    <3>1. \A n \in Nat : n > 0 => n > 1 \/ n = 1
      OBVIOUS
    <3> QED
      BY <1>1, <3>1
  <2> QED
    BY <2>1, <2>2, <2>3
<1>9. Nested(t)
  BY <1>1, <1>2, <1>3, <1>4, <1>7, <1>8 DEF Nested
<1>10. \A x : Has(t, x) <=> Has(s, x) \/ f.at = x
  BY <1>2, <1>3, <1>4, <1>5, <1>6 DEF Has
<1>11. Depths(t) = Depths(s) \cup (IF f.at = "mustStore" THEN {Len(s) + 1} ELSE {})
  BY <1>2, <1>3, <1>4, <1>5, <1>6 DEF Depths
<1> QED
  BY <1>7, <1>9, <1>10, <1>11 DEF t

LEMMA Replaced ==
  ASSUME NEW s, Nested(s), NEW f \in FrameT, f.at \in Bottom <=> Last(s).at \in Bottom,
         f.at \notin Runs, f.at = "enqueue" => f.left # {}
  PROVE  /\ Nested(Append(Front(s), f))
         /\ \A x : x # Last(s).at => (Has(Append(Front(s), f), x) <=> Has(s, x) \/ f.at = x)
         /\ Depths(Append(Front(s), f)) =
              (Depths(s) \ {Len(s)}) \cup (IF f.at = "mustStore" THEN {Len(s)} ELSE {})
         /\ Len(Append(Front(s), f)) = Len(s) /\ Last(Append(Front(s), f)) = f
         /\ Len(s) > 1 => Append(Front(s), f)[1] = s[1]
         /\ Len(s) = 1 => Append(Front(s), f)[1] = f
<1>1. s \in Seq(FrameT) /\ Len(s) > 0 /\ Len(s) \in Nat /\ Last(s) = s[Len(s)]
  BY TopFrame DEF Nested
<1>2. /\ Front(s) \in Seq(FrameT) /\ Len(Front(s)) = Len(s) - 1
      /\ \A k \in 1 .. Len(s) - 1 : Front(s)[k] = s[k]
  BY <1>1, FrontOf
<1> DEFINE t == Append(Front(s), f)
<1>3. t \in Seq(FrameT) /\ Len(t) = Len(s) /\ \A k \in 1 .. Len(s) - 1 : t[k] = s[k]
  BY <1>1, <1>2, AppendProperties
<1>4. t[Len(s)] = f
  BY <1>1, <1>2, AppendProperties
<1> HIDE DEF t
<1>5. \A k \in 1 .. Len(s) : k \in 1 .. Len(s) - 1 \/ k = Len(s)
  BY <1>1
<1>6. Len(s) \in 1 .. Len(s) /\ 1 \in 1 .. Len(s)
  BY <1>1
<1>7. Len(s) > 1 => t[1] = s[1]
  BY <1>1, <1>3
<1>8. Len(s) = 1 => t[1] = f
  BY <1>4
<1>9. Nested(t)
  <2>1. t[1].at \in Bottom /\ (Len(t) > 1 => t[1].at # "advance")
    BY <1>1, <1>3, <1>7, <1>8, TopFrame DEF Nested
  <2>2. \A k \in 1 .. Len(t) : k > 1 => t[k].at \notin Bottom
    BY <1>1, <1>3, <1>4, <1>5, TopFrame DEF Nested
  <2>3. \A k \in 1 .. Len(t) : t[k].at \in Runs => k = 2
    BY <1>1, <1>3, <1>4, <1>5 DEF Nested
  <2>4. \A k \in 1 .. Len(t) : t[k].at = "enqueue" => t[k].left # {}
    BY <1>1, <1>3, <1>4, <1>5 DEF Nested
  <2> QED
    BY <1>1, <1>3, <2>1, <2>2, <2>3, <2>4 DEF Nested
<1>10. \A x : x # Last(s).at => (Has(t, x) <=> Has(s, x) \/ f.at = x)
  BY <1>1, <1>3, <1>4, <1>5, <1>6 DEF Has
<1>11. Depths(t) = (Depths(s) \ {Len(s)}) \cup (IF f.at = "mustStore" THEN {Len(s)} ELSE {})
  <2>1. \A k \in 1 .. Len(s) - 1 : k # Len(s) /\ k \in 1 .. Len(s)
    BY <1>1
  <2> QED
    BY <1>3, <1>4, <1>5, <1>6, <2>1 DEF Depths
<1>12. Last(t) = f
  BY <1>3, <1>4 DEF Last
<1> QED
  BY <1>3, <1>7, <1>8, <1>9, <1>10, <1>11, <1>12 DEF t

LEMMA Popped ==
  ASSUME NEW s, Nested(s), Last(s).at \notin Bottom
  PROVE  /\ Nested(Front(s))
         /\ \A x : x # Last(s).at => (Has(Front(s), x) <=> Has(s, x))
         /\ \A x \in Runs : x = Last(s).at => ~Has(Front(s), x)
         /\ Depths(Front(s)) = Depths(s) \ {Len(s)}
         /\ Front(s)[1] = s[1] /\ Len(Front(s)) = Len(s) - 1
<1>1. s \in Seq(FrameT) /\ Len(s) > 1 /\ Len(s) \in Nat /\ Last(s) = s[Len(s)]
  <2>1. Len(s) \in Nat /\ Len(s) > 0 /\ Len(s) # 1 /\ Last(s) = s[Len(s)]
    BY TopFrame
  <2> QED
    BY <2>1 DEF Nested
<1> DEFINE t == Front(s)
<1>2. /\ t \in Seq(FrameT) /\ Len(t) = Len(s) - 1 /\ \A k \in 1 .. Len(s) - 1 : t[k] = s[k]
  BY <1>1, FrontOf
<1> HIDE DEF t
<1>3. \A k \in 1 .. Len(s) : k \in 1 .. Len(s) - 1 \/ k = Len(s)
  BY <1>1
<1>4. \A k \in 1 .. Len(s) - 1 : k # Len(s) /\ k \in 1 .. Len(s)
  BY <1>1
<1>5. t[1] = s[1]
  BY <1>1, <1>2
<1>6. Nested(t)
  <2>1. t[1].at \in Bottom /\ t[1].at # "advance" /\ Len(t) > 0
    BY <1>1, <1>2, <1>5 DEF Nested
  <2>2. \A k \in 1 .. Len(t) : k \in 1 .. Len(s) /\ t[k] = s[k]
    BY <1>2, <1>4
  <2> QED
    BY <1>2, <2>1, <2>2 DEF Nested
<1>7. \A x : x # Last(s).at => (Has(t, x) <=> Has(s, x))
  BY <1>1, <1>2, <1>3, <1>4 DEF Has
<1>8. \A x \in Runs : x = Last(s).at => ~Has(t, x)
  <2> SUFFICES ASSUME Last(s).at \in Runs, NEW k \in 1 .. Len(s) - 1, t[k].at \in Runs
               PROVE  FALSE
    BY <1>2 DEF Has
  <2>1. Len(s) = 2
    BY TopFrame
  <2>2. k = 2
    BY <1>2, <1>4 DEF Nested
  <2> QED
    BY <2>1, <2>2
<1>9. Depths(t) = Depths(s) \ {Len(s)}
  BY <1>2, <1>3, <1>4 DEF Depths
<1> QED
  BY <1>2, <1>5, <1>6, <1>7, <1>8, <1>9 DEF t

-----------------------------------------------------------------------------
(* The types *)

HostLines == [n : 0 .. Len(Script), kind : {"plain", "M410", "M290"}, good : BOOLEAN]
Budgets   == [press : Nat, must : Nat, hold : Nat, bad : Nat, entered : Nat]

RingTyped ==
  /\ length \in 0 .. BufSize /\ index_r \in Slots /\ index_w \in Slots
  /\ index_w = (index_r + length) % BufSize
  /\ command \in [Slots -> AllCommands]
  /\ port \in [Slots -> -1 .. NumSerial] /\ send_ok \in [Slots -> BOOLEAN]

PortsTyped ==
  /\ last_N \in [0 .. NumSerial -> Nat]
  /\ rx \in [Ports -> Seq(HostLines)] /\ buffer \in [Ports -> HostLines]

FileTyped ==
  file \in [next : 1 .. FileLines + 1, printing : BOOLEAN, pause : BOOLEAN, stop : BOOLEAN,
            complete : BOOLEAN]

HostsTyped ==
  next \in [Hosts -> 1 .. Len(Script) + 1] /\ unanswered \in [Hosts -> 0 .. Window]

(* Every command of the display was granted by the bounds: it is numbered, *)
(* still to be pressed, or waits for room in mustStoreCmd.                 *)
BudgetTyped ==
  /\ budget \in Budgets
  /\ budget.entered + budget.press + budget.must + Cardinality(Depths(stack)) = Presses + MustPresses

HistoryTyped ==
  /\ ran \in [Sources -> Nat] /\ injected \in BOOLEAN /\ stopped \in BOOLEAN

(* The command whose handler runs has a slot.                              *)
HandlerHasSlot == Has(stack, "handler") => length > 0

Types ==
  /\ Nested(stack) /\ RingTyped /\ PortsTyped /\ FileTyped /\ HostsTyped /\ BudgetTyped
  /\ HistoryTyped /\ HandlerHasSlot
-----------------------------------------------------------------------------
(* Steps of the calls *)

LEMMA Frames ==
  /\ \A at \in Labels : Frame(at) \in FrameT /\ Frame(at).at = at
  /\ {"loop", "jobs", "advance", "serial", "enqueue", "media", "panel", "mustStore", "handler",
      "injected", "quickstop", "ending", "stopping"} = Labels
  /\ IdleFrame \in FrameT /\ IdleFrame.at \in {"panel", "serial"}
BY DEF Frame, FrameT, Labels, Waiters, IdleFrame

(* Where a line is handled there is one, on a port.                        *)
LEMMA DuePort ==
  ASSUME Nested(stack), AtLine \/ In("enqueue")
  PROVE  /\ Due \in Top.left /\ Due \in Ports /\ Top \in FrameT
         /\ RestOfPass \in FrameT /\ RestOfPass.at = Top.at
<1>1. Top \in FrameT /\ Top.left # {}
  BY TopFrame DEF AtLine, In, Top
<1>2. Top.left \in SUBSET Ports
  BY <1>1 DEF FrameT
<1>3. \E i \in Top.left : \A j \in Top.left : i <= j
  BY <1>1, <1>2, FirstPort
<1>4. Due \in Top.left
  BY <1>3 DEF Due
<1>5. RestOfPass \in FrameT /\ RestOfPass.at = Top.at
  BY <1>1, <1>2 DEF RestOfPass, FrameT
<1> QED
  BY <1>1, <1>2, <1>4, <1>5

(* The step of a call that stays in idle().                                *)
InIdle == {"serial", "enqueue", "media", "panel", "mustStore"}

(* What a step does to the calls that run commands, stop or end a print.   *)
CallsKept ==
  /\ \A x \in {"handler", "stopping", "ending"} : Has(stack', x) <=> Has(stack, x)
  /\ stack'[1] = stack[1]

LEMMA StackReplaced ==
  ASSUME Nested(stack), Top.at \in InIdle, NEW f \in FrameT, f.at \in InIdle,
         f.at = "enqueue" => f.left # {}, Becomes(f)
  PROVE  /\ Nested(stack') /\ CallsKept
         /\ Depths(stack') = (Depths(stack) \ {Len(stack)})
                                \cup (IF f.at = "mustStore" THEN {Len(stack)} ELSE {})
<1>1. Top.at \notin Bottom /\ f.at \notin Bottom /\ f.at \notin Runs
  BY DEF InIdle, Bottom, Runs
<1>2. Len(stack) > 1
  <2>1. Len(stack) \in Nat /\ Len(stack) > 0 /\ Len(stack) # 1
    BY <1>1, TopFrame DEF Top
  <2>2. \A n \in Nat : n > 0 /\ n # 1 => n > 1
    OBVIOUS
  <2> QED
    BY <2>1, <2>2
<1>3. /\ Nested(stack')
      /\ \A x : x # Last(stack).at => (Has(stack', x) <=> Has(stack, x) \/ f.at = x)
      /\ Depths(stack') = (Depths(stack) \ {Len(stack)})
                             \cup (IF f.at = "mustStore" THEN {Len(stack)} ELSE {})
      /\ stack'[1] = stack[1]
  BY <1>1, <1>2, Replaced DEF Becomes, Top
<1>4. \A x \in {"handler", "stopping", "ending"} : x # Last(stack).at /\ f.at # x
  BY DEF InIdle, Top
<1> QED
  BY <1>3, <1>4 DEF CallsKept

LEMMA StackPushed ==
  ASSUME Nested(stack), Top.at \notin Bottom, NEW f \in FrameT,
         f.at \in {"panel", "serial", "quickstop"}, Calls(f)
  PROVE  Nested(stack') /\ CallsKept /\ Depths(stack') = Depths(stack)
<1>1. f.at \notin Bottom /\ f.at \notin Runs /\ f.at # "enqueue" /\ Last(stack).at # "advance"
      /\ f.at # "mustStore"
  BY DEF Bottom, Runs, Top
<1>2. /\ Nested(stack') /\ \A x : Has(stack', x) <=> Has(stack, x) \/ f.at = x
      /\ Depths(stack') = Depths(stack) \cup (IF f.at = "mustStore" THEN {Len(stack) + 1} ELSE {})
      /\ stack'[1] = stack[1]
  BY <1>1, Pushed DEF Calls
<1>3. Depths(stack') = Depths(stack)
  BY <1>1, <1>2
<1> QED
  BY <1>2, <1>3 DEF CallsKept

LEMMA StackPopped ==
  ASSUME Nested(stack), Top.at \notin Bottom, Returns
  PROVE  /\ Nested(stack') /\ Depths(stack') = Depths(stack) \ {Len(stack)}
         /\ \A x \in {"handler", "stopping", "ending"} : x # Top.at => (Has(stack', x) <=> Has(stack, x))
         /\ \A x \in {"handler", "stopping"} : x = Top.at => ~Has(stack', x)
         /\ Top.at = "ending" => (Has(stack', "ending") => Has(stack, "ending"))
         /\ stack'[1] = stack[1]
         /\ Top.at # "mustStore" => Depths(stack') = Depths(stack)
<1>1. /\ Nested(stack') /\ \A x : x # Top.at => (Has(stack', x) <=> Has(stack, x))
      /\ \A x \in Runs : x = Top.at => ~Has(stack', x)
      /\ Depths(stack') = Depths(stack) \ {Len(stack)} /\ stack'[1] = stack[1]
  BY Popped DEF Returns, Top
<1>2. Has(stack, Top.at)
  BY TopFrame DEF Top
<1>3. Top.at # "mustStore" => Len(stack) \notin Depths(stack)
  BY TopFrame DEF Depths, Top
<1> QED
  BY <1>1, <1>2, <1>3 DEF Runs

(* loop() itself: nothing else is under way.                               *)
LEMMA OnlyLoop ==
  ASSUME NEW s, Nested(s), Last(s).at \in Bottom
  PROVE  /\ Len(s) = 1 /\ s[1] = Last(s) /\ s[1] \in FrameT
         /\ \A x : x \notin Bottom => ~Has(s, x)
         /\ Depths(s) = {}
<1>1. Len(s) = 1 /\ s[1] = Last(s) /\ s[1] \in FrameT
  BY TopFrame
<1>2. \A k \in 1 .. Len(s) : k = 1
  BY <1>1
<1> QED
  BY <1>1, <1>2 DEF Has, Depths, Bottom

LEMMA OneCall ==
  ASSUME NEW a \in FrameT, a.at \in Bottom
  PROVE  Nested(<<a>>) /\ \A x : Has(<<a>>, x) <=> a.at = x
<1>1. <<a>> \in Seq(FrameT) /\ Len(<<a>>) = 1 /\ <<a>>[1] = a
  OBVIOUS
<1>2. \A k \in 1 .. 1 : k = 1
  OBVIOUS
<1> QED
  BY <1>1, <1>2 DEF Nested, Has, Bottom, Runs

LEMMA TwoCalls ==
  ASSUME NEW a \in FrameT, a.at \in {"loop", "jobs"}, NEW b \in FrameT, b.at \notin Bottom,
         b.at # "enqueue", b.at # "mustStore"
  PROVE  /\ Nested(<<a, b>>) /\ \A x : Has(<<a, b>>, x) <=> a.at = x \/ b.at = x
         /\ Depths(<<a, b>>) = {} /\ <<a, b>>[1] = a
<1>1. Nested(<<a>>) /\ \A x : Has(<<a>>, x) <=> a.at = x
  BY OneCall DEF Bottom
<1>2. Append(<<a>>, b) = <<a, b>> /\ Len(<<a>>) = 1 /\ Last(<<a>>) = a /\ <<a, b>>[1] = a
  <2>1. Len(<<a>>) = 1 /\ <<a>>[1] = a /\ <<a, b>>[1] = a
    OBVIOUS
  <2>2. Append(<<a>>, b) = <<a, b>>
    <3>1. /\ <<a>> \in Seq(FrameT) /\ <<a, b>> \in Seq(FrameT) /\ Len(<<a, b>>) = 2
          /\ <<a, b>>[2] = b
      OBVIOUS
    <3>2. /\ Append(<<a>>, b) \in Seq(FrameT) /\ Len(Append(<<a>>, b)) = 2
          /\ Append(<<a>>, b)[1] = a /\ Append(<<a>>, b)[2] = b
      BY <2>1, <3>1, AppendProperties
    <3>3. \A k \in 1 .. 2 : k = 1 \/ k = 2
      OBVIOUS
    <3> QED
      BY <2>1, <3>1, <3>2, <3>3, SeqEqual
  <2> QED
    BY <2>1, <2>2 DEF Last
<1>3. a.at # "advance" /\ a.at \in Bottom
  BY DEF Bottom
<1>4. Depths(<<a>>) = {}
  BY <1>1, <1>2, <1>3, OnlyLoop
<1>5. /\ Nested(Append(<<a>>, b))
      /\ \A x : Has(Append(<<a>>, b), x) <=> Has(<<a>>, x) \/ b.at = x
      /\ Depths(Append(<<a>>, b)) = Depths(<<a>>) \cup (IF b.at = "mustStore" THEN {Len(<<a>>) + 1} ELSE {})
  BY <1>1, <1>2, <1>3, Pushed
<1>6. Nested(<<a, b>>)
  BY <1>2, <1>5
<1>7. \A x : Has(<<a, b>>, x) <=> a.at = x \/ b.at = x
  BY <1>1, <1>2, <1>5
<1>8. Depths(<<a, b>>) = {}
  BY <1>2, <1>4, <1>5
<1> QED
  BY <1>2, <1>6, <1>7, <1>8

-----------------------------------------------------------------------------
(* What each step does to the calls: most of them change nothing that the  *)
(* invariants speak of.                                                    *)
Quiet == Nested(stack') /\ CallsKept /\ Depths(stack') = Depths(stack)

LEMMA NotStoring ==
  ASSUME Nested(stack), Top.at # "mustStore"
  PROVE  Len(stack) \notin Depths(stack)
BY TopFrame DEF Depths, Top

LEMMA QuietReplaced ==
  ASSUME Nested(stack), Top.at \in InIdle, Top.at # "mustStore", NEW f \in FrameT,
         f.at \in InIdle, f.at # "mustStore", f.at = "enqueue" => f.left # {}, Becomes(f)
  PROVE  Quiet
BY StackReplaced, NotStoring DEF Quiet

LEMMA QuietPopped ==
  ASSUME Nested(stack), Top.at \in {"panel", "quickstop", "injected"}, Returns
  PROVE  Quiet
<1>1. Top.at \notin Bottom /\ Top.at # "mustStore"
      /\ \A x \in {"handler", "stopping", "ending"} : x # Top.at
  BY DEF Bottom
<1> QED
  BY <1>1, StackPopped DEF Quiet, CallsKept

LEMMA SerialSteps ==
  ASSUME Nested(stack), PortsTyped,
         \/ SerialPass \/ SerialDone \/ LineGone \/ BabystepLine \/ LineError \/ AcceptLine
         \/ EnqueueAfterStop \/ MediaDone
  PROVE  Quiet
<1>1. /\ Frame("media") \in FrameT /\ Frame("media").at = "media"
      /\ Frame("panel") \in FrameT /\ Frame("panel").at = "panel"
      /\ {"media", "panel", "serial"} \subseteq InIdle \ {"mustStore", "enqueue"}
  BY Frames DEF InIdle, Labels
<1>2. Top \in FrameT
  BY TopFrame DEF Top
<1>3. CASE SerialDone \/ BabystepLine \/ LineError \/ MediaDone
  <2>1. Top.at \in {"serial", "media"} /\ \E at \in {"media", "panel"} : Becomes(Frame(at))
    BY <1>3 DEF SerialDone, BabystepLine, LineError, MediaDone, In, AtLine
  <2> QED
    BY <1>1, <2>1, QuietReplaced DEF InIdle
<1>4. CASE SerialPass
  <2>1. PICK ends \in SUBSET Waiting \ {{}} : Becomes([Top EXCEPT !.left = ends])
    BY <1>4 DEF SerialPass
  <2>2. Waiting \subseteq Ports
    BY DEF Waiting, PortsTyped
  <2>3. [Top EXCEPT !.left = ends] \in FrameT /\ [Top EXCEPT !.left = ends].at = "serial"
    BY <1>2, <1>4, <2>1, <2>2 DEF FrameT, SerialPass, In
  <2>4. Top.at = "serial"
    BY <1>4 DEF SerialPass, In
  <2> QED
    BY <1>1, <2>1, <2>3, <2>4, QuietReplaced
<1>5. CASE LineGone \/ AcceptLine
  <2>1. AtLine /\ Becomes(RestOfPass) /\ Top.at = "serial"
    BY <1>5 DEF LineGone, AcceptLine, AtLine, In
  <2> QED
    BY <1>1, <2>1, DuePort, QuietReplaced
<1>6. CASE EnqueueAfterStop
  <2> DEFINE f == [RestOfPass EXCEPT !.at = "serial"]
  <2>1. In("enqueue") /\ Becomes(f) /\ Top.at \in InIdle /\ Top.at # "mustStore"
    BY <1>6 DEF EnqueueAfterStop, In, InIdle
  <2>2. "serial" \in Labels
    BY Frames
  <2>3. f \in FrameT /\ f.at = "serial"
    BY <2>1, <2>2, DuePort DEF FrameT
  <2> HIDE DEF f
  <2> QED
    BY <1>1, <2>1, <2>3, QuietReplaced
<1> QED
  BY <1>3, <1>4, <1>5, <1>6

LEMMA EarlyStop ==
  ASSUME Nested(stack), EarlyStopLine
  PROVE  Quiet
<1> DEFINE e == [Top EXCEPT !.at = "enqueue"]
<1>1. AtLine /\ Top.at = "serial" /\ Top.left # {}
  BY DEF EarlyStopLine, AtLine, In
<1>2. "enqueue" \in Labels /\ Frame("quickstop") \in FrameT /\ Frame("quickstop").at = "quickstop"
  BY Frames
<1>3. e \in FrameT /\ e.at = "enqueue" /\ e.left # {}
  BY <1>1, <1>2, DuePort DEF FrameT
<1> DEFINE s == Append(Front(stack), e)
<1> HIDE DEF e
<1>4. e.at \notin Bottom /\ Last(stack).at \notin Bottom /\ e.at \notin Runs
      /\ Top = Last(stack)
  BY <1>1, <1>3 DEF Bottom, Runs, Top
<1>5. Len(stack) > 1 /\ stack \in Seq(FrameT)
  <2>1. Len(stack) \in Nat /\ Len(stack) > 0 /\ Len(stack) # 1
    BY <1>4, TopFrame
  <2>2. \A n \in Nat : n > 0 /\ n # 1 => n > 1
    OBVIOUS
  <2> QED
    BY <2>1, <2>2 DEF Nested
<1>6. /\ Nested(s)
      /\ \A x : x # Last(stack).at => (Has(s, x) <=> Has(stack, x) \/ e.at = x)
      /\ Depths(s) = (Depths(stack) \ {Len(stack)}) \cup (IF e.at = "mustStore" THEN {Len(stack)} ELSE {})
      /\ Last(s) = e /\ s[1] = stack[1]
  BY <1>3, <1>4, <1>5, Replaced
<1>7. stack' = Append(s, Frame("quickstop"))
  <2>1. stack' = Front(stack) \o <<e, Frame("quickstop")>>
    BY DEF EarlyStopLine, e
  <2>2. Front(stack) \in Seq(FrameT)
    BY <1>5, TopFrame, FrontOf
  <2>3. \A f \in FrameT : Front(stack) \o <<e, f>> = Append(Append(Front(stack), e), f)
    BY <1>3, <2>2
  <2> QED
    BY <1>2, <2>1, <2>3
<1> HIDE DEF s
<1>8. /\ Nested(stack') /\ \A x : Has(stack', x) <=> Has(s, x) \/ "quickstop" = x
      /\ Depths(stack') = Depths(s) \cup (IF "quickstop" = "mustStore" THEN {Len(s) + 1} ELSE {})
      /\ stack'[1] = s[1]
  <2>1. "quickstop" \notin Bottom \cup Runs /\ Last(s).at # "advance"
    BY <1>3, <1>6 DEF Bottom, Runs
  <2> QED
    BY <1>2, <1>6, <1>7, <2>1, Pushed
<1>9. \A x \in {"handler", "stopping", "ending"} : Has(stack', x) <=> Has(stack, x)
  BY <1>1, <1>3, <1>4, <1>6, <1>8
<1>10. Depths(stack') = Depths(stack)
  <2>1. Len(stack) \notin Depths(stack)
    BY <1>1, NotStoring
  <2> QED
    BY <1>3, <1>6, <1>8, <2>1
<1> QED
  BY <1>6, <1>8, <1>9, <1>10 DEF Quiet, CallsKept

LEMMA CallSteps ==
  ASSUME Nested(stack), CallIdle
  PROVE  Quiet
<1>1. Top.at \notin Bottom /\ Calls(IdleFrame)
  BY DEF CallIdle, Waiters, Bottom, In
<1>2. IdleFrame \in FrameT /\ IdleFrame.at \in {"panel", "serial"}
  BY Frames
<1> QED
  BY <1>1, <1>2, StackPushed DEF Quiet

LEMMA ReturnSteps ==
  ASSUME Nested(stack),
         EarlyStopDone \/ InjectedDone \/ PanelNothing \/ StoreCmd \/ Hold \/ StopPrint
  PROVE  Quiet
<1>1. Top.at \in {"panel", "quickstop", "injected"} /\ Returns
  BY DEF EarlyStopDone, InjectedDone, PanelNothing, StoreCmd, Hold, StopPrint, In
<1> QED
  BY <1>1, QuietPopped

LEMMA NoStep ==
  ASSUME Nested(stack), UNCHANGED stack
  PROVE  Quiet
BY DEF Quiet, CallsKept

(* The steps of loop(): no call from above it is under way.                *)
LEMMA LoopStays ==
  ASSUME Nested(stack), FinishPrint \/ RunNothing
  PROVE  /\ Nested(stack') /\ \A x : x \notin Bottom => ~Has(stack, x) /\ ~Has(stack', x)
         /\ Depths(stack) = {} /\ Depths(stack') = {}
         /\ stack'[1].at = (IF FinishPrint THEN "advance" ELSE "loop")
<1> DEFINE at == IF FinishPrint THEN "advance" ELSE "loop"
<1>1. Becomes(Frame(at)) /\ Top.at \in Bottom
  BY DEF FinishPrint, RunNothing, In, Bottom
<1>2. at \in Bottom /\ at \in Labels /\ at \notin Runs /\ at # "enqueue" /\ at # "mustStore"
  BY Frames DEF Bottom, Runs
<1> HIDE DEF at
<1>3. Frame(at) \in FrameT /\ Frame(at).at = at
  BY <1>2, Frames
<1>4. Len(stack) = 1 /\ \A x : x \notin Bottom => ~Has(stack, x)
  BY <1>1, OnlyLoop DEF Top
<1>5. Depths(stack) = {}
  BY <1>1, OnlyLoop DEF Top
<1>6. Nested(stack') /\ Last(stack') = Frame(at) /\ stack'[1] = Frame(at)
  BY <1>1, <1>2, <1>3, <1>4, Replaced DEF Becomes, Top
<1>7. \A x : x \notin Bottom => ~Has(stack', x)
  BY <1>2, <1>3, <1>6, OnlyLoop
<1>8. Depths(stack') = {}
  BY <1>2, <1>3, <1>6, OnlyLoop
<1> QED
  BY <1>3, <1>4, <1>5, <1>6, <1>7, <1>8 DEF at

LEMMA LoopCalls ==
  ASSUME Nested(stack), LoopIdle \/ RunInjected \/ RunCommand
  PROVE  /\ Nested(stack') /\ \A x : x \notin Bottom => ~Has(stack, x)
         /\ Depths(stack) = {} /\ Depths(stack') = {}
         /\ stack'[1].at = (IF LoopIdle THEN "jobs" ELSE "loop")
         /\ Has(stack', "handler") <=> RunCommand
         /\ ~Has(stack', "stopping") /\ ~Has(stack', "ending")
<1>1. Top.at \in Bottom
  BY DEF LoopIdle, RunInjected, RunCommand, In, Bottom
<1>2. (\A x : x \notin Bottom => ~Has(stack, x)) /\ Depths(stack) = {}
  BY <1>1, OnlyLoop DEF Top
<1>3. CASE LoopIdle
  <2>1. stack' = <<Frame("jobs"), IdleFrame>> /\ ~RunCommand
    BY <1>3 DEF LoopIdle, RunCommand, In
  <2>2. /\ Frame("jobs") \in FrameT /\ Frame("jobs").at = "jobs" /\ IdleFrame \in FrameT
        /\ IdleFrame.at \notin Bottom \cup {"enqueue", "mustStore", "handler", "stopping", "ending"}
    BY Frames DEF Bottom
  <2>3. /\ Nested(stack') /\ \A x : Has(stack', x) <=> "jobs" = x \/ IdleFrame.at = x
        /\ Depths(stack') = {} /\ stack'[1] = Frame("jobs")
    BY <2>1, <2>2, TwoCalls
  <2> QED
    BY <1>2, <1>3, <2>1, <2>2, <2>3
<1>4. CASE RunInjected \/ RunCommand
  <2> DEFINE at == IF RunCommand THEN "handler" ELSE "injected"
  <2>1. stack' = <<Frame("loop"), Frame(at)>> /\ ~LoopIdle
    BY <1>4 DEF LoopIdle, RunInjected, RunCommand, In
  <2>2. /\ Frame("loop") \in FrameT /\ Frame("loop").at = "loop" /\ Frame(at) \in FrameT
        /\ Frame(at).at = at /\ at \notin Bottom \cup {"enqueue", "mustStore", "stopping", "ending"}
        /\ "loop" \notin {"handler", "stopping", "ending"}
    BY Frames DEF Bottom
  <2>3. at = "handler" <=> RunCommand
    OBVIOUS
  <2> HIDE DEF at
  <2>4. /\ Nested(stack') /\ \A x : Has(stack', x) <=> "loop" = x \/ at = x
        /\ Depths(stack') = {} /\ stack'[1] = Frame("loop")
    BY <2>1, <2>2, TwoCalls
  <2> QED
    BY <1>2, <2>1, <2>2, <2>3, <2>4
<1> QED
  BY <1>3, <1>4

LEMMA StackMedia ==
  ASSUME Nested(stack), MediaLine
  PROVE  /\ Nested(stack') /\ Depths(stack') = Depths(stack) /\ stack'[1] = stack[1]
         /\ \A x \in {"handler", "stopping"} : Has(stack', x) <=> Has(stack, x)
         /\ Has(stack', "ending") => Has(stack, "ending") \/ file.next = FileLines
<1>1. CASE file.next = FileLines
  <2>1. stack' = Append(stack, Frame("ending")) /\ Last(stack).at # "advance"
    BY <1>1 DEF MediaLine, Calls, In, Top
  <2>2. Frame("ending") \in FrameT /\ Frame("ending").at = "ending"
    BY Frames DEF Labels, Waiters
  <2>3. "ending" \notin Bottom \cup Runs \cup {"enqueue", "mustStore", "handler", "stopping"}
    BY DEF Bottom, Runs
  <2>4. /\ Nested(stack') /\ \A x : Has(stack', x) <=> Has(stack, x) \/ "ending" = x
        /\ Depths(stack') = Depths(stack)
        /\ stack'[1] = stack[1]
    <3>1. \A f \in FrameT : f.at = "ending" /\ Last(stack).at # "advance" =>
            /\ Nested(Append(stack, f))
            /\ \A x : Has(Append(stack, f), x) <=> Has(stack, x) \/ f.at = x
            /\ Depths(Append(stack, f)) = Depths(stack)
            /\ Append(stack, f)[1] = stack[1]
      <4> TAKE f \in FrameT
      <4> HAVE f.at = "ending" /\ Last(stack).at # "advance"
      <4>1. f.at \notin Bottom /\ f.at \notin Runs /\ f.at # "enqueue" /\ f.at # "mustStore"
        BY <2>3
      <4> QED
        BY <4>1, Pushed
    <3> QED
      BY <2>1, <2>2, <3>1
  <2> QED
    BY <1>1, <2>3, <2>4
<1>2. CASE file.next # FileLines
  <2>1. UNCHANGED stack
    BY <1>2 DEF MediaLine
  <2> QED
    BY <2>1, NoStep DEF Quiet, CallsKept
<1> QED
  BY <1>1, <1>2

LEMMA StackEnds ==
  ASSUME Nested(stack), FileFinished
  PROVE  /\ Nested(stack') /\ Depths(stack') = Depths(stack) /\ stack'[1] = stack[1]
         /\ \A x \in {"handler", "stopping"} : Has(stack', x) <=> Has(stack, x)
         /\ Has(stack', "ending") => Has(stack, "ending")
         /\ Has(stack, "ending")
<1>1. Top.at = "ending" /\ Returns /\ "ending" \notin Bottom
  BY DEF FileFinished, In, Bottom
<1>2. Has(stack, "ending")
  BY <1>1, TopFrame DEF Top
<1> QED
  BY <1>1, <1>2, StackPopped

LEMMA StackStores ==
  ASSUME Nested(stack), MustStoreCmd \/ MustStored
  PROVE  /\ Nested(stack') /\ CallsKept
         /\ MustStoreCmd => /\ Len(stack) \notin Depths(stack)
                            /\ Depths(stack') = Depths(stack) \cup {Len(stack)}
         /\ MustStored   => /\ Len(stack) \in Depths(stack)
                            /\ Depths(stack') = Depths(stack) \ {Len(stack)}
<1>1. CASE MustStoreCmd
  <2>1. Top.at = "panel" /\ Top.at \in InIdle /\ Becomes(Frame("mustStore")) /\ ~MustStored
    BY <1>1 DEF MustStoreCmd, MustStored, In, InIdle
  <2>2. Frame("mustStore") \in FrameT /\ Frame("mustStore").at = "mustStore" /\ "mustStore" \in InIdle
    BY Frames DEF InIdle, Labels
  <2>3. Len(stack) \notin Depths(stack)
    BY <2>1, NotStoring
  <2>4. Nested(stack') /\ CallsKept /\ Depths(stack') = Depths(stack) \cup {Len(stack)}
    BY <2>1, <2>2, <2>3, StackReplaced
  <2> QED
    BY <1>1, <2>1, <2>3, <2>4
<1>2. CASE MustStored
  <2>1. Top.at = "mustStore" /\ Top.at \notin Bottom /\ Returns /\ ~MustStoreCmd
        /\ \A x \in {"handler", "stopping", "ending"} : x # Top.at
    BY <1>2 DEF MustStored, MustStoreCmd, In, Bottom
  <2>2. Len(stack) \in Depths(stack)
    <3>1. Len(stack) \in Nat /\ Len(stack) > 0 /\ stack[Len(stack)].at = "mustStore"
      BY <2>1, TopFrame DEF Top
    <3>2. \A n \in Nat : n > 0 => n \in 1 .. n
      OBVIOUS
    <3> QED
      BY <3>1, <3>2 DEF Depths
  <2>3. Nested(stack') /\ Depths(stack') = Depths(stack) \ {Len(stack)} /\ CallsKept
    BY <2>1, StackPopped DEF CallsKept
  <2> QED
    BY <2>1, <2>2, <2>3
<1> QED
  BY <1>1, <1>2

LEMMA StackAborts ==
  ASSUME Nested(stack), AbortPrint
  PROVE  /\ Nested(stack') /\ Depths(stack') = Depths(stack) /\ stack'[1] = stack[1]
         /\ \A x : x \notin Bottom => ~Has(stack, x)
         /\ \A x : x \notin Bottom => (Has(stack', x) <=> x = "stopping")
<1>1. Top.at = "jobs" /\ Calls(Frame("stopping")) /\ "jobs" # "advance"
  BY DEF AbortPrint, In
<1>2. Top.at \in Bottom /\ Top = Last(stack)
  BY <1>1 DEF Bottom, Top
<1>3. Len(stack) = 1 /\ \A x : x \notin Bottom => ~Has(stack, x)
  BY <1>2, OnlyLoop
<1>4. Frame("stopping") \in FrameT /\ Frame("stopping").at = "stopping"
  BY Frames DEF Labels, Waiters
<1>5. "stopping" \notin Bottom \cup {"enqueue", "mustStore"}
  BY DEF Bottom
<1>6. /\ Nested(stack') /\ \A x : Has(stack', x) <=> Has(stack, x) \/ "stopping" = x
      /\ Depths(stack') = Depths(stack) \cup (IF "stopping" = "mustStore" THEN {Len(stack) + 1} ELSE {})
      /\ stack'[1] = stack[1]
  BY <1>1, <1>2, <1>3, <1>4, <1>5, Pushed DEF Calls
<1> QED
  BY <1>3, <1>6

LEMMA StackFrees ==
  ASSUME Nested(stack), HandlerDone \/ Aborted
  PROVE  /\ Nested(stack') /\ Depths(stack') = Depths(stack) /\ stack'[1] = stack[1]
         /\ HandlerDone => /\ Has(stack, "handler") /\ ~Has(stack', "handler")
                           /\ (Has(stack', "stopping") <=> Has(stack, "stopping"))
         /\ Aborted => /\ Has(stack, "stopping") /\ ~Has(stack', "stopping")
                       /\ (Has(stack', "handler") <=> Has(stack, "handler"))
         /\ (Has(stack', "ending") <=> Has(stack, "ending"))
<1>1. CASE HandlerDone
  <2>1. Top.at = "handler" /\ Returns /\ "handler" \notin Bottom /\ ~Aborted
    BY <1>1 DEF HandlerDone, Aborted, In, Bottom
  <2>2. Has(stack, "handler")
    BY <2>1, TopFrame DEF Top
  <2> QED
    BY <2>1, <2>2, StackPopped
<1>2. CASE Aborted
  <2>1. Top.at = "stopping" /\ Returns /\ "stopping" \notin Bottom /\ ~HandlerDone
    BY <1>2 DEF HandlerDone, Aborted, In, Bottom
  <2>2. Has(stack, "stopping")
    BY <2>1, TopFrame DEF Top
  <2> QED
    BY <2>1, <2>2, StackPopped
<1> QED
  BY <1>1, <1>2

-----------------------------------------------------------------------------
(* What each step does to the ring *)

LEMMA Wrap ==
  ASSUME NEW a \in Nat, a < BufSize + BufSize
  PROVE  a % BufSize = (IF a < BufSize THEN a ELSE a - BufSize) /\ a % BufSize \in Slots
BY Constants DEF Slots

LEMMA NextSlots ==
  ASSUME NEW i \in Slots
  PROVE  NextSlot(i) = (i + 1) % BufSize /\ NextSlot(i) \in Slots
<1>1. BufSize \in Nat /\ BufSize > 2 /\ i \in Nat /\ i < BufSize
  BY Constants DEF Slots
<1>2. (i + 1) % BufSize = IF i + 1 < BufSize THEN i + 1 ELSE i + 1 - BufSize
  BY <1>1, Wrap
<1>3. NextSlot(i) = IF i + 1 < BufSize THEN i + 1 ELSE 0
  BY <1>1 DEF NextSlot
<1> QED
  BY <1>1, <1>2, <1>3 DEF Slots

(* The line at a port.                                                     *)
LEMMA LineTyped ==
  ASSUME Nested(stack), PortsTyped, AtLine, rx[Due] # <<>>
  PROVE  Line \in HostLines /\ Tail(rx[Due]) \in Seq(HostLines) /\ Due \in Ports
<1>1. Due \in Ports /\ rx[Due] \in Seq(HostLines)
  BY DuePort DEF PortsTyped
<1> QED
  BY <1>1, HeadTailProperties DEF Line

(* Who commits what.                                                       *)
Owner(c) ==
  \/ c = [src |-> Due, n |-> Line.n] /\ Due \in Ports /\ AcceptLine
  \/ c.src \in Ports /\ EnqueueAfterStop
  \/ c = [src |-> FileSource, n |-> file.next] /\ MediaLine
  \/ c = PanelCommand /\ (StoreCmd \/ MustStored)
  \/ c = [src |-> EndSource, n |-> 1] /\ FinishPrint /\ file.complete

Commits ==
  \E c \in AllCommands, ok \in BOOLEAN, p \in -1 .. NumSerial :
    Commit(c, ok, p) /\ ~full /\ Owner(c)

LEMMA CommandsTyped ==
  /\ \A i \in Ports, l \in HostLines : [src |-> i, n |-> l.n] \in AllCommands
  /\ \A k \in 1 .. FileLines : [src |-> FileSource, n |-> k] \in AllCommands
  /\ \A k \in 1 .. Presses + MustPresses : [src |-> PanelSource, n |-> k] \in AllCommands
  /\ [src |-> EndSource, n |-> 1] \in AllCommands
<1>1. /\ FileLines \in Nat /\ Presses \in Nat /\ MustPresses \in Nat /\ Len(Script) \in Nat
      /\ NumSerial \in Nat
  BY Constants
<1>2. Ports \subseteq Sources /\ {FileSource, PanelSource, EndSource} \subseteq Sources
  BY <1>1 DEF Ports, Sources, FileSource, PanelSource, EndSource
<1> DEFINE N == 0 .. Len(Script) + FileLines + Presses + MustPresses + 1
<1>3. 1 .. FileLines \subseteq N /\ 1 .. Presses + MustPresses \subseteq N /\ 1 \in N
      /\ 0 .. Len(Script) \subseteq N
  BY <1>1
<1>4. AllCommands = [src : Sources, n : N]
  BY DEF AllCommands
<1> HIDE DEF N
<1>5. \A l \in HostLines : l.n \in N
  BY <1>3 DEF HostLines
<1> QED
  BY <1>2, <1>3, <1>4, <1>5

LEMMA FiniteDepths ==
  ASSUME NEW s, Nested(s)
  PROVE  IsFiniteSet(Depths(s)) /\ Cardinality(Depths(s)) \in Nat
<1>1. 1 \in Int /\ Len(s) \in Int /\ Depths(s) \in SUBSET (1 .. Len(s))
  BY TopFrame DEF Depths
<1>2. IsFiniteSet(1 .. Len(s))
  BY <1>1, FS_Interval
<1>3. IsFiniteSet(Depths(s))
  BY <1>1, <1>2, FS_Subset
<1> QED
  BY <1>3, FS_CardinalityType

(* The display has a number for the command it is granted.                 *)
LEMMA PanelNumbered ==
  ASSUME Nested(stack), BudgetTyped, StoreCmd \/ MustStored
  PROVE  PanelCommand \in AllCommands
<1>1. /\ budget.entered \in Nat /\ budget.press \in Nat /\ budget.must \in Nat
      /\ budget.entered + budget.press + budget.must + Cardinality(Depths(stack))
           = Presses + MustPresses
  BY DEF BudgetTyped, Budgets
<1>2. Cardinality(Depths(stack)) \in Nat /\ Presses \in Nat /\ MustPresses \in Nat
  BY FiniteDepths, Constants
<1>3. budget.press > 0 \/ Cardinality(Depths(stack)) > 0
  <2>1. CASE StoreCmd
    BY <2>1 DEF StoreCmd
  <2>2. CASE MustStored
    <3>1. Depths(stack) # {}
      BY <2>2, StackStores
    <3>2. IsFiniteSet(Depths(stack))
      BY FiniteDepths
    <3> QED
      BY <1>2, <3>1, <3>2, FS_EmptySet
  <2> QED
    BY <2>1, <2>2
<1>4. budget.entered + 1 \in 1 .. Presses + MustPresses
  BY <1>1, <1>2, <1>3
<1> QED
  BY <1>4, CommandsTyped DEF PanelCommand

LEMMA EnqueueTyped ==
  ASSUME NEW i \in Ports, NEW l \in HostLines, EnqueueBuffer(i, l),
         Owner([src |-> i, n |-> l.n])
  PROVE  UNCHANGED ringVars \/ Commits
<1>1. /\ [src |-> i, n |-> l.n] \in AllCommands /\ TRUE \in BOOLEAN
      /\ i + 1 \in -1 .. NumSerial
  BY CommandsTyped, Constants DEF Ports
<1>2. UNCHANGED ringVars \/ (Commit([src |-> i, n |-> l.n], TRUE, i + 1) /\ ~full)
  BY DEF EnqueueBuffer, Enqueue
<1> QED
  BY <1>1, <1>2 DEF Commits

LEMMA CommitTyped ==
  ASSUME NEW c \in AllCommands, Commit(c, FALSE, -1), ~full, Owner(c)
  PROVE  Commits
<1>1. FALSE \in BOOLEAN /\ -1 \in -1 .. NumSerial
  BY Constants
<1> QED
  BY <1>1 DEF Commits

LEMMA RingSteps ==
  ASSUME Types, [Next]_vars
  PROVE  UNCHANGED ringVars \/ Commits \/ HandlerDone \/ AbortPrint
<1>1. Nested(stack) /\ PortsTyped /\ FileTyped /\ BudgetTyped /\ RingTyped
  BY DEF Types
<1>2. CASE AcceptLine
  <2>1. AtLine /\ rx[Due] # <<>> /\ EnqueueBuffer(Due, Line)
    BY <1>2 DEF AcceptLine
  <2>2. Line \in HostLines /\ Due \in Ports
    BY <1>1, <2>1, LineTyped
  <2>3. Owner([src |-> Due, n |-> Line.n])
    BY <1>2, <2>2 DEF Owner
  <2> QED
    BY <2>1, <2>2, <2>3, EnqueueTyped
<1>3. CASE EnqueueAfterStop
  <2>1. In("enqueue") /\ EnqueueBuffer(Due, buffer[Due])
    BY <1>3 DEF EnqueueAfterStop
  <2>2. Due \in Ports /\ buffer[Due] \in HostLines
    BY <1>1, <2>1, DuePort DEF PortsTyped
  <2>3. Owner([src |-> Due, n |-> buffer[Due].n])
    BY <1>3, <2>2 DEF Owner
  <2> QED
    BY <2>1, <2>2, <2>3, EnqueueTyped
<1>4. CASE MediaLine
  <2> DEFINE c == [src |-> FileSource, n |-> file.next]
  <2>1. Commit(c, FALSE, -1) /\ length < BufSize - 2 /\ file.next <= FileLines
    BY <1>4 DEF MediaLine, MayRead
  <2>2. file.next \in 1 .. FileLines
    BY <1>1, <2>1, Constants DEF FileTyped
  <2>3. c \in AllCommands /\ Owner(c)
    BY <1>4, <2>2, CommandsTyped DEF Owner
  <2>4. ~full
    BY <1>1, <2>1, Constants DEF full, RingTyped
  <2> HIDE DEF c
  <2> QED
    BY <2>1, <2>3, <2>4, CommitTyped
<1>5. CASE StoreCmd \/ MustStored
  <2>1. Commit(PanelCommand, FALSE, -1) /\ ~full
    BY <1>5 DEF StoreCmd, MustStored
  <2>2. PanelCommand \in AllCommands /\ Owner(PanelCommand)
    BY <1>1, <1>5, PanelNumbered DEF Owner
  <2> QED
    BY <2>1, <2>2, CommitTyped
<1>6. CASE FinishPrint /\ file.complete /\ ~full
  <2> DEFINE c == [src |-> EndSource, n |-> 1]
  <2>1. Commit(c, FALSE, -1)
    BY <1>6 DEF FinishPrint
  <2>2. c \in AllCommands /\ Owner(c)
    BY <1>6, CommandsTyped DEF Owner
  <2> HIDE DEF c
  <2> QED
    BY <1>6, <2>1, <2>2, CommitTyped
<1>7. CASE FinishPrint /\ ~(file.complete /\ ~full)
  BY <1>7 DEF FinishPrint
<1>8. CASE UNCHANGED vars
  BY <1>8 DEF vars
<1>9. CASE \E h \in Hosts : HostSend(h)
  BY <1>9 DEF HostSend
<1>10. CASE LineError
  BY <1>10 DEF LineError
<1>11. CASE \/ CallIdle \/ EarlyStopDone \/ FileFinished \/ Aborted \/ InjectedDone
            \/ SerialPass \/ SerialDone \/ LineGone \/ BabystepLine \/ EarlyStopLine \/ MediaDone
  BY <1>11 DEF CallIdle, EarlyStopDone, FileFinished, Aborted, InjectedDone, SerialPass,
     SerialDone, LineGone, BabystepLine, EarlyStopLine, MediaDone
<1>12. CASE \/ PanelNothing \/ MustStoreCmd \/ Hold \/ StopPrint \/ LoopIdle
            \/ RunInjected \/ RunCommand \/ RunNothing
  BY <1>12 DEF PanelNothing, MustStoreCmd, Hold, StopPrint, LoopIdle, RunInjected, RunCommand,
     RunNothing
<1> QED
  BY <1>2, <1>3, <1>4, <1>5, <1>6, <1>7, <1>8, <1>9, <1>10, <1>11, <1>12
  DEF Next, Program, Return
-----------------------------------------------------------------------------
(* What each step does to the calls, all steps together *)

StackEffect ==
  /\ Nested(stack')
  /\ RunCommand \/ HandlerDone \/ (Has(stack', "handler") <=> Has(stack, "handler"))
  /\ AbortPrint \/ Aborted \/ (Has(stack', "stopping") <=> Has(stack, "stopping"))
  /\ (MediaLine /\ file.next = FileLines) \/ (Has(stack', "ending") => Has(stack, "ending"))
  /\ MustStoreCmd \/ MustStored \/ Depths(stack') = Depths(stack)
  /\ \/ LoopIdle \/ FinishPrint \/ RunInjected \/ RunCommand \/ RunNothing
     \/ stack'[1] = stack[1]

LEMMA QuietEffect ==
  ASSUME Quiet
  PROVE  StackEffect
BY DEF Quiet, CallsKept, StackEffect

LEMMA StackSteps ==
  ASSUME Nested(stack), PortsTyped, [Next]_vars
  PROVE  StackEffect
<1>1. CASE FinishPrint \/ RunNothing
  <2>1. \A x \in {"handler", "stopping", "ending"} : x \notin Bottom
    BY DEF Bottom
  <2> QED
    BY <1>1, <2>1, LoopStays DEF StackEffect
<1>2. CASE LoopIdle \/ RunInjected \/ RunCommand
  <2>1. \A x \in {"handler", "stopping", "ending"} : x \notin Bottom
    BY DEF Bottom
  <2>2. Nested(stack') /\ Depths(stack') = Depths(stack)
    BY <1>2, LoopCalls
  <2>3. RunCommand \/ (Has(stack', "handler") <=> Has(stack, "handler"))
    BY <1>2, <2>1, LoopCalls
  <2>4. (Has(stack', "stopping") <=> Has(stack, "stopping")) /\ (Has(stack', "ending") => Has(stack, "ending"))
    BY <1>2, <2>1, LoopCalls
  <2> QED
    BY <1>2, <2>2, <2>3, <2>4 DEF StackEffect
<1>3. CASE MediaLine
  BY <1>3, StackMedia DEF StackEffect
<1>4. CASE FileFinished
  BY <1>4, StackEnds DEF StackEffect
<1>5. CASE MustStoreCmd \/ MustStored
  BY <1>5, StackStores DEF StackEffect, CallsKept
<1>6. CASE AbortPrint
  <2>1. \A x \in {"handler", "stopping", "ending"} : x \notin Bottom
    BY DEF Bottom
  <2> QED
    BY <1>6, <2>1, StackAborts DEF StackEffect
<1>7. CASE HandlerDone \/ Aborted
  BY <1>7, StackFrees DEF StackEffect
<1>8. CASE CallIdle
  BY <1>8, CallSteps, QuietEffect
<1>9. CASE EarlyStopLine
  BY <1>9, EarlyStop, QuietEffect
<1>10. CASE \/ SerialPass \/ SerialDone \/ LineGone \/ BabystepLine \/ LineError \/ AcceptLine
            \/ EnqueueAfterStop \/ MediaDone
  BY <1>10, SerialSteps, QuietEffect
<1>11. CASE EarlyStopDone \/ InjectedDone \/ PanelNothing \/ StoreCmd \/ Hold \/ StopPrint
  BY <1>11, ReturnSteps, QuietEffect
<1>12. CASE UNCHANGED stack
  BY <1>12, NoStep, QuietEffect
<1>13. CASE UNCHANGED vars \/ \E h \in Hosts : HostSend(h)
  BY <1>12, <1>13 DEF HostSend, vars
<1> QED
  BY <1>1, <1>2, <1>3, <1>4, <1>5, <1>6, <1>7, <1>8, <1>9, <1>10, <1>11, <1>13
  DEF Next, Program, Return
-----------------------------------------------------------------------------
(* The types hold throughout *)

LEMMA RingTypedStep ==
  ASSUME Types, [Next]_vars
  PROVE  RingTyped'
<1>1. RingTyped /\ BufSize \in Nat /\ BufSize > 2
  BY Constants DEF Types
<1>2. CASE UNCHANGED ringVars
  BY <1>1, <1>2 DEF RingTyped, ringVars
<1>3. CASE Commits
  <2>1. PICK c \in AllCommands, ok \in BOOLEAN, p \in -1 .. NumSerial : Commit(c, ok, p) /\ ~full
    BY <1>3 DEF Commits
  <2>2. length \in Nat /\ length < BufSize /\ length' = length + 1 /\ index_r' = index_r
    BY <1>1, <2>1 DEF Commit, full, RingTyped
  <2>3. command' \in [Slots -> AllCommands]
    BY <1>1, <2>1 DEF Commit, RingTyped
  <2>4. port' \in [Slots -> -1 .. NumSerial] /\ send_ok' \in [Slots -> BOOLEAN]
    BY <1>1, <2>1 DEF Commit, RingTyped
  <2>5. index_w' = (index_w + 1) % BufSize /\ index_w' \in Slots
    BY <1>1, <2>1, NextSlots DEF Commit, RingTyped
  <2>6. (index_w + 1) % BufSize = (index_r + (length + 1)) % BufSize
    <3>1. index_r \in Nat /\ index_r < BufSize /\ index_w = (index_r + length) % BufSize
      BY <1>1 DEF RingTyped, Slots
    <3>2. index_w = IF index_r + length < BufSize THEN index_r + length ELSE index_r + length - BufSize
      BY <1>1, <2>2, <3>1, Wrap
    <3>3. (index_r + (length + 1)) % BufSize = IF index_r + length + 1 < BufSize
            THEN index_r + length + 1 ELSE index_r + length + 1 - BufSize
      BY <1>1, <2>2, <3>1, Wrap
    <3>4. (index_w + 1) % BufSize = IF index_w + 1 < BufSize THEN index_w + 1 ELSE index_w + 1 - BufSize
      BY <1>1, <2>2, <3>1, <3>2, Wrap
    <3> QED
      BY <1>1, <2>2, <3>1, <3>2, <3>3, <3>4
  <2> QED
    BY <1>1, <2>2, <2>3, <2>4, <2>5, <2>6 DEF RingTyped
<1>4. CASE HandlerDone
  <2>1. Nested(stack) /\ HandlerHasSlot
    BY DEF Types
  <2>2. length > 0
    BY <1>4, <2>1, StackFrees DEF HandlerHasSlot
  <2>3. /\ length' = length - 1 /\ index_r' = NextSlot(index_r)
        /\ UNCHANGED <<index_w, command, port, send_ok>>
    BY <1>4 DEF HandlerDone
  <2>4. index_r' = (index_r + 1) % BufSize /\ index_r' \in Slots
    BY <1>1, <2>3, NextSlots DEF RingTyped
  <2>5. (index_r + length) % BufSize = (((index_r + 1) % BufSize) + (length - 1)) % BufSize
    <3>1. index_r \in Nat /\ index_r < BufSize /\ length \in Nat /\ length <= BufSize
      BY <1>1 DEF RingTyped, Slots
    <3> DEFINE i == (index_r + 1) % BufSize
    <3>2. i = IF index_r + 1 < BufSize THEN index_r + 1 ELSE index_r + 1 - BufSize
      BY <1>1, <3>1, Wrap
    <3> HIDE DEF i
    <3>3. (index_r + length) % BufSize = IF index_r + length < BufSize
            THEN index_r + length ELSE index_r + length - BufSize
      BY <1>1, <3>1, Wrap
    <3>4. (i + (length - 1)) % BufSize = IF i + (length - 1) < BufSize
            THEN i + (length - 1) ELSE i + (length - 1) - BufSize
      BY <1>1, <2>2, <3>1, <3>2, Wrap
    <3> QED
      BY <1>1, <2>2, <3>1, <3>2, <3>3, <3>4 DEF i
  <2> QED
    BY <1>1, <2>2, <2>3, <2>4, <2>5 DEF RingTyped
<1>5. CASE AbortPrint
  <2>1. length' = 0 /\ index_r' = 0 /\ index_w' = 0 /\ UNCHANGED <<command, port, send_ok>>
    BY <1>5 DEF AbortPrint
  <2>2. 0 \in Slots /\ (0 + 0) % BufSize = 0
    BY <1>1 DEF Slots
  <2> QED
    BY <1>1, <2>1, <2>2 DEF RingTyped
<1> QED
  BY <1>2, <1>3, <1>4, <1>5, RingSteps

LEMMA HandlerHasSlotStep ==
  ASSUME Types, [Next]_vars
  PROVE  HandlerHasSlot'
<1>1. Nested(stack) /\ PortsTyped /\ HandlerHasSlot /\ length \in Nat
  BY Constants DEF Types, RingTyped
<1>2. CASE HandlerDone
  BY <1>1, <1>2, StackFrees DEF HandlerHasSlot
<1>3. CASE AbortPrint
  <2>1. "handler" \notin Bottom
    BY DEF Bottom
  <2> QED
    BY <1>1, <1>3, <2>1, StackAborts DEF HandlerHasSlot
<1>4. CASE RunCommand
  BY <1>4 DEF RunCommand, HandlerHasSlot, ringVars
<1>5. CASE ~HandlerDone /\ ~AbortPrint /\ ~RunCommand
  <2>1. Has(stack', "handler") <=> Has(stack, "handler")
    BY <1>1, <1>5, StackSteps DEF StackEffect
  <2>2. length' \in {length, length + 1}
    BY <1>5, RingSteps DEF Commits, Commit, ringVars
  <2> QED
    BY <1>1, <2>1, <2>2 DEF HandlerHasSlot
<1> QED
  BY <1>2, <1>3, <1>4, <1>5

LEMMA NumberTyped ==
  ASSUME NEW n \in Nat
  PROVE  Number(n) \in Nat
<1>1. IsFiniteSet(1 .. n)
  BY FS_Interval
<1>2. {k \in 1 .. n : Script[k] # "M410"} \in SUBSET (1 .. n)
  OBVIOUS
<1>3. IsFiniteSet({k \in 1 .. n : Script[k] # "M410"})
  BY <1>1, <1>2, FS_Subset
<1> QED
  BY <1>3, FS_CardinalityType DEF Number

LEMMA LineNumberedTyped ==
  ASSUME NEW number
  PROVE  LineNumbered(number) \in 1 .. Len(Script) + 1
<1> DEFINE found == {k \in DOMAIN Script : Script[k] # "M410" /\ Number(k) = number}
<1>1. DOMAIN Script = 1 .. Len(Script) /\ Len(Script) \in Nat
  BY Constants
<1>2. CASE found = {}
  BY <1>1, <1>2 DEF LineNumbered
<1>3. CASE found # {}
  <2>1. (CHOOSE k \in found : TRUE) \in found
    BY <1>3
  <2>2. (CHOOSE k \in found : TRUE) \in 1 .. Len(Script)
    BY <1>1, <2>1
  <2>3. LineNumbered(number) = CHOOSE k \in found : TRUE
    BY <1>3 DEF LineNumbered
  <2>4. 1 .. Len(Script) \subseteq 1 .. Len(Script) + 1
    BY <1>1
  <2> QED
    BY <2>2, <2>3, <2>4
<1> QED
  BY <1>2, <1>3

(* What a host sends.                                                      *)
LEMMA SentTyped ==
  ASSUME HostsTyped, NEW h \in Hosts, next[h] <= Len(Script), NEW good \in BOOLEAN
  PROVE  [n |-> next[h], kind |-> Script[next[h]], good |-> good] \in HostLines
<1>1. /\ Len(Script) \in Nat /\ next[h] \in 1 .. Len(Script) + 1
      /\ \A k \in 1 .. Len(Script) : Script[k] \in {"plain", "M410", "M290"}
  BY Constants DEF HostsTyped
<1>2. next[h] \in 1 .. Len(Script) /\ next[h] \in 0 .. Len(Script)
  BY <1>1
<1>3. Script[next[h]] \in {"plain", "M410", "M290"}
  BY <1>1, <1>2
<1> QED
  BY <1>2, <1>3 DEF HostLines

LEMMA PortsTypedStep ==
  ASSUME Types, [Next]_vars
  PROVE  PortsTyped'
<1>1. Nested(stack) /\ PortsTyped /\ HostsTyped
  BY DEF Types
<1>2. CASE UNCHANGED <<last_N, rx, buffer>>
  BY <1>1, <1>2 DEF PortsTyped
<1>3. CASE BabystepLine \/ LineError \/ AcceptLine \/ EarlyStopLine
  <2>1. AtLine /\ rx[Due] # <<>> /\ buffer' = [buffer EXCEPT ![Due] = Line]
    BY <1>3 DEF BabystepLine, LineError, AcceptLine, EarlyStopLine
  <2>2. Line \in HostLines /\ Tail(rx[Due]) \in Seq(HostLines) /\ Due \in Ports
    BY <1>1, <2>1, LineTyped
  <2>3. buffer' \in [Ports -> HostLines]
    BY <1>1, <2>1, <2>2 DEF PortsTyped
  <2>4. CASE BabystepLine \/ AcceptLine \/ EarlyStopLine
    <3>1. rx' = [rx EXCEPT ![Due] = Tail(@)]
      BY <2>4 DEF BabystepLine, AcceptLine, EarlyStopLine
    <3>2. rx' \in [Ports -> Seq(HostLines)]
      BY <1>1, <2>2, <3>1 DEF PortsTyped
    <3>3. last_N' \in [0 .. NumSerial -> Nat]
      <4>1. CASE AcceptLine
        <5>1. Line.n \in Nat
          BY <2>2, Constants DEF HostLines
        <5>2. Number(Line.n) \in Nat
          BY <5>1, NumberTyped
        <5> QED
          BY <1>1, <4>1, <5>2 DEF AcceptLine, PortsTyped
      <4>2. CASE BabystepLine \/ EarlyStopLine
        BY <1>1, <4>2 DEF BabystepLine, EarlyStopLine, PortsTyped
      <4> QED
        BY <2>4, <4>1, <4>2
    <3> QED
      BY <2>3, <3>2, <3>3 DEF PortsTyped
  <2>5. CASE LineError
    <3>1. /\ rx' = [j \in DOMAIN rx |-> IF j = Due + 1 THEN <<>>
                                        ELSE IF j = Due THEN Tail(rx[j]) ELSE rx[j]]
          /\ last_N' = last_N
      BY <2>5 DEF LineError, LineErrorAt
    <3>2. DOMAIN rx = Ports /\ \A j \in Ports : rx[j] \in Seq(HostLines)
      BY <1>1 DEF PortsTyped
    <3>3. <<>> \in Seq(HostLines)
      OBVIOUS
    <3>4. rx' \in [Ports -> Seq(HostLines)]
      BY <2>2, <3>1, <3>2, <3>3
    <3> QED
      BY <1>1, <2>3, <3>1, <3>4 DEF PortsTyped
  <2> QED
    BY <1>3, <2>4, <2>5
<1>4. CASE \E h \in Hosts : HostSend(h)
  <2>1. PICK h \in Hosts : HostSend(h)
    BY <1>4
  <2>2. PICK good \in BOOLEAN :
          rx' = [rx EXCEPT ![h] = Append(@, [n |-> next[h], kind |-> Script[next[h]], good |-> good])]
    BY <2>1 DEF HostSend
  <2>3. [n |-> next[h], kind |-> Script[next[h]], good |-> good] \in HostLines
    BY <1>1, <2>1, SentTyped DEF HostSend
  <2>4. h \in Ports /\ rx[h] \in Seq(HostLines)
    BY <1>1, Constants DEF PortsTyped
  <2>5. Append(rx[h], [n |-> next[h], kind |-> Script[next[h]], good |-> good]) \in Seq(HostLines)
    BY <2>3, <2>4, AppendProperties
  <2>6. rx' \in [Ports -> Seq(HostLines)]
    BY <1>1, <2>2, <2>4, <2>5 DEF PortsTyped
  <2> QED
    BY <1>1, <2>1, <2>6 DEF PortsTyped, HostSend
<1>5. CASE \/ CallIdle \/ EarlyStopDone \/ FileFinished \/ Aborted \/ InjectedDone \/ HandlerDone
           \/ SerialPass \/ SerialDone \/ LineGone \/ EnqueueAfterStop \/ MediaLine \/ MediaDone
           \/ UNCHANGED vars
  BY <1>2, <1>5 DEF CallIdle, EarlyStopDone, FileFinished, Aborted, InjectedDone, HandlerDone,
     SerialPass, SerialDone, LineGone, EnqueueAfterStop, MediaLine, MediaDone, vars
<1>6. CASE \/ PanelNothing \/ StoreCmd \/ MustStoreCmd \/ MustStored \/ Hold \/ StopPrint
           \/ LoopIdle \/ AbortPrint \/ FinishPrint \/ RunInjected \/ RunCommand \/ RunNothing
  BY <1>2, <1>6 DEF PanelNothing, StoreCmd, MustStoreCmd, MustStored, Hold, StopPrint, LoopIdle,
     AbortPrint, FinishPrint, RunInjected, RunCommand, RunNothing
<1> QED
  BY <1>3, <1>4, <1>5, <1>6 DEF Next, Program, Return

LEMMA FileTypedStep ==
  ASSUME Types, [Next]_vars
  PROVE  FileTyped'
<1>1. FileTyped /\ FileLines \in Nat
  BY Constants DEF Types
<1>2. CASE UNCHANGED file
  BY <1>1, <1>2 DEF FileTyped
<1>3. CASE MediaLine
  <2>1. file' = [file EXCEPT !.next = @ + 1] /\ file.next <= FileLines
    BY <1>3 DEF MediaLine, MayRead
  <2>2. file.next + 1 \in 1 .. FileLines + 1
    BY <1>1, <2>1 DEF FileTyped
  <2> QED
    BY <1>1, <2>1, <2>2 DEF FileTyped
<1>4. CASE FileFinished \/ Aborted \/ StopPrint
  BY <1>1, <1>4 DEF FileFinished, Aborted, StopPrint, FileTyped
<1>5. CASE Hold
  BY <1>1, <1>5 DEF Hold, FileTyped
<1>6. CASE FinishPrint
  BY <1>1, <1>6 DEF FinishPrint, FileTyped
<1>7. CASE \/ CallIdle \/ EarlyStopDone \/ InjectedDone \/ HandlerDone
           \/ SerialPass \/ SerialDone \/ LineGone \/ BabystepLine \/ LineError \/ AcceptLine
           \/ EarlyStopLine \/ EnqueueAfterStop \/ MediaDone \/ UNCHANGED vars
  BY <1>2, <1>7 DEF CallIdle, EarlyStopDone, InjectedDone, HandlerDone, SerialPass, SerialDone,
     LineGone, BabystepLine, LineError, AcceptLine, EarlyStopLine, EnqueueAfterStop, MediaDone, vars
<1>8. CASE \/ PanelNothing \/ StoreCmd \/ MustStoreCmd \/ MustStored
           \/ LoopIdle \/ AbortPrint \/ RunInjected \/ RunCommand \/ RunNothing
           \/ \E h \in Hosts : HostSend(h)
  BY <1>2, <1>8 DEF PanelNothing, StoreCmd, MustStoreCmd, MustStored, LoopIdle, AbortPrint,
     RunInjected, RunCommand, RunNothing, HostSend
<1> QED
  BY <1>3, <1>4, <1>5, <1>6, <1>7, <1>8 DEF Next, Program, Return

LEMMA OkTyped ==
  ASSUME HostsTyped, OkToSend
  PROVE  unanswered' \in [Hosts -> 0 .. Window]
<1>1. \A h \in Hosts : unanswered[h] \in 0 .. Window /\ Window \in Nat
  BY Constants DEF HostsTyped
<1>2. \A h \in Hosts : unanswered[h] > 0 => unanswered[h] - 1 \in 0 .. Window
  BY <1>1
<1> QED
  BY <1>1, <1>2 DEF OkToSend

LEMMA HostsTypedStep ==
  ASSUME Types, [Next]_vars
  PROVE  HostsTyped'
<1>1. HostsTyped /\ Window \in Nat /\ Len(Script) \in Nat
  BY Constants DEF Types
<1>2. CASE UNCHANGED <<next, unanswered>>
  BY <1>1, <1>2 DEF HostsTyped
<1>3. CASE HandlerDone \/ InjectedDone
  <2>1. OkToSend /\ next' = next
    BY <1>3 DEF HandlerDone, InjectedDone
  <2> QED
    BY <1>1, <2>1, OkTyped DEF HostsTyped
<1>4. CASE LineError
  <2>1. LineErrorAt(Due, Due + 1)
    BY <1>4 DEF LineError
  <2>2. OkToSend
    BY <2>1 DEF LineErrorAt
  <2> DEFINE q == port[index_r]
             number == last_N[q] + 1
  <2>3. next' = [h \in Hosts |-> IF q >= 0 /\ h = SerialOf(q) THEN LineNumbered(number)
                                 ELSE next[h]]
    BY <2>1 DEF LineErrorAt
  <2>4. LineNumbered(number) \in 1 .. Len(Script) + 1
    BY LineNumberedTyped
  <2> HIDE DEF q, number
  <2>5. next' \in [Hosts -> 1 .. Len(Script) + 1]
    BY <1>1, <2>3, <2>4 DEF HostsTyped
  <2>6. unanswered' \in [Hosts -> 0 .. Window]
    BY <1>1, <2>2, OkTyped
  <2> QED
    BY <2>5, <2>6 DEF HostsTyped
<1>5. CASE \E h \in Hosts : HostSend(h)
  <2>1. PICK h \in Hosts : HostSend(h)
    BY <1>5
  <2>2. /\ next[h] <= Len(Script) /\ unanswered[h] < Window
        /\ next' = [next EXCEPT ![h] = @ + 1] /\ unanswered' = [unanswered EXCEPT ![h] = @ + 1]
    BY <2>1 DEF HostSend
  <2>3. next[h] + 1 \in 1 .. Len(Script) + 1 /\ unanswered[h] + 1 \in 0 .. Window
    BY <1>1, <2>2 DEF HostsTyped
  <2> QED
    BY <1>1, <2>2, <2>3 DEF HostsTyped
<1>6. CASE \/ CallIdle \/ EarlyStopDone \/ FileFinished \/ Aborted
           \/ SerialPass \/ SerialDone \/ LineGone \/ BabystepLine \/ AcceptLine
           \/ EarlyStopLine \/ EnqueueAfterStop \/ MediaLine \/ MediaDone \/ UNCHANGED vars
  BY <1>2, <1>6 DEF CallIdle, EarlyStopDone, FileFinished, Aborted, SerialPass, SerialDone,
     LineGone, BabystepLine, AcceptLine, EarlyStopLine, EnqueueAfterStop, MediaLine, MediaDone,
     vars, hostVars
<1>7. CASE \/ PanelNothing \/ StoreCmd \/ MustStoreCmd \/ MustStored \/ Hold \/ StopPrint
           \/ LoopIdle \/ AbortPrint \/ FinishPrint \/ RunInjected \/ RunCommand \/ RunNothing
  BY <1>2, <1>7 DEF PanelNothing, StoreCmd, MustStoreCmd, MustStored, Hold, StopPrint, LoopIdle,
     AbortPrint, FinishPrint, RunInjected, RunCommand, RunNothing, hostVars
<1> QED
  BY <1>3, <1>4, <1>5, <1>6, <1>7 DEF Next, Program, Return

LEMMA BudgetSame ==
  ASSUME BudgetTyped, UNCHANGED budget, Depths(stack') = Depths(stack)
  PROVE  BudgetTyped'
BY DEF BudgetTyped

LEMMA BudgetTypedStep ==
  ASSUME Types, [Next]_vars
  PROVE  BudgetTyped'
<1>1. BudgetTyped /\ Nested(stack) /\ PortsTyped /\ StackEffect
  BY StackSteps DEF Types
<1>2. /\ budget \in Budgets /\ budget.entered \in Nat /\ budget.press \in Nat
      /\ budget.must \in Nat /\ budget.hold \in Nat /\ budget.bad \in Nat
      /\ budget.entered + budget.press + budget.must + Cardinality(Depths(stack))
           = Presses + MustPresses
  BY <1>1 DEF BudgetTyped, Budgets
<1>3. /\ IsFiniteSet(Depths(stack)) /\ Cardinality(Depths(stack)) \in Nat
      /\ Cardinality(Depths(stack')) \in Nat /\ Presses \in Nat /\ MustPresses \in Nat
  BY <1>1, FiniteDepths, Constants DEF StackEffect
<1>4. CASE MustStoreCmd
  <2>1. budget' = [budget EXCEPT !.must = @ - 1] /\ budget.must > 0
    BY <1>4 DEF MustStoreCmd
  <2>2. Cardinality(Depths(stack')) = Cardinality(Depths(stack)) + 1
    BY <1>1, <1>3, <1>4, StackStores, FS_AddElement
  <2>3. budget' \in Budgets
    BY <1>2, <2>1 DEF Budgets
  <2>4. budget'.entered = budget.entered /\ budget'.press = budget.press /\ budget'.must = budget.must - 1
    BY <1>2, <2>1 DEF Budgets
  <2> QED
    BY <1>2, <1>3, <2>2, <2>3, <2>4 DEF BudgetTyped
<1>5. CASE MustStored
  <2>1. budget' = [budget EXCEPT !.entered = @ + 1]
    BY <1>5 DEF MustStored
  <2>2. Cardinality(Depths(stack')) = Cardinality(Depths(stack)) - 1
    BY <1>1, <1>3, <1>5, StackStores, FS_RemoveElement
  <2>3. budget' \in Budgets
    BY <1>2, <2>1 DEF Budgets
  <2>4. budget'.entered = budget.entered + 1 /\ budget'.press = budget.press /\ budget'.must = budget.must
    BY <1>2, <2>1 DEF Budgets
  <2> QED
    BY <1>2, <1>3, <2>2, <2>3, <2>4 DEF BudgetTyped
<1>6. CASE StoreCmd
  <2>1. budget' = [budget EXCEPT !.press = @ - 1, !.entered = @ + 1] /\ budget.press > 0
    BY <1>6 DEF StoreCmd
  <2>2. Depths(stack') = Depths(stack)
    BY <1>1, <1>6, ReturnSteps DEF Quiet
  <2>3. budget' \in Budgets
    <3>1. budget.press - 1 \in Nat /\ budget.entered + 1 \in Nat
      BY <1>2, <2>1
    <3>2. budget' = [[budget EXCEPT !.press = budget.press - 1] EXCEPT !.entered = budget.entered + 1]
      BY <1>2, <2>1 DEF Budgets
    <3> QED
      BY <1>2, <3>1, <3>2 DEF Budgets
  <2>4. budget'.entered = budget.entered + 1 /\ budget'.press = budget.press - 1 /\ budget'.must = budget.must
    BY <1>2, <2>1 DEF Budgets
  <2> QED
    BY <1>2, <1>3, <2>2, <2>3, <2>4 DEF BudgetTyped
<1>7. CASE Hold
  <2>1. budget' = [budget EXCEPT !.hold = @ - 1] /\ budget.hold > 0
    BY <1>7 DEF Hold
  <2>2. Depths(stack') = Depths(stack)
    BY <1>1, <1>7, ReturnSteps DEF Quiet
  <2>3. budget' \in Budgets
    BY <1>2, <2>1 DEF Budgets
  <2>4. budget'.entered = budget.entered /\ budget'.press = budget.press /\ budget'.must = budget.must
    BY <1>2, <2>1 DEF Budgets
  <2> QED
    BY <1>2, <1>3, <2>2, <2>3, <2>4 DEF BudgetTyped
<1>8. CASE \E h \in Hosts : HostSend(h)
  <2>1. PICK h \in Hosts : HostSend(h)
    BY <1>8
  <2>2. PICK good \in BOOLEAN :
          /\ ~good => budget.bad > 0
          /\ budget' = [budget EXCEPT !.bad = IF good THEN @ ELSE @ - 1]
    BY <2>1 DEF HostSend
  <2>3. (IF good THEN budget.bad ELSE budget.bad - 1) \in Nat
    BY <1>2, <2>2
  <2>4. budget' \in Budgets
    BY <1>2, <2>2, <2>3 DEF Budgets
  <2>5. budget'.entered = budget.entered /\ budget'.press = budget.press /\ budget'.must = budget.must
    BY <1>2, <2>2 DEF Budgets
  <2>6. stack' = stack
    BY <2>1 DEF HostSend
  <2> QED
    BY <1>2, <1>3, <2>4, <2>5, <2>6 DEF BudgetTyped
<1>9. CASE \/ CallIdle \/ EarlyStopDone \/ FileFinished \/ Aborted \/ HandlerDone \/ InjectedDone
           \/ SerialPass \/ SerialDone \/ LineGone \/ BabystepLine \/ LineError \/ AcceptLine
           \/ EarlyStopLine \/ EnqueueAfterStop \/ MediaLine \/ MediaDone \/ UNCHANGED vars
  <2>1. UNCHANGED budget
    BY <1>9 DEF CallIdle, EarlyStopDone, FileFinished, Aborted, HandlerDone, InjectedDone,
     SerialPass, SerialDone, LineGone, BabystepLine, LineError, AcceptLine, EarlyStopLine,
     EnqueueAfterStop, MediaLine, MediaDone, vars
  <2>2. CASE MustStoreCmd \/ MustStored
    BY <1>4, <1>5, <2>2
  <2>3. CASE ~MustStoreCmd /\ ~MustStored
    BY <1>1, <2>1, <2>3, BudgetSame DEF StackEffect
  <2> QED
    BY <2>2, <2>3
<1>10. CASE \/ PanelNothing \/ StopPrint \/ LoopIdle \/ AbortPrint \/ FinishPrint
            \/ RunInjected \/ RunCommand \/ RunNothing
  <2>1. UNCHANGED budget
    BY <1>10 DEF PanelNothing, StopPrint, LoopIdle, AbortPrint, FinishPrint, RunInjected,
     RunCommand, RunNothing
  <2>2. CASE MustStoreCmd \/ MustStored
    BY <1>4, <1>5, <2>2
  <2>3. CASE ~MustStoreCmd /\ ~MustStored
    BY <1>1, <2>1, <2>3, BudgetSame DEF StackEffect
  <2> QED
    BY <2>2, <2>3
<1> QED
  BY <1>4, <1>5, <1>6, <1>7, <1>8, <1>9, <1>10 DEF Next, Program, Return

LEMMA HistoryTypedStep ==
  ASSUME Types, [Next]_vars
  PROVE  HistoryTyped'
<1>1. HistoryTyped /\ RingTyped
  BY DEF Types
<1>2. CASE UNCHANGED <<ran, injected, stopped>>
  BY <1>1, <1>2 DEF HistoryTyped
<1>3. CASE RunCommand
  <2>1. command[index_r] \in AllCommands
    BY <1>1 DEF RingTyped
  <2>2. command[index_r].src \in Sources /\ command[index_r].n \in Nat
    BY <2>1, Constants DEF AllCommands
  <2>3. ran' = [ran EXCEPT ![command[index_r].src] = command[index_r].n]
        /\ UNCHANGED <<injected, stopped>>
    BY <1>3 DEF RunCommand
  <2> QED
    BY <1>1, <2>2, <2>3 DEF HistoryTyped
<1>4. CASE AcceptLine \/ EnqueueAfterStop
  <2>1. UNCHANGED <<ran, injected, stopped>>
    BY <1>4 DEF AcceptLine, EnqueueAfterStop, histVars
  <2> QED
    BY <1>1, <2>1 DEF HistoryTyped
<1>5. CASE StopPrint
  BY <1>1, <1>5 DEF StopPrint, HistoryTyped
<1>6. CASE AbortPrint \/ Aborted \/ RunInjected
  BY <1>1, <1>6 DEF AbortPrint, Aborted, RunInjected, HistoryTyped, histVars
<1>7. CASE LineError \/ \E h \in Hosts : HostSend(h)
  BY <1>2, <1>7 DEF LineError, HostSend, histVars
<1>8. CASE \/ CallIdle \/ EarlyStopDone \/ FileFinished \/ HandlerDone \/ InjectedDone
           \/ SerialPass \/ SerialDone \/ LineGone \/ BabystepLine
           \/ EarlyStopLine \/ MediaLine \/ MediaDone \/ UNCHANGED vars
  BY <1>2, <1>8 DEF CallIdle, EarlyStopDone, FileFinished, HandlerDone, InjectedDone,
     SerialPass, SerialDone, LineGone, BabystepLine, EarlyStopLine, MediaLine, MediaDone, vars,
     histVars
<1>9. CASE \/ PanelNothing \/ StoreCmd \/ MustStoreCmd \/ MustStored \/ Hold
           \/ LoopIdle \/ FinishPrint \/ RunNothing
  BY <1>2, <1>9 DEF PanelNothing, StoreCmd, MustStoreCmd, MustStored, Hold, LoopIdle,
     FinishPrint, RunNothing, histVars
<1> QED
  BY <1>3, <1>4, <1>5, <1>6, <1>7, <1>8, <1>9 DEF Next, Program, Return

LEMMA TypesInit ==
  ASSUME Init
  PROVE  Types
<1>1. Nested(stack) /\ \A x : Has(stack, x) <=> x = "loop"
  <2>1. stack = <<Frame("loop")>> /\ Frame("loop") \in FrameT /\ Frame("loop").at = "loop"
    BY Frames DEF Init, Labels
  <2>2. "loop" \in Bottom
    BY DEF Bottom
  <2> QED
    BY <2>1, <2>2, OneCall
<1>2. RingTyped
  <2>1. 0 \in Slots /\ (0 + 0) % BufSize = 0 /\ 0 \in 0 .. BufSize
    BY Constants DEF Slots
  <2>2. NoCommand \in AllCommands /\ 0 \in -1 .. NumSerial
    BY Constants DEF NoCommand, AllCommands, Sources
  <2> QED
    BY <2>1, <2>2 DEF Init, RingTyped, Slots
<1>3. PortsTyped
  <2>1. NoLine \in HostLines /\ <<>> \in Seq(HostLines)
    BY Constants DEF NoLine, HostLines
  <2> QED
    BY <2>1 DEF Init, PortsTyped, Ports
<1>4. FileTyped
  <2>1. 1 \in 1 .. FileLines + 1
    BY Constants
  <2> QED
    BY <2>1 DEF Init, FileTyped
<1>5. HostsTyped
  <2>1. 1 \in 1 .. Len(Script) + 1 /\ 0 \in 0 .. Window
    BY Constants
  <2> QED
    BY <2>1 DEF Init, HostsTyped
<1>6. BudgetTyped
  <2>1. budget \in Budgets
    BY Constants DEF Init, Budgets
  <2>2. Depths(stack) = {}
    <3>1. Last(stack).at \in Bottom
      BY <1>1, TopFrame DEF Bottom
    <3> QED
      BY <1>1, <3>1, OnlyLoop
  <2>3. Cardinality(Depths(stack)) = 0
    BY <2>2, FS_EmptySet
  <2>4. budget.entered = 0 /\ budget.press = Presses /\ budget.must = MustPresses
    BY DEF Init
  <2> QED
    BY <2>1, <2>3, <2>4, Constants DEF BudgetTyped
<1>7. HistoryTyped
  BY DEF Init, HistoryTyped
<1>8. HandlerHasSlot
  BY <1>1 DEF HandlerHasSlot
<1> QED
  BY <1>1, <1>2, <1>3, <1>4, <1>5, <1>6, <1>7, <1>8 DEF Types

LEMMA TypesStep ==
  ASSUME Types, [Next]_vars
  PROVE  Types'
<1>1. Nested(stack')
  BY StackSteps DEF Types, StackEffect
<1> QED
  BY <1>1, RingTypedStep, PortsTypedStep, FileTypedStep, HostsTypedStep, BudgetTypedStep,
     HistoryTypedStep, HandlerHasSlotStep DEF Types

LEMMA TypesHold == Spec => []Types
<1>1. Init => Types
  BY TypesInit
<1>2. Types /\ [Next]_vars => Types'
  BY TypesStep
<1> QED
  BY <1>1, <1>2, PTL DEF Spec

(* However deep the calls of idle() nest, every variable keeps its type:   *)
(* no index leaves the ring, no slot is filled beyond BUFSIZE, none is     *)
(* freed twice, and the calls under way are where they can be.             *)
THEOREM TypeCorrect == Spec => []TypeOK
<1>1. Types => TypeOK
  <2> SUFFICES ASSUME Types
               PROVE  TypeOK
    OBVIOUS
  <2>1. length \in 0 .. BufSize /\ {index_r, index_w} \subseteq 0 .. BufSize - 1
    BY DEF Types, RingTyped, Slots
  <2>2. \A i \in 0 .. BufSize - 1 :
          /\ command[i] \in [src : Sources, n : Nat]
          /\ port[i] \in -1 .. NumSerial /\ send_ok[i] \in BOOLEAN
    <3> TAKE i \in 0 .. BufSize - 1
    <3>1. command[i] \in AllCommands /\ port[i] \in -1 .. NumSerial /\ send_ok[i] \in BOOLEAN
      BY DEF Types, RingTyped, Slots
    <3>2. 0 .. Len(Script) + FileLines + Presses + MustPresses + 1 \subseteq Nat
      BY Constants
    <3>3. command[i] \in [src : Sources, n : Nat]
      BY <3>1, <3>2 DEF AllCommands
    <3> QED
      BY <3>1, <3>3
  <2>3. HostLines \subseteq Lines
    BY Constants DEF HostLines, Lines
  <2>4. \A i \in 0 .. NumSerial : last_N[i] \in Nat
    BY DEF Types, PortsTyped
  <2>5. DOMAIN rx = Ports /\ \A i \in Ports : buffer[i] \in HostLines /\ rx[i] \in Seq(HostLines)
    BY DEF Types, PortsTyped
  <2>6. \A i \in DOMAIN rx : buffer[i] \in Lines /\ \A k \in DOMAIN rx[i] : rx[i][k] \in Lines
    BY <2>3, <2>5
  <2>7. \A k \in DOMAIN stack : stack[k].at \in Labels /\ stack[k].left \subseteq DOMAIN rx
    <3>1. stack \in Seq(FrameT)
      BY DEF Types, Nested
    <3>2. \A k \in DOMAIN stack : stack[k] \in FrameT
      BY <3>1
    <3> QED
      BY <2>5, <3>2 DEF FrameT
  <2>8. \A h \in Hosts : next[h] \in Nat /\ unanswered[h] \in 0 .. Window
    BY Constants DEF Types, HostsTyped
  <2>9. injected \in BOOLEAN /\ stopped \in BOOLEAN /\ \A s \in Sources : ran[s] \in Nat
    BY DEF Types, HistoryTyped
  <2>10. file \in [next : 1 .. FileLines + 1, printing : BOOLEAN, pause : BOOLEAN,
                   stop : BOOLEAN, complete : BOOLEAN]
    BY DEF Types, FileTyped
  <2> QED
    BY <2>1, <2>2, <2>4, <2>6, <2>7, <2>8, <2>9, <2>10 DEF TypeOK
<1> QED
  BY <1>1, TypesHold, PTL
-----------------------------------------------------------------------------
(* The ring as a sequence *)

Held(m, r, n) == [k \in 1 .. n |-> m[(r + k - 1) % BufSize]]
Pend          == Held(command, index_r, length)
Handling      == \E k \in DOMAIN stack : stack[k].at = "handler"

LEMMA HeldTyped ==
  ASSUME NEW m \in [Slots -> AllCommands], NEW r \in Slots, NEW n \in 0 .. BufSize
  PROVE  /\ Held(m, r, n) \in Seq(AllCommands) /\ Len(Held(m, r, n)) = n
         /\ \A k \in 1 .. n : /\ (r + k - 1) % BufSize \in Slots
                              /\ Held(m, r, n)[k] = m[(r + k - 1) % BufSize]
<1>1. BufSize \in Nat /\ BufSize > 2 /\ r \in Nat /\ r < BufSize /\ n \in Nat /\ n <= BufSize
  BY Constants DEF Slots
<1>2. ASSUME NEW k \in 1 .. n
      PROVE  (r + k - 1) % BufSize \in Slots
  <2>1. r + k - 1 \in Nat /\ r + k - 1 < BufSize + BufSize
    BY <1>1, <1>2
  <2> QED
    BY <2>1, Wrap
<1>3. \A k \in 1 .. n : m[(r + k - 1) % BufSize] \in AllCommands
  BY <1>2
<1>4. Held(m, r, n) \in [1 .. n -> AllCommands]
  BY <1>3 DEF Held
<1>5. Held(m, r, n) \in Seq(AllCommands) /\ Len(Held(m, r, n)) = n
  BY <1>1, <1>4
<1> QED
  BY <1>2, <1>5 DEF Held

LEMMA PendTyped ==
  ASSUME RingTyped
  PROVE  /\ Pend \in Seq(AllCommands) /\ Len(Pend) = length /\ length \in 0 .. BufSize
         /\ \A k \in 1 .. length : Pend[k] = command[(index_r + k - 1) % BufSize]
         /\ length > 0 => Pend # <<>> /\ Head(Pend) = command[index_r]
         /\ length = 0 => Pend = <<>>
<1>1. /\ Pend \in Seq(AllCommands) /\ Len(Pend) = length /\ length \in 0 .. BufSize
      /\ \A k \in 1 .. length : Pend[k] = command[(index_r + k - 1) % BufSize]
  BY HeldTyped DEF RingTyped, Pend
<1>2. length = 0 => Pend = <<>>
  BY <1>1, EmptySeq
<1>3. ASSUME length > 0
      PROVE  Pend # <<>> /\ Head(Pend) = command[index_r]
  <2>1. BufSize \in Nat /\ BufSize > 2 /\ index_r \in Nat /\ index_r < BufSize
    BY Constants DEF RingTyped, Slots
  <2>2. 1 \in 1 .. length
    BY <1>1, <1>3, <2>1
  <2>3. (index_r + 1 - 1) % BufSize = index_r
    BY <2>1, Wrap
  <2>4. Pend[1] = command[index_r]
    BY <1>1, <2>2, <2>3
  <2>5. Pend # <<>>
    BY <1>1, <1>3, EmptySeq
  <2> QED
    BY <1>1, <2>4, <2>5
<1> QED
  BY <1>1, <1>2, <1>3

LEMMA PendTypedNext ==
  ASSUME RingTyped'
  PROVE  /\ Pend' \in Seq(AllCommands) /\ Len(Pend') = length' /\ length' \in 0 .. BufSize
         /\ \A k \in 1 .. length' : Pend'[k] = command'[(index_r' + k - 1) % BufSize]
BY HeldTyped DEF RingTyped, Pend

LEMMA PendAppend ==
  ASSUME RingTyped, RingTyped', NEW c \in AllCommands, NEW ok, NEW p, Commit(c, ok, p), ~full
  PROVE  Pend' = Append(Pend, c) /\ length < BufSize
<1>1. /\ Pend \in Seq(AllCommands) /\ Len(Pend) = length
      /\ \A k \in 1 .. length : Pend[k] = command[(index_r + k - 1) % BufSize]
  BY PendTyped
<1>2. /\ Pend' \in Seq(AllCommands) /\ Len(Pend') = length'
      /\ \A k \in 1 .. length' : Pend'[k] = command'[(index_r' + k - 1) % BufSize]
  BY PendTypedNext
<1>3. /\ length' = length + 1 /\ index_r' = index_r /\ length \in Nat /\ length < BufSize
      /\ command' = [command EXCEPT ![index_w] = c] /\ command \in [Slots -> AllCommands]
      /\ index_w \in Slots /\ index_w = (index_r + length) % BufSize
      /\ index_r \in Nat /\ index_r < BufSize /\ BufSize \in Nat /\ BufSize > 2
  BY Constants DEF Commit, full, RingTyped, Slots
<1>4. /\ Append(Pend, c) \in Seq(AllCommands) /\ Len(Append(Pend, c)) = length + 1
      /\ \A k \in 1 .. length : Append(Pend, c)[k] = Pend[k]
      /\ Append(Pend, c)[length + 1] = c
  BY <1>1, AppendProperties
<1>5. ASSUME NEW k \in 1 .. length
      PROVE  Pend'[k] = Append(Pend, c)[k]
  <2>1. k \in Nat /\ k > 0 /\ k <= length /\ k \in 1 .. length'
    BY <1>3, <1>5
  <2>2. (index_r + k - 1) % BufSize = (IF index_r + k - 1 < BufSize
          THEN index_r + k - 1 ELSE index_r + k - 1 - BufSize)
        /\ (index_r + k - 1) % BufSize \in Slots
    BY <1>3, <2>1, Wrap
  <2>3. index_w = IF index_r + length < BufSize THEN index_r + length ELSE index_r + length - BufSize
    BY <1>3, Wrap
  <2>4. (index_r + k - 1) % BufSize # index_w
    BY <1>3, <2>1, <2>2, <2>3
  <2> QED
    BY <1>1, <1>2, <1>3, <1>4, <2>1, <2>2, <2>4
<1>6. Pend'[length + 1] = c
  <2>1. length + 1 \in 1 .. length' /\ index_r + (length + 1) - 1 = index_r + length
    BY <1>3
  <2> QED
    BY <1>2, <1>3, <2>1
<1>7. \A k \in 1 .. length + 1 : k \in 1 .. length \/ k = length + 1
  BY <1>3
<1> QED
  BY <1>2, <1>3, <1>4, <1>5, <1>6, <1>7, SeqEqual

LEMMA PendTail ==
  ASSUME RingTyped, RingTyped', length > 0, length' = length - 1, index_r' = NextSlot(index_r),
         command' = command
  PROVE  Pend' = Tail(Pend) /\ Pend # <<>>
<1>1. /\ Pend \in Seq(AllCommands) /\ Len(Pend) = length /\ Pend # <<>>
      /\ \A k \in 1 .. length : Pend[k] = command[(index_r + k - 1) % BufSize]
  BY PendTyped
<1>2. /\ Pend' \in Seq(AllCommands) /\ Len(Pend') = length'
      /\ \A k \in 1 .. length' : Pend'[k] = command'[(index_r' + k - 1) % BufSize]
  BY PendTypedNext
<1>3. /\ Tail(Pend) \in Seq(AllCommands) /\ Len(Tail(Pend)) = length - 1
      /\ \A k \in 1 .. length - 1 : Tail(Pend)[k] = Pend[k + 1]
  BY <1>1, HeadTailProperties
<1>4. /\ index_r \in Nat /\ index_r < BufSize /\ length \in Nat /\ length <= BufSize
      /\ BufSize \in Nat /\ BufSize > 2 /\ index_r \in Slots
  BY Constants DEF RingTyped, Slots
<1>5. ASSUME NEW k \in 1 .. length - 1
      PROVE  Pend'[k] = Tail(Pend)[k]
  <2>1. k \in Nat /\ k > 0 /\ k < length /\ k \in 1 .. length' /\ k + 1 \in 1 .. length
    BY <1>4, <1>5
  <2> DEFINE i == index_r'
  <2>2. i = IF index_r + 1 < BufSize THEN index_r + 1 ELSE 0
    BY <1>4 DEF NextSlot
  <2> HIDE DEF i
  <2>3. (i + k - 1) % BufSize = IF i + k - 1 < BufSize THEN i + k - 1 ELSE i + k - 1 - BufSize
    BY <1>4, <2>1, <2>2, Wrap
  <2>4. (index_r + (k + 1) - 1) % BufSize = IF index_r + (k + 1) - 1 < BufSize
          THEN index_r + (k + 1) - 1 ELSE index_r + (k + 1) - 1 - BufSize
    BY <1>4, <2>1, Wrap
  <2>5. (i + k - 1) % BufSize = (index_r + (k + 1) - 1) % BufSize
    BY <1>4, <2>1, <2>2, <2>3, <2>4
  <2> QED
    BY <1>1, <1>2, <1>3, <2>1, <2>5 DEF i
<1> QED
  BY <1>1, <1>2, <1>3, <1>5, SeqEqual

(* What a step does to the sequence.                                       *)
LEMMA PendSteps ==
  ASSUME Types, [Next]_vars
  PROVE  \/ Pend' = Pend /\ ~Commits /\ ~HandlerDone /\ ~AbortPrint
         \/ HandlerDone /\ Pend # <<>> /\ Pend' = Tail(Pend)
         \/ AbortPrint /\ Pend' = <<>>
         \/ \E c \in AllCommands : Owner(c) /\ Pend' = Append(Pend, c) /\ Len(Pend) < BufSize
<1>1. RingTyped /\ RingTyped' /\ Nested(stack) /\ HandlerHasSlot
  BY RingTypedStep DEF Types
<1>2. CASE Commits
  <2>1. PICK c \in AllCommands, ok \in BOOLEAN, p \in -1 .. NumSerial :
          Commit(c, ok, p) /\ ~full /\ Owner(c)
    BY <1>2 DEF Commits
  <2>2. Pend' = Append(Pend, c) /\ Len(Pend) < BufSize
    BY <1>1, <2>1, PendAppend, PendTyped
  <2> QED
    BY <2>1, <2>2
<1>3. CASE HandlerDone
  <2>1. length > 0
    BY <1>1, <1>3, StackFrees DEF HandlerHasSlot
  <2>2. length' = length - 1 /\ index_r' = NextSlot(index_r) /\ command' = command
    BY <1>3 DEF HandlerDone
  <2> QED
    BY <1>1, <1>3, <2>1, <2>2, PendTail
<1>4. CASE AbortPrint
  <2>1. length' = 0
    BY <1>4 DEF AbortPrint
  <2>2. Pend' = <<>>
    BY <1>1, <2>1, PendTypedNext, EmptySeq
  <2> QED
    BY <1>4, <2>2
<1>5. CASE UNCHANGED ringVars
  BY <1>2, <1>3, <1>4, <1>5 DEF ringVars, Pend
<1> QED
  BY <1>2, <1>3, <1>4, <1>5, RingSteps
-----------------------------------------------------------------------------
(* Every step is a step of CommandQueue or changes nothing of it *)

QueueStep == [Commands!QNext]_<<Pend, Handling>>

LEMMA IsHandling ==
  ASSUME NEW s, Nested(s)
  PROVE  (\E k \in DOMAIN s : s[k].at = "handler") <=> Has(s, "handler")
<1>1. s \in Seq(FrameT)
  BY DEF Nested
<1>2. DOMAIN s = 1 .. Len(s)
  BY <1>1
<1> QED
  BY <1>2 DEF Has

LEMMA Stutters ==
  ASSUME Pend' = Pend, Handling' <=> Handling
  PROVE  QueueStep
<1>1. Handling' = Handling
  BY DEF Handling
<1> QED
  BY <1>1 DEF QueueStep

LEMMA Accepts ==
  ASSUME NEW c \in AllCommands, Len(Pend) < BufSize, Pend' = Append(Pend, c),
         Handling' <=> Handling
  PROVE  QueueStep
<1>1. Handling' = Handling
  BY DEF Handling
<1> QED
  BY <1>1 DEF QueueStep, Pend, Held, Handling, Commands!QNext, Commands!Accept

LEMMA Starts ==
  ASSUME ~Handling, Pend # <<>>, Handling', Pend' = Pend
  PROVE  QueueStep
<1>1. Handling' = TRUE
  BY DEF Handling
<1> QED
  BY <1>1 DEF QueueStep, Pend, Held, Handling, Commands!QNext, Commands!Start

LEMMA Finishes ==
  ASSUME Handling, ~Handling', Pend' = Tail(Pend)
  PROVE  QueueStep
<1>1. Handling' = FALSE
  BY DEF Handling
<1> QED
  BY <1>1 DEF QueueStep, Pend, Held, Handling, Commands!QNext, Commands!Finish

LEMMA Clears ==
  ASSUME ~Handling, ~Handling', Pend' = <<>>
  PROVE  QueueStep
<1>1. Handling' = Handling
  BY DEF Handling
<1> QED
  BY <1>1 DEF QueueStep, Pend, Held, Handling, Commands!QNext, Commands!Clear

LEMMA QueueSteps ==
  ASSUME Types, [Next]_vars
  PROVE  QueueStep
<1>1. Nested(stack) /\ PortsTyped /\ RingTyped /\ StackEffect
  BY StackSteps DEF Types
<1>2. Nested(stack')
  BY <1>1 DEF StackEffect
<1>3. (Handling <=> Has(stack, "handler")) /\ (Handling' <=> Has(stack', "handler"))
  BY <1>1, <1>2, IsHandling DEF Handling
<1>4. CASE RunCommand
  <2>1. length > 0 /\ UNCHANGED ringVars /\ "handler" \notin Bottom
    BY <1>4 DEF RunCommand, Bottom
  <2>2. ~Has(stack, "handler") /\ Has(stack', "handler")
    BY <1>1, <1>4, <2>1, LoopCalls
  <2>3. Pend' = Pend /\ Pend # <<>>
    BY <1>1, <2>1, PendTyped DEF Pend, ringVars
  <2> QED
    BY <1>3, <2>2, <2>3, Starts
<1>5. CASE HandlerDone
  <2>1. Has(stack, "handler") /\ ~Has(stack', "handler")
    BY <1>1, <1>5, StackFrees
  <2>2. Pend' = Tail(Pend)
    <3>1. length > 0
      BY <2>1 DEF Types, HandlerHasSlot
    <3>2. length' = length - 1 /\ index_r' = NextSlot(index_r) /\ command' = command
      BY <1>5 DEF HandlerDone
    <3> QED
      BY <1>1, <3>1, <3>2, PendTail, RingTypedStep
  <2> QED
    BY <1>3, <2>1, <2>2, Finishes
<1>6. CASE AbortPrint
  <2>1. "handler" \notin Bottom /\ "handler" # "stopping"
    BY DEF Bottom
  <2>2. ~Has(stack, "handler") /\ ~Has(stack', "handler")
    BY <1>1, <1>6, <2>1, StackAborts
  <2>3. Pend' = <<>>
    <3>1. length' = 0
      BY <1>6 DEF AbortPrint
    <3> QED
      BY <3>1, PendTypedNext, RingTypedStep, EmptySeq
  <2> QED
    BY <1>3, <2>2, <2>3, Clears
<1>7. CASE ~RunCommand /\ ~HandlerDone /\ ~AbortPrint
  <2>1. Handling' <=> Handling
    BY <1>1, <1>3, <1>7 DEF StackEffect
  <2>2. CASE Pend' = Pend
    BY <2>1, <2>2, Stutters
  <2>3. CASE \E c \in AllCommands : Pend' = Append(Pend, c) /\ Len(Pend) < BufSize
    BY <2>1, <2>3, Accepts
  <2> QED
    BY <1>7, <2>2, <2>3, PendSteps
<1> QED
  BY <1>4, <1>5, <1>6, <1>7

(* However deep the calls nest, commands run to their end in the order in  *)
(* which they were committed, one at a time; the slot of the one being     *)
(* executed is not given out again; and clear() is never called under a    *)
(* handler, whose slot would otherwise be freed twice.                     *)
THEOREM RingIsAQueue == Spec => ImplementsCommandQueue
<1>1. Init => Commands!QInit
  <2> SUFFICES ASSUME Init PROVE Commands!QInit
    OBVIOUS
  <2>1. Types
    BY TypesInit
  <2>2. Pend = <<>>
    BY <2>1, PendTyped DEF Init, Types
  <2>3. Handling = FALSE
    BY Frames DEF Init, Handling, Labels
  <2> QED
    BY <2>2, <2>3 DEF Commands!QInit, Pend, Held, Handling
<1>2. Types /\ [Next]_vars => [Commands!QNext]_(Commands!qvars)
  BY QueueSteps DEF QueueStep, Pend, Held, Handling, Commands!qvars
<1> QED
  BY <1>1, <1>2, TypesHold, PTL DEF Spec, ImplementsCommandQueue, Commands!QSpec
-----------------------------------------------------------------------------
(* A stop of the print *)

(* From the stop until its end no more is read of the file; once the queue *)
(* has been cleared no command of the file is left in it; and the main     *)
(* program never gets from one to a command without the other.             *)
StopHolds ==
  /\ file.stop => stopped
  /\ stopped => ~file.printing
  /\ Has(stack, "stopping") => file.stop
  /\ stack[1].at = "advance" => ~file.stop
  /\ stopped /\ (~file.stop \/ Has(stack, "stopping"))
       => \A k \in 1 .. Len(Pend) : Pend[k].src # FileSource

LEMMA StopChange ==
  ASSUME FileTyped, [Next]_vars
  PROVE  \/ StopPrint /\ file'.stop /\ stopped' /\ ~file'.printing
         \/ Aborted /\ ~file'.stop /\ ~file'.printing /\ stopped' = stopped
         \/ /\ ~StopPrint /\ ~Aborted
            /\ file'.stop = file.stop /\ stopped' = stopped
            /\ file'.printing => file.printing
<1>1. CASE StopPrint
  BY <1>1 DEF StopPrint, FileTyped
<1>2. CASE Aborted
  BY <1>2 DEF Aborted, FileTyped, histVars
<1>3. CASE UNCHANGED <<file, stopped>>
  BY <1>1, <1>2, <1>3
<1>4. CASE MediaLine
  <2>1. file' = [file EXCEPT !.next = @ + 1] /\ stopped' = stopped
    BY <1>4 DEF MediaLine, histVars
  <2>2. file'.stop = file.stop /\ file'.printing = file.printing
    BY <2>1 DEF FileTyped
  <2> QED
    BY <1>1, <1>2, <2>1, <2>2
<1>5. CASE FileFinished
  <2>1. file' = [file EXCEPT !.printing = FALSE, !.complete = TRUE] /\ stopped' = stopped
    BY <1>5 DEF FileFinished, histVars
  <2>2. file'.stop = file.stop /\ ~file'.printing
    BY <2>1 DEF FileTyped
  <2> QED
    BY <1>1, <1>2, <2>1, <2>2
<1>6. CASE Hold
  <2>1. file' = [file EXCEPT !.pause = ~@] /\ stopped' = stopped
    BY <1>6 DEF Hold, histVars
  <2>2. file'.stop = file.stop /\ file'.printing = file.printing
    BY <2>1 DEF FileTyped
  <2> QED
    BY <1>1, <1>2, <2>1, <2>2
<1>7. CASE FinishPrint
  <2>1. file' \in {file, [file EXCEPT !.complete = FALSE]} /\ stopped' = stopped
    BY <1>7 DEF FinishPrint, histVars
  <2>2. file'.stop = file.stop /\ file'.printing = file.printing
    BY <2>1 DEF FileTyped
  <2> QED
    BY <1>1, <1>2, <2>1, <2>2
<1>8. CASE \/ CallIdle \/ EarlyStopDone \/ HandlerDone \/ InjectedDone
           \/ SerialPass \/ SerialDone \/ LineGone \/ BabystepLine \/ LineError \/ AcceptLine
           \/ EarlyStopLine \/ EnqueueAfterStop \/ MediaDone \/ UNCHANGED vars
  BY <1>3, <1>8 DEF CallIdle, EarlyStopDone, HandlerDone, InjectedDone, SerialPass, SerialDone,
     LineGone, BabystepLine, LineError, AcceptLine, EarlyStopLine, EnqueueAfterStop, MediaDone,
     vars, histVars
<1>9. CASE \/ PanelNothing \/ StoreCmd \/ MustStoreCmd \/ MustStored
           \/ LoopIdle \/ AbortPrint \/ RunInjected \/ RunCommand \/ RunNothing
           \/ \E h \in Hosts : HostSend(h)
  BY <1>3, <1>9 DEF PanelNothing, StoreCmd, MustStoreCmd, MustStored, LoopIdle, AbortPrint,
     RunInjected, RunCommand, RunNothing, HostSend, histVars
<1> QED
  BY <1>1, <1>2, <1>4, <1>5, <1>6, <1>7, <1>8, <1>9 DEF Next, Program, Return

(* Only starting a command makes history.                                  *)
LEMMA RanSteps ==
  ASSUME [Next]_vars, ~RunCommand
  PROVE  ran' = ran
<1>1. CASE \/ CallIdle \/ EarlyStopDone \/ FileFinished \/ Aborted \/ HandlerDone \/ InjectedDone
           \/ SerialPass \/ SerialDone \/ LineGone \/ BabystepLine \/ LineError \/ AcceptLine
           \/ EarlyStopLine \/ EnqueueAfterStop \/ MediaLine \/ MediaDone \/ UNCHANGED vars
  BY <1>1 DEF CallIdle, EarlyStopDone, FileFinished, Aborted, HandlerDone, InjectedDone,
     SerialPass, SerialDone, LineGone, BabystepLine, LineError, AcceptLine, EarlyStopLine,
     EnqueueAfterStop, MediaLine, MediaDone, vars, histVars
<1>2. CASE \/ PanelNothing \/ StoreCmd \/ MustStoreCmd \/ MustStored \/ Hold \/ StopPrint
           \/ LoopIdle \/ AbortPrint \/ FinishPrint \/ RunInjected \/ RunNothing
           \/ \E h \in Hosts : HostSend(h)
  BY <1>2 DEF PanelNothing, StoreCmd, MustStoreCmd, MustStored, Hold, StopPrint, LoopIdle,
     AbortPrint, FinishPrint, RunInjected, RunNothing, HostSend, histVars
<1> QED
  BY <1>1, <1>2 DEF Next, Program, Return

(* The source of a command says who committed it.                          *)
LEMMA OwnerOf ==
  ASSUME NEW c \in AllCommands, Owner(c)
  PROVE  /\ c.src = FileSource => MediaLine /\ c.n = file.next
         /\ c.src = EndSource => FinishPrint /\ file.complete /\ c.n = 1
         /\ c.src = PanelSource => (StoreCmd \/ MustStored) /\ c.n = budget.entered + 1
         /\ c.src \in Ports => \/ AcceptLine /\ c.src = Due /\ c.n = Line.n
                               \/ EnqueueAfterStop
<1>1. /\ FileSource \notin Ports /\ PanelSource \notin Ports /\ EndSource \notin Ports
      /\ FileSource # PanelSource /\ FileSource # EndSource /\ PanelSource # EndSource
  BY Constants DEF Ports, FileSource, PanelSource, EndSource
<1>2. PanelCommand.src = PanelSource /\ PanelCommand.n = budget.entered + 1
  BY DEF PanelCommand
<1> QED
  BY <1>1, <1>2 DEF Owner

LEMMA AdvanceAlone ==
  ASSUME Nested(stack), stack[1].at = "advance"
  PROVE  Top.at = "advance"
<1>1. Len(stack) \in Nat /\ Len(stack) > 0 /\ ~(Len(stack) > 1)
  BY TopFrame DEF Nested
<1>2. \A n \in Nat : n > 0 /\ ~(n > 1) => n = 1
  OBVIOUS
<1>3. Len(stack) = 1
  BY <1>1, <1>2
<1> QED
  BY <1>3, TopFrame DEF Top

LEMMA StopHoldsStep ==
  ASSUME Types, StopHolds, [Next]_vars
  PROVE  StopHolds'
<1>1. Nested(stack) /\ PortsTyped /\ FileTyped /\ StackEffect
  BY StackSteps DEF Types
<1>2. (file.stop => stopped)' /\ (stopped => ~file.printing)'
  BY <1>1, StopChange DEF StopHolds
<1>3. (Has(stack, "stopping") => file.stop)'
  <2>1. CASE AbortPrint
    <3>1. file.stop /\ ~Aborted
      BY <2>1 DEF AbortPrint, Aborted, In
    <3> QED
      BY <1>1, <3>1, StopChange
  <2>2. CASE Aborted
    BY <1>1, <2>2, StackFrees
  <2>3. CASE ~AbortPrint /\ ~Aborted
    <3>1. Has(stack', "stopping") <=> Has(stack, "stopping")
      BY <1>1, <2>3 DEF StackEffect
    <3> QED
      BY <1>1, <2>3, <3>1, StopChange DEF StopHolds
  <2> QED
    BY <2>1, <2>2, <2>3
<1>4. (stack[1].at = "advance" => ~file.stop)'
  <2>1. CASE FinishPrint
    <3>1. ~file.stop /\ ~StopPrint
      BY <2>1 DEF FinishPrint, StopPrint, In
    <3> QED
      BY <1>1, <3>1, StopChange
  <2>2. CASE LoopIdle \/ RunInjected \/ RunCommand
    BY <1>1, <2>2, LoopCalls
  <2>3. CASE RunNothing /\ ~FinishPrint
    BY <1>1, <2>3, LoopStays
  <2>4. CASE stack'[1] = stack[1]
    <3>1. ASSUME stack[1].at = "advance"
          PROVE  ~file.stop /\ ~StopPrint
      <4>1. Top.at = "advance"
        BY <1>1, <3>1, AdvanceAlone
      <4> QED
        BY <3>1, <4>1 DEF StopHolds, StopPrint, In
    <3> QED
      BY <1>1, <2>4, <3>1, StopChange
  <2> QED
    BY <1>1, <2>1, <2>2, <2>3, <2>4 DEF StackEffect
<1>5. (stopped /\ (~file.stop \/ Has(stack, "stopping"))
         => \A k \in 1 .. Len(Pend) : Pend[k].src # FileSource)'
  <2>1. CASE StopPrint
    <3>1. ~stopped
      BY <2>1 DEF StopPrint, CanStop
    <3>2. ~Has(stack, "stopping") /\ ~AbortPrint /\ ~Aborted
      BY <2>1, <3>1 DEF StopHolds, StopPrint, AbortPrint, Aborted, In
    <3>3. ~Has(stack', "stopping")
      BY <1>1, <3>2 DEF StackEffect
    <3> QED
      BY <1>1, <2>1, <3>2, <3>3, StopChange
  <2>2. CASE AbortPrint
    <3>1. Pend' = <<>>
      <4>1. length' = 0
        BY <2>2 DEF AbortPrint
      <4> QED
        BY <4>1, PendTypedNext, RingTypedStep, EmptySeq
    <3>2. Len(<<>>) = 0 /\ \A k \in 1 .. 0 : FALSE
      OBVIOUS
    <3> QED
      BY <3>1, <3>2
  <2>3. CASE ~StopPrint /\ ~AbortPrint
    <3> SUFFICES ASSUME stopped', ~file'.stop \/ Has(stack', "stopping"),
                        NEW k \in 1 .. Len(Pend')
                 PROVE  Pend'[k].src # FileSource
      OBVIOUS
    <3>1. stopped /\ ~file.printing
      BY <1>1, <2>3, StopChange DEF StopHolds
    <3>2. ~file.stop \/ Has(stack, "stopping")
      <4>1. CASE Aborted
        BY <1>1, <4>1, StackFrees
      <4>2. CASE ~Aborted
        BY <1>1, <2>3, <4>2, StopChange DEF StackEffect
      <4> QED
        BY <4>1, <4>2
    <3>3. \A j \in 1 .. Len(Pend) : Pend[j].src # FileSource
      BY <3>1, <3>2 DEF StopHolds
    <3>4. Pend \in Seq(AllCommands)
      BY PendTyped DEF Types
    <3>5. CASE Pend' = Pend
      BY <3>3, <3>5
    <3>6. CASE Pend # <<>> /\ Pend' = Tail(Pend)
      <4>1. Len(Tail(Pend)) = Len(Pend) - 1 /\ Len(Pend) \in Nat
            /\ \A j \in 1 .. Len(Tail(Pend)) : Tail(Pend)[j] = Pend[j + 1]
        BY <3>4, <3>6, HeadTailProperties, LenProperties
      <4>2. k \in 1 .. Len(Tail(Pend)) /\ k + 1 \in 1 .. Len(Pend)
        <5>1. \A n \in Nat : k \in 1 .. n - 1 => k + 1 \in 1 .. n
          OBVIOUS
        <5> QED
          BY <3>6, <4>1, <5>1
      <4> QED
        BY <3>3, <3>6, <4>1, <4>2
    <3>7. ASSUME NEW c \in AllCommands, Owner(c), Pend' = Append(Pend, c)
          PROVE  Pend'[k].src # FileSource
      <4>1. c.src # FileSource
        <5>1. ~MediaLine
          BY <3>1 DEF MediaLine, MayRead
        <5> QED
          BY <3>7, <5>1, OwnerOf
      <4>2. /\ Len(Pend') = Len(Pend) + 1 /\ Pend'[Len(Pend) + 1] = c /\ Len(Pend) \in Nat
            /\ \A j \in 1 .. Len(Pend) : Pend'[j] = Pend[j]
        BY <3>4, <3>7, AppendProperties, LenProperties
      <4>3. k \in 1 .. Len(Pend) \/ k = Len(Pend) + 1
        <5>1. \A n \in Nat : k \in 1 .. n + 1 => k \in 1 .. n \/ k = n + 1
          OBVIOUS
        <5> QED
          BY <4>2, <5>1
      <4> QED
        BY <3>3, <4>1, <4>2, <4>3
    <3> QED
      BY <2>3, <3>5, <3>6, <3>7, PendSteps
  <2> QED
    BY <2>1, <2>2, <2>3
<1> QED
  BY <1>2, <1>3, <1>4, <1>5 DEF StopHolds

LEMMA StopHoldsInit ==
  ASSUME Init
  PROVE  StopHolds
<1>1. Types
  BY TypesInit
<1>2. ~file.stop /\ ~stopped
  BY DEF Init
<1>3. stack = <<Frame("loop")>> /\ stack[1].at = "loop"
  BY Frames DEF Init, Labels
<1>4. ~Has(stack, "stopping")
  <2>1. "loop" \in Bottom /\ "stopping" \notin Bottom /\ Frame("loop") \in FrameT
        /\ Frame("loop").at = "loop"
    BY Frames DEF Bottom, Labels
  <2> QED
    BY <1>3, <2>1, OneCall
<1> QED
  BY <1>2, <1>3, <1>4 DEF StopHolds

(* Once the stop has been pressed no further command of the file is        *)
(* started, wherever idle() ran the display when it was pressed, however   *)
(* many commands were queued, and whatever the abort of the print itself   *)
(* waits for.                                                              *)
THEOREM NothingRunsAfterStop == Spec => NothingAfterStop
<1>1. Types /\ StopHolds /\ [Next]_vars => [ran'[FileSource] # ran[FileSource] => ~stopped]_ran
  <2> SUFFICES ASSUME Types, StopHolds, [Next]_vars, ran'[FileSource] # ran[FileSource], stopped
               PROVE  FALSE
    OBVIOUS
  <2>1. CASE RunCommand
    <3>1. Nested(stack) /\ RingTyped /\ ran \in [Sources -> Nat]
      BY DEF Types, HistoryTyped
    <3>2. Top.at = "advance" /\ length > 0
          /\ ran' = [ran EXCEPT ![command[index_r].src] = command[index_r].n]
      BY <2>1 DEF RunCommand, In
    <3>3. command[index_r].src = FileSource
      BY <3>1, <3>2
    <3>4. stack[1].at = "advance"
      BY <3>1, <3>2, OnlyLoop DEF Top, Bottom
    <3>5. \A k \in 1 .. Len(Pend) : Pend[k].src # FileSource
      BY <3>4 DEF StopHolds
    <3>6. 1 \in 1 .. Len(Pend) /\ Pend[1] = command[index_r]
      <4>1. Pend \in Seq(AllCommands) /\ Len(Pend) = length /\ length \in Nat
            /\ Head(Pend) = command[index_r]
        BY <3>1, <3>2, PendTyped
      <4>2. \A n \in Nat : n > 0 => 1 \in 1 .. n
        OBVIOUS
      <4> QED
        BY <3>2, <4>1, <4>2
    <3> QED
      BY <3>3, <3>5, <3>6
  <2>2. CASE ~RunCommand
    <3>1. ran' = ran
      BY <2>2, RanSteps
    <3> QED
      BY <3>1
  <2> QED
    BY <2>1, <2>2
<1> QED
  BY <1>1, StopHoldsInit, StopHoldsStep, TypesHold, PTL DEF Spec, NothingAfterStop
-----------------------------------------------------------------------------
(* The commands not yet started *)

Ready == IF Has(stack, "handler") THEN Tail(Pend) ELSE Pend

LEMMA ReadyTyped ==
  ASSUME Types
  PROVE  Ready \in Seq(AllCommands)
<1>1. Pend \in Seq(AllCommands) /\ Len(Pend) = length /\ length \in Nat
  BY PendTyped, Constants DEF Types
<1>2. CASE Has(stack, "handler")
  <2>1. Len(Pend) > 0
    BY <1>1, <1>2 DEF Types, HandlerHasSlot
  <2>2. Pend # <<>>
    BY <1>1, <2>1, EmptySeq
  <2> QED
    BY <1>1, <1>2, <2>2, HeadTailProperties DEF Ready
<1> QED
  BY <1>1, <1>2 DEF Ready

Starting ==
  /\ RunCommand /\ Ready # <<>> /\ Ready' = Tail(Ready)
  /\ ran' = [ran EXCEPT ![Head(Ready).src] = Head(Ready).n]

LEMMA ReadySteps ==
  ASSUME Types, [Next]_vars
  PROVE  \/ Ready' = Ready /\ ran' = ran /\ length' # length + 1
         \/ Starting
         \/ AbortPrint /\ Ready' = <<>> /\ ran' = ran
         \/ \E c \in AllCommands : Owner(c) /\ Ready' = Append(Ready, c) /\ ran' = ran
<1>1. Nested(stack) /\ PortsTyped /\ RingTyped /\ StackEffect /\ length \in Nat
  BY StackSteps, Constants DEF Types, RingTyped
<1>2. CASE RunCommand
  <2>1. /\ length > 0 /\ UNCHANGED ringVars /\ "handler" \notin Bottom
        /\ ran' = [ran EXCEPT ![command[index_r].src] = command[index_r].n]
    BY <1>2 DEF RunCommand, Bottom
  <2>2. ~Has(stack, "handler") /\ Has(stack', "handler")
    BY <1>1, <1>2, <2>1, LoopCalls
  <2>3. Pend' = Pend /\ Pend # <<>> /\ Head(Pend) = command[index_r]
    BY <1>1, <2>1, PendTyped DEF Pend, ringVars
  <2>4. Ready = Pend /\ Ready' = Tail(Pend)
    BY <2>2, <2>3 DEF Ready
  <2> QED
    BY <1>2, <2>1, <2>3, <2>4 DEF Starting
<1>3. CASE HandlerDone
  <2>1. Has(stack, "handler") /\ ~Has(stack', "handler")
    BY <1>1, <1>3, StackFrees
  <2>2. Pend' = Tail(Pend) /\ length' = length - 1
    <3>1. length > 0
      BY <2>1 DEF Types, HandlerHasSlot
    <3>2. length' = length - 1 /\ index_r' = NextSlot(index_r) /\ command' = command
      BY <1>3 DEF HandlerDone
    <3> QED
      BY <1>1, <3>1, <3>2, PendTail, RingTypedStep
  <2>3. ~RunCommand
    BY <1>3 DEF HandlerDone, RunCommand, In
  <2> QED
    BY <1>1, <2>1, <2>2, <2>3, RanSteps DEF Ready
<1>4. CASE AbortPrint
  <2>1. "handler" \notin Bottom /\ "handler" # "stopping" /\ ~RunCommand
    BY <1>4 DEF Bottom, AbortPrint, RunCommand, In
  <2>2. ~Has(stack', "handler")
    BY <1>1, <1>4, <2>1, StackAborts
  <2>3. Pend' = <<>>
    <3>1. length' = 0
      BY <1>4 DEF AbortPrint
    <3> QED
      BY <3>1, PendTypedNext, RingTypedStep, EmptySeq
  <2> QED
    BY <1>4, <2>1, <2>2, <2>3, RanSteps DEF Ready
<1>5. CASE Commits /\ ~RunCommand /\ ~HandlerDone
  <2>1. Has(stack', "handler") <=> Has(stack, "handler")
    BY <1>1, <1>5 DEF StackEffect
  <2>2. PICK c \in AllCommands, ok \in BOOLEAN, p \in -1 .. NumSerial :
          Commit(c, ok, p) /\ ~full /\ Owner(c)
    BY <1>5 DEF Commits
  <2>3. Pend' = Append(Pend, c)
    BY <1>1, <2>2, PendAppend, RingTypedStep
  <2>4. CASE Has(stack, "handler")
    <3>1. length > 0 /\ Pend # <<>> /\ Pend \in Seq(AllCommands)
      BY <1>1, <2>4, PendTyped DEF Types, HandlerHasSlot
    <3>2. Tail(Append(Pend, c)) = Append(Tail(Pend), c)
      BY <3>1, HeadTailAppend
    <3> QED
      BY <1>5, <2>1, <2>2, <2>3, <2>4, <3>2, RanSteps DEF Ready
  <2>5. CASE ~Has(stack, "handler")
    BY <1>5, <2>1, <2>2, <2>3, <2>5, RanSteps DEF Ready
  <2> QED
    BY <2>4, <2>5
<1>6. CASE UNCHANGED ringVars /\ ~RunCommand /\ ~HandlerDone
  <2>1. Has(stack', "handler") <=> Has(stack, "handler")
    BY <1>1, <1>6 DEF StackEffect
  <2>2. Pend' = Pend /\ length' = length
    BY <1>6 DEF Pend, ringVars
  <2> QED
    BY <1>1, <1>6, <2>1, <2>2, RanSteps DEF Ready
<1> QED
  BY <1>2, <1>3, <1>4, <1>5, <1>6, RingSteps
-----------------------------------------------------------------------------
(* The commands of one source in a queue *)

(* In q the commands of source s are numbered in order, from behind the    *)
(* last one started, lo, up to the last one accepted, hi: without a gap if *)
(* the queue has not been cleared.                                         *)
Queued(q, s, lo, hi, whole) ==
  /\ lo <= hi
  /\ \A k \in 1 .. Len(q) : q[k].src = s => q[k].n \in lo + 1 .. hi
  /\ \A j, k \in 1 .. Len(q) : j < k /\ q[j].src = s /\ q[k].src = s => q[j].n < q[k].n
  /\ whole => \A n \in lo + 1 .. hi : \E k \in 1 .. Len(q) : q[k].src = s /\ q[k].n = n

LEMMA QueuedNone ==
  ASSUME NEW s, NEW lo \in Nat, NEW hi \in Nat, lo <= hi
  PROVE  /\ Queued(<<>>, s, lo, hi, FALSE)
         /\ \A whole : lo = hi => Queued(<<>>, s, lo, hi, whole)
<1>1. Len(<<>>) = 0 /\ \A k \in 1 .. 0 : FALSE
  OBVIOUS
<1>2. lo = hi => \A n \in lo + 1 .. hi : FALSE
  OBVIOUS
<1> QED
  BY <1>1, <1>2 DEF Queued

LEMMA QueuedLess ==
  ASSUME NEW q, NEW s, NEW lo, NEW hi, NEW whole, NEW less, Queued(q, s, lo, hi, whole),
         less => whole
  PROVE  Queued(q, s, lo, hi, less)
BY DEF Queued

LEMMA QueuedAppend ==
  ASSUME NEW q \in Seq(AllCommands), NEW c \in AllCommands, NEW s, NEW lo \in Nat, NEW hi \in Nat,
         NEW whole, Queued(q, s, lo, hi, whole)
  PROVE  /\ c.src # s => Queued(Append(q, c), s, lo, hi, whole)
         /\ c.src = s /\ c.n = hi + 1 => Queued(Append(q, c), s, lo, hi + 1, whole)
<1> DEFINE r == Append(q, c)
<1>1. /\ Len(r) = Len(q) + 1 /\ Len(q) \in Nat /\ r[Len(q) + 1] = c
      /\ \A k \in 1 .. Len(q) : r[k] = q[k]
  BY AppendProperties, LenProperties
<1> HIDE DEF r
<1>2. /\ \A k \in 1 .. Len(r) : k \in 1 .. Len(q) \/ k = Len(q) + 1
      /\ \A k \in 1 .. Len(q) : k \in 1 .. Len(r) /\ k < Len(q) + 1 /\ ~(Len(q) + 1 < k)
      /\ Len(q) + 1 \in 1 .. Len(r) /\ ~(Len(q) + 1 < Len(q) + 1)
  <2>1. \A m \in Nat : /\ \A k \in 1 .. m + 1 : k \in 1 .. m \/ k = m + 1
                       /\ \A k \in 1 .. m : k \in 1 .. m + 1 /\ k < m + 1 /\ ~(m + 1 < k)
                       /\ m + 1 \in 1 .. m + 1 /\ ~(m + 1 < m + 1)
    OBVIOUS
  <2> QED
    BY <1>1, <2>1
<1>3. /\ lo <= hi
      /\ \A k \in 1 .. Len(q) : q[k].src = s => q[k].n \in lo + 1 .. hi
      /\ \A j, k \in 1 .. Len(q) : j < k /\ q[j].src = s /\ q[k].src = s => q[j].n < q[k].n
      /\ whole => \A n \in lo + 1 .. hi : \E k \in 1 .. Len(q) : q[k].src = s /\ q[k].n = n
  BY DEF Queued
<1>4. ASSUME c.src # s
      PROVE  Queued(r, s, lo, hi, whole)
  <2>1. \A k \in 1 .. Len(r) : r[k].src = s => k \in 1 .. Len(q) /\ r[k] = q[k]
    BY <1>1, <1>2, <1>4
  <2>2. \A k \in 1 .. Len(r) : r[k].src = s => r[k].n \in lo + 1 .. hi
    BY <1>3, <2>1
  <2>3. \A j, k \in 1 .. Len(r) : j < k /\ r[j].src = s /\ r[k].src = s => r[j].n < r[k].n
    BY <1>3, <2>1
  <2>4. whole => \A n \in lo + 1 .. hi : \E k \in 1 .. Len(r) : r[k].src = s /\ r[k].n = n
    BY <1>1, <1>2, <1>3
  <2> QED
    BY <1>3, <2>2, <2>3, <2>4 DEF Queued
<1>5. ASSUME c.src = s, c.n = hi + 1
      PROVE  Queued(r, s, lo, hi + 1, whole)
  <2>1. lo <= hi + 1 /\ hi + 1 \in lo + 1 .. hi + 1
    BY <1>3
  <2>2. \A n \in lo + 1 .. hi : n \in lo + 1 .. hi + 1 /\ n < hi + 1
    OBVIOUS
  <2>3. \A n \in lo + 1 .. hi + 1 : n \in lo + 1 .. hi \/ n = hi + 1
    OBVIOUS
  <2>4. \A k \in 1 .. Len(r) : r[k].src = s => r[k].n \in lo + 1 .. hi + 1
    BY <1>1, <1>2, <1>3, <1>5, <2>1, <2>2
  <2>5. \A j, k \in 1 .. Len(r) : j < k /\ r[j].src = s /\ r[k].src = s => r[j].n < r[k].n
    <3> TAKE j, k \in 1 .. Len(r)
    <3> HAVE j < k /\ r[j].src = s /\ r[k].src = s
    <3>1. CASE k \in 1 .. Len(q) /\ j \in 1 .. Len(q)
      BY <1>1, <1>3, <3>1
    <3>2. CASE k = Len(q) + 1 /\ j \in 1 .. Len(q)
      <4>1. r[j].n \in lo + 1 .. hi /\ r[k].n = hi + 1
        BY <1>1, <1>3, <1>5, <3>2
      <4> QED
        BY <2>2, <4>1
    <3> QED
      BY <1>2, <3>1, <3>2
  <2>6. whole => \A n \in lo + 1 .. hi + 1 : \E k \in 1 .. Len(r) : r[k].src = s /\ r[k].n = n
    <3> SUFFICES ASSUME whole, NEW n \in lo + 1 .. hi + 1
                 PROVE  \E k \in 1 .. Len(r) : r[k].src = s /\ r[k].n = n
      OBVIOUS
    <3>1. CASE n \in lo + 1 .. hi
      BY <1>1, <1>2, <1>3, <3>1
    <3>2. CASE n = hi + 1
      BY <1>1, <1>2, <1>5, <3>2
    <3> QED
      BY <2>3, <3>1, <3>2
  <2> QED
    BY <2>1, <2>4, <2>5, <2>6 DEF Queued
<1> QED
  BY <1>4, <1>5 DEF r

LEMMA QueuedTail ==
  ASSUME NEW q \in Seq(AllCommands), q # <<>>, NEW s, NEW lo \in Nat, NEW hi \in Nat,
         NEW whole, Queued(q, s, lo, hi, whole)
  PROVE  /\ Head(q).src # s => Queued(Tail(q), s, lo, hi, whole)
         /\ Head(q).src = s =>
              /\ Queued(Tail(q), s, Head(q).n, hi, whole)
              /\ Head(q).n > lo /\ (whole => Head(q).n = lo + 1)
<1> DEFINE r == Tail(q)
<1>1. /\ Len(r) = Len(q) - 1 /\ Len(q) \in Nat /\ Len(q) > 0 /\ Head(q) = q[1]
      /\ \A k \in 1 .. Len(r) : r[k] = q[k + 1]
  <2>1. Len(q) # 0
    BY EmptySeq
  <2>2. \A n \in Nat : n # 0 => n > 0
    OBVIOUS
  <2> QED
    BY <2>1, <2>2, HeadTailProperties, LenProperties
<1> HIDE DEF r
<1>2. /\ 1 \in 1 .. Len(q)
      /\ \A k \in 1 .. Len(r) : k + 1 \in 1 .. Len(q) /\ 1 < k + 1
      /\ \A k \in 1 .. Len(q) : k = 1 \/ (k - 1 \in 1 .. Len(r) /\ (k - 1) + 1 = k /\ 1 < k)
      /\ \A j, k \in 1 .. Len(r) : j < k => j + 1 < k + 1
  <2>1. \A m \in Nat : m > 0 =>
          /\ 1 \in 1 .. m
          /\ \A k \in 1 .. m - 1 : k + 1 \in 1 .. m /\ 1 < k + 1
          /\ \A k \in 1 .. m : k = 1 \/ (k - 1 \in 1 .. m - 1 /\ (k - 1) + 1 = k /\ 1 < k)
          /\ \A j, k \in 1 .. m - 1 : j < k => j + 1 < k + 1
    OBVIOUS
  <2> QED
    BY <1>1, <2>1
<1>3. /\ lo <= hi
      /\ \A k \in 1 .. Len(q) : q[k].src = s => q[k].n \in lo + 1 .. hi
      /\ \A j, k \in 1 .. Len(q) : j < k /\ q[j].src = s /\ q[k].src = s => q[j].n < q[k].n
      /\ whole => \A n \in lo + 1 .. hi : \E k \in 1 .. Len(q) : q[k].src = s /\ q[k].n = n
  BY DEF Queued
<1>4. \A j, k \in 1 .. Len(r) : j < k /\ r[j].src = s /\ r[k].src = s => r[j].n < r[k].n
  BY <1>1, <1>2, <1>3
<1>5. \A k \in 1 .. Len(r) : r[k].src = s => r[k].n \in lo + 1 .. hi
  BY <1>1, <1>2, <1>3
<1>6. ASSUME Head(q).src # s
      PROVE  Queued(r, s, lo, hi, whole)
  <2>1. ASSUME whole, NEW n \in lo + 1 .. hi
        PROVE  \E k \in 1 .. Len(r) : r[k].src = s /\ r[k].n = n
    <3>1. PICK k \in 1 .. Len(q) : q[k].src = s /\ q[k].n = n
      BY <1>3, <2>1
    <3>2. k # 1
      BY <1>1, <1>6, <3>1
    <3>3. k - 1 \in 1 .. Len(r) /\ r[k - 1] = q[k]
      BY <1>1, <1>2, <3>2
    <3> QED
      BY <3>1, <3>3
  <2> QED
    BY <1>3, <1>4, <1>5, <2>1 DEF Queued
<1>7. ASSUME Head(q).src = s
      PROVE  /\ Queued(r, s, Head(q).n, hi, whole)
             /\ Head(q).n > lo /\ (whole => Head(q).n = lo + 1)
  <2> DEFINE h == Head(q).n
  <2>1. h \in lo + 1 .. hi
    BY <1>1, <1>2, <1>3, <1>7
  <2>2. \A k \in 1 .. Len(r) : r[k].src = s => h < r[k].n
    BY <1>1, <1>2, <1>3, <1>7
  <2> HIDE DEF h
  <2>3. h \in Nat /\ h > lo /\ h <= hi
    BY <2>1
  <2>4. \A k \in 1 .. Len(r) : r[k].src = s => r[k].n \in h + 1 .. hi
    BY <1>5, <2>2, <2>3
  <2>5. ASSUME whole, NEW n \in h + 1 .. hi
        PROVE  \E k \in 1 .. Len(r) : r[k].src = s /\ r[k].n = n
    <3>1. n \in lo + 1 .. hi /\ n # h
      BY <2>3
    <3>2. PICK k \in 1 .. Len(q) : q[k].src = s /\ q[k].n = n
      BY <1>3, <2>5, <3>1
    <3>3. k # 1
      BY <1>1, <3>1, <3>2 DEF h
    <3>4. k - 1 \in 1 .. Len(r) /\ r[k - 1] = q[k]
      BY <1>1, <1>2, <3>3
    <3> QED
      BY <3>2, <3>4
  <2>6. Queued(r, s, h, hi, whole)
    BY <1>4, <2>3, <2>4, <2>5 DEF Queued
  <2>7. whole => h = lo + 1
    <3> SUFFICES ASSUME whole, h # lo + 1
                 PROVE  FALSE
      OBVIOUS
    <3>1. lo + 1 \in lo + 1 .. hi /\ ~(h < lo + 1)
      BY <2>3
    <3>2. PICK k \in 1 .. Len(q) : q[k].src = s /\ q[k].n = lo + 1
      BY <1>3, <3>1
    <3>3. k # 1
      BY <1>1, <3>2 DEF h
    <3>4. k - 1 \in 1 .. Len(r) /\ r[k - 1] = q[k]
      BY <1>1, <1>2, <3>3
    <3> QED
      BY <2>2, <3>1, <3>2, <3>4
  <2> QED
    BY <2>3, <2>6, <2>7 DEF h
<1> QED
  BY <1>6, <1>7 DEF r

(* One action commits for one source only.                                 *)
LEMMA OwnSource ==
  ASSUME NEW c \in AllCommands, Owner(c)
  PROVE  /\ MediaLine => c.src = FileSource
         /\ StoreCmd \/ MustStored => c.src = PanelSource
         /\ AcceptLine => c.src = Due
<1>1. /\ MediaLine => Top.at = "media"
      /\ StoreCmd => Top.at = "panel"
      /\ MustStored => Top.at = "mustStore"
      /\ AcceptLine => Top.at = "serial"
      /\ EnqueueAfterStop => Top.at = "enqueue"
      /\ FinishPrint => Top.at = "jobs"
  BY DEF MediaLine, StoreCmd, MustStored, AcceptLine, EnqueueAfterStop, FinishPrint, In, AtLine
<1>2. PanelCommand.src = PanelSource
  BY DEF PanelCommand
<1> QED
  BY <1>1, <1>2 DEF Owner

LEMMA StoppedStays ==
  ASSUME FileTyped, HistoryTyped, StopHolds, [Next]_vars
  PROVE  (stopped => stopped') /\ (AbortPrint => stopped')
<1>1. stopped => stopped'
  BY StopChange
<1>2. AbortPrint => stopped
  BY DEF AbortPrint, StopHolds
<1> QED
  BY <1>1, <1>2

(* A step adds to a source's commands the next one, and starts the first.  *)
LEMMA QueuedStep ==
  ASSUME Types, StopHolds, [Next]_vars, NEW s \in Sources, NEW hi \in Nat, NEW hn \in Nat,
         Queued(Ready, s, ran[s], hi, ~stopped),
         \A c \in AllCommands : Owner(c) /\ c.src = s => c.n = hi + 1 /\ hn = hi + 1,
         \/ hn = hi
         \/ /\ length' = length + 1 /\ ~RunCommand /\ ~AbortPrint
            /\ \A c \in AllCommands : Owner(c) => c.src = s
  PROVE  Queued(Ready', s, ran'[s], hn, ~stopped')
<1>1. Ready \in Seq(AllCommands) /\ ran \in [Sources -> Nat] /\ ran[s] \in Nat
  BY ReadyTyped DEF Types, HistoryTyped
<1>2. (~stopped' => ~stopped) /\ (AbortPrint => stopped')
  BY StoppedStays DEF Types
<1>3. CASE Ready' = Ready /\ ran' = ran /\ length' # length + 1
  <2>1. hn = hi
    BY <1>3
  <2> QED
    BY <1>2, <1>3, <2>1, QueuedLess
<1>4. CASE Starting
  <2>1. hn = hi /\ Ready # <<>> /\ Ready' = Tail(Ready)
        /\ ran' = [ran EXCEPT ![Head(Ready).src] = Head(Ready).n]
    BY <1>4 DEF Starting
  <2>2. Head(Ready) \in AllCommands
    BY <1>1, <2>1, HeadTailProperties
  <2>3. Head(Ready).src \in Sources
    BY <2>2 DEF AllCommands
  <2>4. CASE Head(Ready).src = s
    <3>1. ran'[s] = Head(Ready).n
      BY <1>1, <2>1, <2>3, <2>4
    <3>2. Queued(Tail(Ready), s, Head(Ready).n, hi, ~stopped)
      BY <1>1, <2>1, <2>4, QueuedTail
    <3> QED
      BY <1>2, <2>1, <3>1, <3>2, QueuedLess
  <2>5. CASE Head(Ready).src # s
    <3>1. ran'[s] = ran[s]
      BY <1>1, <2>1, <2>3, <2>5
    <3>2. Queued(Tail(Ready), s, ran[s], hi, ~stopped)
      BY <1>1, <2>1, <2>5, QueuedTail
    <3> QED
      BY <1>2, <2>1, <3>1, <3>2, QueuedLess
  <2> QED
    BY <2>4, <2>5
<1>5. CASE AbortPrint /\ Ready' = <<>> /\ ran' = ran
  <2>1. hn = hi /\ ran[s] <= hi
    BY <1>5 DEF Queued
  <2>2. Queued(<<>>, s, ran[s], hi, FALSE)
    BY <1>1, <2>1, QueuedNone
  <2>3. Queued(<<>>, s, ran[s], hi, ~stopped')
    BY <1>2, <1>5, <2>2, QueuedLess
  <2> QED
    BY <1>5, <2>1, <2>3
<1>6. ASSUME NEW c \in AllCommands, Owner(c), Ready' = Append(Ready, c), ran' = ran
      PROVE  Queued(Ready', s, ran'[s], hn, ~stopped')
  <2>1. CASE c.src = s
    <3>1. c.n = hi + 1 /\ hn = hi + 1
      BY <1>6, <2>1
    <3>2. Queued(Ready', s, ran[s], hi + 1, ~stopped)
      BY <1>1, <1>6, <2>1, <3>1, QueuedAppend
    <3> QED
      BY <1>2, <1>6, <3>1, <3>2, QueuedLess
  <2>2. CASE c.src # s
    <3>1. hn = hi
      BY <1>6, <2>2
    <3>2. Queued(Ready', s, ran[s], hi, ~stopped)
      BY <1>1, <1>6, <2>2, QueuedAppend
    <3> QED
      BY <1>2, <1>6, <3>1, <3>2, QueuedLess
  <2> QED
    BY <2>1, <2>2
<1> QED
  BY <1>3, <1>4, <1>5, <1>6, ReadySteps

FileQueued  == Queued(Ready, FileSource, ran[FileSource], file.next - 1, ~stopped)
PanelQueued == Queued(Ready, PanelSource, ran[PanelSource], budget.entered, ~stopped)

LEMMA NextLine ==
  ASSUME FileTyped, [Next]_vars
  PROVE  \/ ~MediaLine /\ file'.next = file.next
         \/ MediaLine /\ file'.next = file.next + 1
<1>1. CASE MediaLine
  BY <1>1 DEF MediaLine, FileTyped
<1>2. CASE FileFinished \/ Aborted
  <2>1. ~MediaLine
    BY <1>2 DEF FileFinished, Aborted, MediaLine, In
  <2> QED
    BY <1>2, <2>1 DEF FileFinished, Aborted, FileTyped
<1>3. CASE Hold \/ StopPrint \/ FinishPrint
  <2>1. ~MediaLine
    BY <1>3 DEF Hold, StopPrint, FinishPrint, MediaLine, In
  <2> QED
    BY <1>3, <2>1 DEF Hold, StopPrint, FinishPrint, FileTyped
<1>4. CASE file' = file
  BY <1>1, <1>4
<1>5. CASE \/ CallIdle \/ EarlyStopDone \/ HandlerDone \/ InjectedDone
           \/ SerialPass \/ SerialDone \/ LineGone \/ BabystepLine \/ LineError \/ AcceptLine
           \/ EarlyStopLine \/ EnqueueAfterStop \/ MediaDone \/ UNCHANGED vars
  BY <1>4, <1>5 DEF CallIdle, EarlyStopDone, HandlerDone, InjectedDone, SerialPass, SerialDone,
     LineGone, BabystepLine, LineError, AcceptLine, EarlyStopLine, EnqueueAfterStop, MediaDone, vars
<1>6. CASE \/ PanelNothing \/ StoreCmd \/ MustStoreCmd \/ MustStored
           \/ LoopIdle \/ AbortPrint \/ RunInjected \/ RunCommand \/ RunNothing
           \/ \E h \in Hosts : HostSend(h)
  BY <1>4, <1>6 DEF PanelNothing, StoreCmd, MustStoreCmd, MustStored, LoopIdle, AbortPrint,
     RunInjected, RunCommand, RunNothing, HostSend
<1> QED
  BY <1>1, <1>2, <1>3, <1>5, <1>6 DEF Next, Program, Return

LEMMA FileQueuedStep ==
  ASSUME Types, StopHolds, FileQueued, [Next]_vars
  PROVE  FileQueued'
<1>1. file.next \in Nat /\ file.next > 0 /\ FileSource \in Sources /\ FileTyped
  BY Constants DEF Types, FileTyped, FileSource, Sources
<1>2. \/ ~MediaLine /\ file'.next = file.next
      \/ MediaLine /\ file'.next = file.next + 1
  BY <1>1, NextLine
<1>3. file.next - 1 \in Nat /\ file'.next - 1 \in Nat /\ (file.next - 1) + 1 = file.next
  BY <1>1, <1>2
<1>4. \A c \in AllCommands : Owner(c) /\ c.src = FileSource =>
        c.n = (file.next - 1) + 1 /\ file'.next - 1 = (file.next - 1) + 1
  <2> TAKE c \in AllCommands
  <2> HAVE Owner(c) /\ c.src = FileSource
  <2>1. MediaLine /\ c.n = file.next
    BY OwnerOf
  <2> QED
    BY <1>1, <1>2, <2>1
<1>5. \/ file'.next - 1 = file.next - 1
      \/ /\ length' = length + 1 /\ ~RunCommand /\ ~AbortPrint
         /\ \A c \in AllCommands : Owner(c) => c.src = FileSource
  <2>1. CASE MediaLine
    <3>1. length' = length + 1 /\ ~RunCommand /\ ~AbortPrint
      BY <2>1 DEF MediaLine, Commit, RunCommand, AbortPrint, In
    <3> QED
      BY <2>1, <3>1, OwnSource
  <2> QED
    BY <1>2, <2>1
<1> QED
  BY <1>1, <1>3, <1>4, <1>5, QueuedStep DEF FileQueued

LEMMA NextPanel ==
  ASSUME BudgetTyped, [Next]_vars
  PROVE  \/ ~(StoreCmd \/ MustStored) /\ budget'.entered = budget.entered
         \/ (StoreCmd \/ MustStored) /\ budget'.entered = budget.entered + 1
<1>1. budget \in Budgets
  BY DEF BudgetTyped
<1>2. CASE StoreCmd
  <2>1. budget' = [budget EXCEPT !.press = @ - 1, !.entered = @ + 1]
    BY <1>2 DEF StoreCmd
  <2> QED
    BY <1>1, <1>2, <2>1 DEF Budgets
<1>3. CASE MustStored
  <2>1. budget' = [budget EXCEPT !.entered = @ + 1]
    BY <1>3 DEF MustStored
  <2> QED
    BY <1>1, <1>3, <2>1 DEF Budgets
<1>4. ASSUME budget'.entered = budget.entered
      PROVE  \/ ~(StoreCmd \/ MustStored) /\ budget'.entered = budget.entered
             \/ (StoreCmd \/ MustStored) /\ budget'.entered = budget.entered + 1
  BY <1>2, <1>3, <1>4
<1>5. CASE MustStoreCmd
  <2>1. budget' = [budget EXCEPT !.must = @ - 1]
    BY <1>5 DEF MustStoreCmd
  <2> QED
    BY <1>1, <1>4, <2>1 DEF Budgets
<1>6. CASE Hold
  <2>1. budget' = [budget EXCEPT !.hold = @ - 1]
    BY <1>6 DEF Hold
  <2> QED
    BY <1>1, <1>4, <2>1 DEF Budgets
<1>7. CASE \E h \in Hosts : HostSend(h)
  <2>1. PICK h \in Hosts, good \in BOOLEAN :
          budget' = [budget EXCEPT !.bad = IF good THEN @ ELSE @ - 1]
    BY <1>7 DEF HostSend
  <2> QED
    BY <1>1, <1>4, <2>1 DEF Budgets
<1>8. CASE \/ CallIdle \/ EarlyStopDone \/ FileFinished \/ Aborted \/ HandlerDone \/ InjectedDone
           \/ SerialPass \/ SerialDone \/ LineGone \/ BabystepLine \/ LineError \/ AcceptLine
           \/ EarlyStopLine \/ EnqueueAfterStop \/ MediaLine \/ MediaDone \/ UNCHANGED vars
  <2>1. budget' = budget
    BY <1>8 DEF CallIdle, EarlyStopDone, FileFinished, Aborted, HandlerDone, InjectedDone,
     SerialPass, SerialDone, LineGone, BabystepLine, LineError, AcceptLine, EarlyStopLine,
     EnqueueAfterStop, MediaLine, MediaDone, vars
  <2> QED
    BY <1>4, <2>1
<1>9. CASE \/ PanelNothing \/ StopPrint \/ LoopIdle \/ AbortPrint \/ FinishPrint
           \/ RunInjected \/ RunCommand \/ RunNothing
  <2>1. budget' = budget
    BY <1>9 DEF PanelNothing, StopPrint, LoopIdle, AbortPrint, FinishPrint, RunInjected,
     RunCommand, RunNothing
  <2> QED
    BY <1>4, <2>1
<1> QED
  BY <1>2, <1>3, <1>5, <1>6, <1>7, <1>8, <1>9 DEF Next, Program, Return

LEMMA PanelQueuedStep ==
  ASSUME Types, StopHolds, PanelQueued, [Next]_vars
  PROVE  PanelQueued'
<1>1. budget.entered \in Nat /\ PanelSource \in Sources /\ BudgetTyped
  BY Constants DEF Types, BudgetTyped, Budgets, PanelSource, Sources
<1>2. \/ ~(StoreCmd \/ MustStored) /\ budget'.entered = budget.entered
      \/ (StoreCmd \/ MustStored) /\ budget'.entered = budget.entered + 1
  BY <1>1, NextPanel
<1>3. budget'.entered \in Nat
  BY <1>1, <1>2
<1>4. \A c \in AllCommands : Owner(c) /\ c.src = PanelSource =>
        c.n = budget.entered + 1 /\ budget'.entered = budget.entered + 1
  <2> TAKE c \in AllCommands
  <2> HAVE Owner(c) /\ c.src = PanelSource
  <2>1. (StoreCmd \/ MustStored) /\ c.n = budget.entered + 1
    BY OwnerOf
  <2> QED
    BY <1>2, <2>1
<1>5. \/ budget'.entered = budget.entered
      \/ /\ length' = length + 1 /\ ~RunCommand /\ ~AbortPrint
         /\ \A c \in AllCommands : Owner(c) => c.src = PanelSource
  <2>1. CASE StoreCmd \/ MustStored
    <3>1. length' = length + 1 /\ ~RunCommand /\ ~AbortPrint
      BY <2>1 DEF StoreCmd, MustStored, Commit, RunCommand, AbortPrint, In
    <3> QED
      BY <2>1, <3>1, OwnSource
  <2> QED
    BY <1>2, <2>1
<1> QED
  BY <1>1, <1>3, <1>4, <1>5, QueuedStep DEF PanelQueued
-----------------------------------------------------------------------------
(* The end of the print *)

(* M1001 is queued behind all of the file: not before the file was read to *)
(* its end, in whatever call of idle() its last line was read.             *)
AtEnd == file.next = FileLines + 1
EndLast ==
  /\ file.complete => AtEnd
  /\ Has(stack, "ending") => AtEnd
  /\ ran[EndSource] \in {0, 1}
  /\ \A k \in 1 .. Len(Ready) : Ready[k].src = EndSource =>
       /\ Ready[k].n = 1 /\ AtEnd
       /\ \A j \in 1 .. Len(Ready) : Ready[j].src = FileSource => j < k

LEMMA EndStays ==
  ASSUME FileTyped, AtEnd, [Next]_vars
  PROVE  AtEnd' /\ ~MediaLine
<1>1. ~(FileLines + 1 <= FileLines)
  BY Constants
<1>2. ~MediaLine
  BY <1>1 DEF MediaLine, MayRead, AtEnd
<1> QED
  BY <1>2, NextLine DEF AtEnd

LEMMA CompleteSteps ==
  ASSUME FileTyped, [Next]_vars, file'.complete
  PROVE  file.complete \/ FileFinished
<1>1. CASE MediaLine \/ Aborted \/ Hold \/ StopPrint \/ FinishPrint
  BY <1>1 DEF MediaLine, Aborted, Hold, StopPrint, FinishPrint, FileTyped
<1>2. CASE file' = file
  BY <1>2
<1>3. CASE \/ CallIdle \/ EarlyStopDone \/ HandlerDone \/ InjectedDone
           \/ SerialPass \/ SerialDone \/ LineGone \/ BabystepLine \/ LineError \/ AcceptLine
           \/ EarlyStopLine \/ EnqueueAfterStop \/ MediaDone \/ UNCHANGED vars
  BY <1>2, <1>3 DEF CallIdle, EarlyStopDone, HandlerDone, InjectedDone, SerialPass, SerialDone,
     LineGone, BabystepLine, LineError, AcceptLine, EarlyStopLine, EnqueueAfterStop, MediaDone, vars
<1>4. CASE \/ PanelNothing \/ StoreCmd \/ MustStoreCmd \/ MustStored
           \/ LoopIdle \/ AbortPrint \/ RunInjected \/ RunCommand \/ RunNothing
           \/ \E h \in Hosts : HostSend(h)
  BY <1>2, <1>4 DEF PanelNothing, StoreCmd, MustStoreCmd, MustStored, LoopIdle, AbortPrint,
     RunInjected, RunCommand, RunNothing, HostSend
<1> QED
  BY <1>1, <1>3, <1>4 DEF Next, Program, Return

LEMMA EndLastStep ==
  ASSUME Types, EndLast, [Next]_vars
  PROVE  EndLast'
<1>1. /\ FileTyped /\ Nested(stack) /\ PortsTyped /\ StackEffect /\ ran \in [Sources -> Nat]
      /\ Ready \in Seq(AllCommands) /\ EndSource \in Sources /\ FileSource # EndSource
      /\ Len(Ready) \in Nat
  BY StackSteps, ReadyTyped, Constants, LenProperties
  DEF Types, HistoryTyped, EndSource, FileSource, Sources
<1>2. AtEnd => AtEnd' /\ ~MediaLine
  BY <1>1, EndStays
<1>3. (file.complete => AtEnd)'
  <2> SUFFICES ASSUME file'.complete PROVE AtEnd'
    OBVIOUS
  <2>1. file.complete \/ FileFinished
    BY <1>1, CompleteSteps
  <2>2. FileFinished => Has(stack, "ending")
    BY <1>1, StackEnds
  <2> QED
    BY <1>2, <2>1, <2>2 DEF EndLast
<1>4. (Has(stack, "ending") => AtEnd)'
  <2>1. CASE MediaLine /\ file.next = FileLines
    <3>1. file'.next = file.next + 1
      BY <1>1, <2>1, NextLine
    <3> QED
      BY <2>1, <3>1 DEF AtEnd
  <2>2. CASE Has(stack', "ending") => Has(stack, "ending")
    BY <1>2, <2>2 DEF EndLast
  <2> QED
    BY <1>1, <2>1, <2>2 DEF StackEffect
<1>5. CASE Ready' = Ready /\ ran' = ran
  BY <1>2, <1>3, <1>4, <1>5 DEF EndLast
<1>6. CASE Starting
  <2>1. Ready # <<>> /\ Ready' = Tail(Ready)
        /\ ran' = [ran EXCEPT ![Head(Ready).src] = Head(Ready).n]
    BY <1>6 DEF Starting
  <2>2. /\ Head(Ready) \in AllCommands /\ Head(Ready) = Ready[1]
        /\ Len(Tail(Ready)) = Len(Ready) - 1 /\ Len(Ready) # 0
        /\ \A k \in 1 .. Len(Tail(Ready)) : Tail(Ready)[k] = Ready[k + 1]
    BY <1>1, <2>1, HeadTailProperties, EmptySeq
  <2>3. /\ 1 \in 1 .. Len(Ready)
        /\ \A k \in 1 .. Len(Tail(Ready)) : k + 1 \in 1 .. Len(Ready)
        /\ \A j, k \in 1 .. Len(Tail(Ready)) : j + 1 < k + 1 => j < k
    <3>1. \A m \in Nat : m # 0 =>
            /\ 1 \in 1 .. m
            /\ \A k \in 1 .. m - 1 : k + 1 \in 1 .. m
            /\ \A j, k \in 1 .. m - 1 : j + 1 < k + 1 => j < k
      OBVIOUS
    <3> QED
      BY <1>1, <2>2, <3>1
  <2>4. ran'[EndSource] \in {0, 1}
    <3>1. Head(Ready).src \in Sources
      BY <2>2 DEF AllCommands
    <3>2. Head(Ready).src = EndSource => Head(Ready).n = 1
      BY <2>2, <2>3 DEF EndLast
    <3> QED
      BY <1>1, <2>1, <3>1, <3>2 DEF EndLast
  <2>5. ASSUME NEW k \in 1 .. Len(Ready'), Ready'[k].src = EndSource
        PROVE  /\ Ready'[k].n = 1 /\ AtEnd
               /\ \A j \in 1 .. Len(Ready') : Ready'[j].src = FileSource => j < k
    <3>1. k \in 1 .. Len(Tail(Ready)) /\ Ready'[k] = Ready[k + 1] /\ k + 1 \in 1 .. Len(Ready)
      BY <2>1, <2>2, <2>3, <2>5
    <3>2. Ready[k + 1].src = EndSource
      BY <2>5, <3>1
    <3>3. Ready[k + 1].n = 1 /\ AtEnd
          /\ \A j \in 1 .. Len(Ready) : Ready[j].src = FileSource => j < k + 1
      BY <3>1, <3>2 DEF EndLast
    <3>4. ASSUME NEW j \in 1 .. Len(Ready'), Ready'[j].src = FileSource
          PROVE  j < k
      <4>1. j \in 1 .. Len(Tail(Ready)) /\ Ready'[j] = Ready[j + 1] /\ j + 1 \in 1 .. Len(Ready)
        BY <2>1, <2>2, <2>3, <3>4
      <4>2. j + 1 < k + 1
        BY <3>3, <3>4, <4>1
      <4> QED
        BY <2>3, <3>1, <4>1, <4>2
    <3> QED
      BY <3>1, <3>3, <3>4
  <2> QED
    BY <1>2, <1>3, <1>4, <2>4, <2>5 DEF EndLast
<1>7. CASE Ready' = <<>> /\ ran' = ran
  <2>1. Len(<<>>) = 0 /\ \A k \in 1 .. 0 : FALSE
    OBVIOUS
  <2> QED
    BY <1>3, <1>4, <1>7, <2>1 DEF EndLast
<1>8. ASSUME NEW c \in AllCommands, Owner(c), Ready' = Append(Ready, c), ran' = ran
      PROVE  EndLast'
  <2>1. /\ Len(Ready') = Len(Ready) + 1 /\ Ready'[Len(Ready) + 1] = c
        /\ \A k \in 1 .. Len(Ready) : Ready'[k] = Ready[k]
    BY <1>1, <1>8, AppendProperties
  <2>2. /\ \A k \in 1 .. Len(Ready') : k \in 1 .. Len(Ready) \/ k = Len(Ready) + 1
        /\ \A k \in 1 .. Len(Ready) : k < Len(Ready) + 1
    <3>1. \A m \in Nat : /\ \A k \in 1 .. m + 1 : k \in 1 .. m \/ k = m + 1
                         /\ \A k \in 1 .. m : k < m + 1
      OBVIOUS
    <3> QED
      BY <1>1, <2>1, <3>1
  <2>3. c.src = FileSource => MediaLine
    BY <1>8, OwnerOf
  <2>4. c.src = EndSource => AtEnd /\ c.n = 1
    BY <1>8, OwnerOf DEF EndLast
  <2>5. ASSUME NEW k \in 1 .. Len(Ready'), Ready'[k].src = EndSource
        PROVE  /\ Ready'[k].n = 1 /\ AtEnd
               /\ \A j \in 1 .. Len(Ready') : Ready'[j].src = FileSource => j < k
    <3>1. CASE k \in 1 .. Len(Ready)
      <4>1. Ready[k].n = 1 /\ AtEnd /\ Ready'[k] = Ready[k]
            /\ \A j \in 1 .. Len(Ready) : Ready[j].src = FileSource => j < k
        BY <2>1, <2>5, <3>1 DEF EndLast
      <4>2. c.src # FileSource
        BY <1>2, <2>3, <4>1
      <4> QED
        BY <2>1, <2>2, <4>1, <4>2
    <3>2. CASE k = Len(Ready) + 1
      <4>1. c.src = EndSource
        BY <2>1, <2>5, <3>2
      <4> QED
        BY <1>1, <2>1, <2>2, <2>4, <3>2, <4>1
    <3> QED
      BY <2>2, <3>1, <3>2
  <2> QED
    BY <1>2, <1>3, <1>4, <1>8, <2>5 DEF EndLast
<1> QED
  BY <1>5, <1>6, <1>7, <1>8, ReadySteps

LEMMA ReadyInit ==
  ASSUME Init
  PROVE  Ready = <<>> /\ ~Has(stack, "ending")
<1>1. Types
  BY TypesInit
<1>2. Pend = <<>>
  BY <1>1, PendTyped DEF Init, Types
<1>3. ~Has(stack, "handler") /\ ~Has(stack, "ending")
  <2>1. stack = <<Frame("loop")>> /\ Frame("loop") \in FrameT /\ Frame("loop").at = "loop"
        /\ "loop" \in Bottom
    BY Frames DEF Init, Bottom, Labels
  <2> QED
    BY <2>1, OneCall
<1> QED
  BY <1>2, <1>3 DEF Ready

LEMMA OrderInit ==
  ASSUME Init
  PROVE  EndLast /\ FileQueued /\ PanelQueued
<1>1. Ready = <<>> /\ ~Has(stack, "ending") /\ Len(<<>>) = 0 /\ \A k \in 1 .. 0 : FALSE
  BY ReadyInit
<1>2. \A s \in Sources : ran[s] = 0
  BY DEF Init
<1>3. {FileSource, PanelSource, EndSource} \subseteq Sources
  BY Constants DEF FileSource, PanelSource, EndSource, Sources
<1>4. ~file.complete /\ file.next - 1 = 0 /\ budget.entered = 0
  BY DEF Init
<1>5. EndLast
  BY <1>1, <1>2, <1>3, <1>4 DEF EndLast
<1>6. 0 <= 0 /\ \A n \in 0 + 1 .. 0 : FALSE
  OBVIOUS
<1>7. /\ Queued(<<>>, FileSource, 0, 0, ~stopped)
      /\ Queued(<<>>, PanelSource, 0, 0, ~stopped)
  BY <1>1, <1>6 DEF Queued
<1> QED
  BY <1>1, <1>2, <1>3, <1>4, <1>5, <1>7 DEF FileQueued, PanelQueued

LEMMA OrderHolds == Spec => [](Types /\ StopHolds /\ EndLast /\ FileQueued /\ PanelQueued)
<1>1. Init => Types /\ StopHolds /\ EndLast /\ FileQueued /\ PanelQueued
  BY TypesInit, StopHoldsInit, OrderInit
<1>2. Types /\ StopHolds /\ EndLast /\ FileQueued /\ PanelQueued /\ [Next]_vars
        => (Types /\ StopHolds /\ EndLast /\ FileQueued /\ PanelQueued)'
  BY TypesStep, StopHoldsStep, EndLastStep, FileQueuedStep, PanelQueuedStep
<1> QED
  BY <1>1, <1>2, PTL DEF Spec

(* The command a step starts is the first of those not yet started.        *)
LEMMA StartsFirst ==
  ASSUME Types, [Next]_vars, NEW s \in Sources, ran'[s] # ran[s]
  PROVE  /\ Ready # <<>> /\ Head(Ready).src = s /\ ran'[s] = Head(Ready).n
         /\ Ready \in Seq(AllCommands)
<1>1. Starting
  BY ReadySteps
<1>2. Ready \in Seq(AllCommands) /\ ran \in [Sources -> Nat]
  BY ReadyTyped DEF Types, HistoryTyped
<1>3. Head(Ready) \in AllCommands
  BY <1>1, <1>2, HeadTailProperties DEF Starting
<1>4. Head(Ready).src \in Sources
  BY <1>3 DEF AllCommands
<1> QED
  BY <1>1, <1>2, <1>4 DEF Starting

(* M1001, which closes the print, starts only after the last command of    *)
(* the file, unless the print was stopped: although the file's end may be  *)
(* read, awaited and noted in calls of idle() below any handler, and       *)
(* commands of every other source come between.                            *)
THEOREM JobCompletes == Spec => JobComplete
<1> DEFINE Inv == Types /\ StopHolds /\ EndLast /\ FileQueued /\ PanelQueued
<1>1. Inv /\ [Next]_vars =>
        [ran'[EndSource] # ran[EndSource] => ran[FileSource] = FileLines \/ stopped]_ran
  <2> SUFFICES ASSUME Inv, [Next]_vars, ran'[EndSource] # ran[EndSource], ~stopped
               PROVE  ran[FileSource] = FileLines
    OBVIOUS
  <2>1. EndSource \in Sources /\ FileSource \in Sources /\ FileLines \in Nat
    BY Constants DEF FileSource, EndSource, Sources
  <2>2. Ready # <<>> /\ Head(Ready).src = EndSource /\ Ready \in Seq(AllCommands)
    BY <2>1, StartsFirst
  <2>3. Len(Ready) \in Nat /\ 1 \in 1 .. Len(Ready) /\ Ready[1].src = EndSource
        /\ \A j \in 1 .. Len(Ready) : ~(j < 1)
    <3>1. Len(Ready) \in Nat /\ Len(Ready) # 0 /\ Ready[1] = Head(Ready)
      BY <2>2, EmptySeq, LenProperties
    <3>2. \A m \in Nat : m # 0 => 1 \in 1 .. m /\ \A j \in 1 .. m : ~(j < 1)
      OBVIOUS
    <3> QED
      BY <2>2, <3>1, <3>2
  <2>4. AtEnd /\ \A j \in 1 .. Len(Ready) : Ready[j].src # FileSource
    BY <2>3 DEF EndLast
  <2>5. ran[FileSource] \in Nat /\ file.next - 1 = FileLines
    BY <2>1, <2>4 DEF Types, HistoryTyped, AtEnd
  <2>6. ran[FileSource] <= FileLines
        /\ \A n \in ran[FileSource] + 1 .. FileLines :
             \E k \in 1 .. Len(Ready) : Ready[k].src = FileSource /\ Ready[k].n = n
    BY <2>5 DEF FileQueued, Queued
  <2>7. ~(ran[FileSource] < FileLines)
    <3> SUFFICES ASSUME ran[FileSource] < FileLines PROVE FALSE
      OBVIOUS
    <3>1. FileLines \in ran[FileSource] + 1 .. FileLines
      BY <2>1, <2>5
    <3> QED
      BY <2>4, <2>6, <3>1
  <2> QED
    BY <2>1, <2>5, <2>6, <2>7
<1> QED
  BY <1>1, OrderHolds, PTL DEF Spec, JobComplete
=============================================================================
