-------------------------- MODULE ModuleLoadProofs --------------------------
(* Proofs about ModuleLoad, for every value of its constants.               *)
EXTENDS ModuleLoad, StackLemmas, TLAPS

ModuleType == [canonical : Canonicals, load : {"Loading", "Loaded", "Failed"},
               value : Values \cup {NoValue}]
FrameType == [module : Ids, target : Targets \cup {NoTarget}]

\* A running program has a frame; a parked import names a path that is not known,
\* and nothing is raised while it waits.
Shape ==
  /\ Live => stack # <<>>
  /\ state = "Suspended" => pending \in Paths /\ ~Knows(pending) /\ raised = NoValue

----------------------------------------------------------------------------
(* What the operators the actions share do, element by element.             *)

LEMMA TopFacts ==
  ASSUME TypeOK, Shape, Live
  PROVE  /\ Len(stack) \in Nat \ {0}
         /\ Top = stack[Len(stack)] /\ Top \in FrameType
         /\ Front(stack) \in Seq(FrameType)
         /\ Len(Front(stack)) = Len(stack) - 1
         /\ \A j \in 1 .. Len(stack) - 1 : Front(stack)[j] = stack[j]
<1>1. stack \in Seq(FrameType) /\ stack # <<>>
  BY DEF TypeOK, FrameType, Shape
<1> QED
  BY <1>1, FrontFacts, LastFacts DEF Top

LEMMA KnowsFacts ==
  ASSUME TypeOK, NEW p \in Paths, Knows(p)
  PROVE  ByPath(p) \in Ids /\ <<p, ByPath(p)>> \in byPath
  BY DEF Knows, ByPath, Ids

\* Replacing the top frame by one of the same module keeps the modules.
SameModules ==
  /\ Len(stack') = Len(stack)
  /\ \A j \in 1 .. Len(stack) : stack'[j].module = stack[j].module

LEMMA RetargetFacts ==
  ASSUME TypeOK, Shape, Live, NEW t \in Targets \cup {NoTarget},
         NEW f, f = [module |-> Top.module, target |-> t],
         stack' = Append(Front(stack), f)
  PROVE  stack' \in Seq(FrameType) /\ SameModules
<1>1. stack \in Seq(FrameType) /\ stack # <<>>
  BY DEF TypeOK, FrameType, Shape
<1>2. f \in FrameType /\ f.module = Top.module
  BY TopFacts DEF FrameType
<1>3. /\ stack' \in Seq(FrameType) /\ Len(stack') = Len(stack)
      /\ stack'[Len(stack)] = f
      /\ \A j \in 1 .. Len(stack) - 1 : stack'[j] = stack[j]
  BY <1>1, <1>2, ReplaceLastFacts
<1> QED
  BY <1>2, <1>3, TopFacts DEF SameModules

LEMMA BindFacts ==
  ASSUME TypeOK, Shape, Live, NEW p \in Paths, NEW i \in Ids, Bind(p, i)
  PROVE  /\ stack' \in Seq(FrameType) /\ SameModules
         /\ uses' \subseteq [importer : Ids, path : Paths, module : Ids]
<1>1. stack' = Append(Front(stack), [module |-> Top.module, target |-> NoTarget])
  BY DEF Bind, Settle, Frame
<1>2. stack' \in Seq(FrameType) /\ SameModules
  BY <1>1, RetargetFacts
<1>3. Top.module \in Ids
  BY TopFacts DEF FrameType
<1> QED
  BY <1>2, <1>3 DEF Bind, TypeOK

LEMMA ImportFacts ==
  ASSUME TypeOK, Shape, NEW t \in Targets, Import(t)
  PROVE  stack' \in Seq(FrameType) /\ SameModules
<1>1. Live
  BY DEF Import, Quiet, Live
<1>2. [Top EXCEPT !.target = t] = [module |-> Top.module, target |-> t]
  BY <1>1, TopFacts DEF FrameType
<1> QED
  BY <1>1, <1>2, RetargetFacts DEF Import

LEMMA RegisterFacts ==
  ASSUME TypeOK, pending \in Paths, NEW c \in Canonicals,
         NEW l \in {"Loading", "Loaded", "Failed"}, NEW v \in Values \cup {NoValue},
         Register(c, l, v)
  PROVE  /\ table' \in Seq(ModuleType) /\ Len(table') = Len(table) + 1
         /\ table'[Len(table) + 1] = [canonical |-> c, load |-> l, value |-> v]
         /\ \A i \in Ids : table'[i] = table[i]
         /\ \A i \in Ids : table[i].canonical # c
         /\ Ids' = Ids \cup {Len(table) + 1} /\ Len(table) + 1 \notin Ids
         /\ byPath' = byPath \cup {<<pending, Len(table) + 1>>}
         /\ byPath' \subseteq Paths \X Ids'
<1>1. table \in Seq(ModuleType) /\ Len(table) \in Nat
  BY DEF TypeOK, ModuleType
<1>2. [canonical |-> c, load |-> l, value |-> v] \in ModuleType
  BY DEF ModuleType
<1>3. /\ table' \in Seq(ModuleType) /\ Len(table') = Len(table) + 1
      /\ table'[Len(table) + 1] = [canonical |-> c, load |-> l, value |-> v]
      /\ \A i \in 1 .. Len(table) : table'[i] = table[i]
  BY <1>1, <1>2, AppendFacts DEF Register
<1>4. Ids' = Ids \cup {Len(table) + 1} /\ Len(table) + 1 \notin Ids
  BY <1>1, <1>3 DEF Ids
<1>5. byPath' = byPath \cup {<<pending, Len(table) + 1>>}
      /\ \A i \in 1 .. Len(table) : table[i].canonical # c
  BY DEF Register
<1> QED
  BY <1>3, <1>4, <1>5 DEF Ids, TypeOK

\* The two ways a module joins the table.
JoinsAs(c, l, v) ==
  /\ Ids' = Ids \cup {Len(table) + 1} /\ Len(table) + 1 \notin Ids
  /\ \A i \in Ids : table'[i] = table[i]
  /\ \A i \in Ids : table[i].canonical # c
  /\ table'[Len(table) + 1] = [canonical |-> c, load |-> l, value |-> v]
  /\ table'[Len(table) + 1].canonical = c /\ table'[Len(table) + 1].load = l
  /\ table'[Len(table) + 1].value = v
  /\ byPath' = byPath \cup {<<pending, Len(table) + 1>>}
  /\ table' \in Seq(ModuleType) /\ byPath' \subseteq Paths \X Ids'

LEMMA JoinFacts ==
  ASSUME TypeOK, pending \in Paths, NEW c \in Canonicals,
         NEW l \in {"Loading", "Failed"}, NEW v \in Values \cup {NoValue},
         Register(c, l, v)
  PROVE  JoinsAs(c, l, v)
<1>1. l \in {"Loading", "Loaded", "Failed"}
  OBVIOUS
<1>2. /\ table' \in Seq(ModuleType)
      /\ table'[Len(table) + 1] = [canonical |-> c, load |-> l, value |-> v]
      /\ \A i \in Ids : table'[i] = table[i]
      /\ \A i \in Ids : table[i].canonical # c
      /\ Ids' = Ids \cup {Len(table) + 1} /\ Len(table) + 1 \notin Ids
      /\ byPath' = byPath \cup {<<pending, Len(table) + 1>>}
      /\ byPath' \subseteq Paths \X Ids'
  BY <1>1, RegisterFacts
<1>3. /\ table'[Len(table) + 1].canonical = c /\ table'[Len(table) + 1].load = l
      /\ table'[Len(table) + 1].value = v
  BY <1>2
<1> QED
  BY <1>2, <1>3, Zenon DEF JoinsAs

LEMMA LoadJoins ==
  ASSUME TypeOK, Shape, NEW c \in Canonicals, Load(c)
  PROVE  state = "Suspended" /\ pending \in Paths /\ JoinsAs(c, "Loading", NoValue)
<1>1. state = "Suspended" /\ pending \in Paths /\ Register(c, "Loading", NoValue)
  BY DEF Load, Answer, Shape
<1>2. "Loading" \in {"Loading", "Failed"} /\ NoValue \in Values \cup {NoValue}
  OBVIOUS
<1> QED
  BY <1>1, <1>2, JoinFacts

LEMMA RejectJoins ==
  ASSUME TypeOK, Shape, NEW c \in Canonicals, Reject(c)
  PROVE  /\ state = "Suspended" /\ pending \in Paths /\ raised' \in Values
         /\ JoinsAs(c, "Failed", raised')
<1>1. /\ state = "Suspended" /\ pending \in Paths /\ raised' \in Values
      /\ Register(c, "Failed", raised')
  BY DEF Reject, Answer, Shape
<1>2. "Failed" \in {"Loading", "Failed"} /\ raised' \in Values \cup {NoValue}
  BY <1>1
<1> QED
  BY <1>1, <1>2, JoinFacts

\* A frame that goes settles the load state of its module.
LEMMA SettledFacts ==
  ASSUME TypeOK, Shape, Live, NEW l \in {"Loaded", "Failed"}, NEW v \in Values \cup {NoValue},
         table' = [table EXCEPT ![Top.module] =
                     [canonical |-> @.canonical, load |-> l, value |-> v]]
  PROVE  /\ Top.module \in Ids /\ table' \in Seq(ModuleType) /\ Ids' = Ids
         /\ table'[Top.module] =
              [canonical |-> table[Top.module].canonical, load |-> l, value |-> v]
         /\ \A i \in Ids : i # Top.module => table'[i] = table[i]
<1>1. table \in Seq(ModuleType)
  BY DEF TypeOK, ModuleType
<1>2. Top.module \in Ids
  BY TopFacts DEF FrameType
<1>3. table[Top.module] \in ModuleType
  BY <1>1, <1>2 DEF Ids
<1>4. [canonical |-> table[Top.module].canonical, load |-> l, value |-> v] \in ModuleType
  BY <1>3 DEF ModuleType
<1> QED
  BY <1>1, <1>2, <1>4, ExceptFacts DEF Ids

LEMMA FinishFacts ==
  ASSUME TypeOK, Shape, Finish, Len(stack) # 1
  PROVE  /\ Top.module \in Ids /\ table' \in Seq(ModuleType) /\ Ids' = Ids
         /\ table'[Top.module] = [canonical |-> table[Top.module].canonical,
              load |-> "Loaded", value |-> table[Top.module].value]
         /\ \A i \in Ids : i # Top.module => table'[i] = table[i]
<1>1. Live /\ table' = [table EXCEPT ![Top.module].load = "Loaded"]
  BY DEF Finish, Quiet, Live
<1>2. Top.module \in Ids
  BY <1>1, TopFacts DEF FrameType
<1>a. table \in Seq(ModuleType)
  BY DEF TypeOK, ModuleType
<1>3. table[Top.module] \in ModuleType
  BY <1>2, <1>a DEF Ids
<1>4. [table[Top.module] EXCEPT !.load = "Loaded"] =
        [canonical |-> table[Top.module].canonical, load |-> "Loaded",
         value |-> table[Top.module].value]
  BY <1>3 DEF ModuleType
<1>5. table' = [table EXCEPT ![Top.module] =
        [canonical |-> @.canonical, load |-> "Loaded", value |-> table[Top.module].value]]
  BY <1>1, <1>4
<1>6. table[Top.module].value \in Values \cup {NoValue}
  BY <1>3 DEF ModuleType
<1> QED
  BY <1>1, <1>5, <1>6, SettledFacts

LEMMA AbandonFacts ==
  ASSUME TypeOK, Shape, Abandon, Len(stack) # 1
  PROVE  /\ Top.module \in Ids /\ table' \in Seq(ModuleType) /\ Ids' = Ids
         /\ table'[Top.module] = [canonical |-> table[Top.module].canonical,
              load |-> "Failed", value |-> raised]
         /\ \A i \in Ids : i # Top.module => table'[i] = table[i]
<1>1. /\ Live /\ table' = [table EXCEPT ![Top.module].load = "Failed",
                                        ![Top.module].value = raised]
  BY DEF Abandon, Live
<1>2. Top.module \in Ids
  BY <1>1, TopFacts DEF FrameType
<1>a. table \in Seq(ModuleType)
  BY DEF TypeOK, ModuleType
<1>3. table[Top.module] \in ModuleType
  BY <1>2, <1>a DEF Ids
<1>4. [[table[Top.module] EXCEPT !.load = "Failed"] EXCEPT !.value = raised] =
        [canonical |-> table[Top.module].canonical, load |-> "Failed", value |-> raised]
  <2>1. \A r \in ModuleType :
          [r EXCEPT !.load = "Failed"] =
            [canonical |-> r.canonical, load |-> "Failed", value |-> r.value]
    BY DEF ModuleType
  <2>2. \A c, v : [[canonical |-> c, load |-> "Failed", value |-> v] EXCEPT !.value = raised]
                  = [canonical |-> c, load |-> "Failed", value |-> raised]
    OBVIOUS
  <2> QED
    BY <1>3, <2>1, <2>2
<1>5. table' = [table EXCEPT ![Top.module] =
        [canonical |-> @.canonical, load |-> "Failed", value |-> raised]]
  BY <1>1, <1>2, <1>3, <1>4, <1>a DEF Ids
<1>6. raised \in Values \cup {NoValue}
  BY DEF TypeOK
<1> QED
  BY <1>1, <1>5, <1>6, SettledFacts

\* Raising changes nothing else.
RaiseOnly ==
  /\ raised' \in Values \cup {NoValue}
  /\ UNCHANGED <<state, table, caches, stack, pending, uses, breaks>>

\* Processing a target binds a loaded module, raises, or asks for an unknown path.
LEMMA ProcessFacts ==
  ASSUME TypeOK, Shape, Process
  PROVE  /\ state = "Running" /\ raised = NoValue /\ Live
         /\ \/ \E p \in Paths, i \in Ids : table[i].load = "Loaded" /\ Bind(p, i)
            \/ RaiseOnly
            \/ \E p \in Paths : ~Knows(p) /\ Ask(p)
<1>1. state = "Running" /\ raised = NoValue /\ Live
  BY DEF Process, Quiet, Live
<1>2. Top.target \in Targets
  BY <1>1, TopFacts DEF Process, FrameType
<1> DEFINE p == Top.target.path
<1>3. p \in Paths /\ (Len(p) > 1 => Front(p) \in Paths)
  BY <1>2, LoadAssumption DEF Targets
<1> HIDE DEF p
<1>4. ASSUME NEW q \in Paths, NEW i \in Ids, NEW m, ResolveLoaded(q, i, m)
      PROVE  (table[i].load = "Loaded" /\ Bind(q, i)) \/ RaiseOnly
  <2>1. table[i].value \in Values \cup {NoValue}
    <3>1. table \in Seq(ModuleType)
      BY DEF TypeOK, ModuleType
    <3>2. table[i] \in ModuleType
      BY <3>1 DEF Ids
    <3> QED
      BY <3>2 DEF ModuleType
  <2>2. CASE table[i].load = "Loaded" /\ Bind(q, i)
    BY <2>2
  <2>3. CASE table[i].load = "Loaded" /\ m /\ Raise
    BY <2>3 DEF Raise, RaiseOnly
  <2>4. CASE /\ raised' \in IF table[i].load = "Failed" THEN {table[i].value} ELSE Values
             /\ UNCHANGED <<state, table, caches, stack, pending, uses, breaks>>
    BY <2>1, <2>4 DEF RaiseOnly
  <2> QED
    BY <1>4, <2>2, <2>3, <2>4 DEF ResolveLoaded
<1>5. CASE Knows(p) /\ ResolveLoaded(p, ByPath(p), FALSE)
  BY <1>1, <1>3, <1>4, <1>5, KnowsFacts
<1>6. CASE Raise
  BY <1>1, <1>6 DEF Raise, RaiseOnly
<1>7. CASE /\ Len(p) > 1 /\ Knows(Front(p))
           /\ ResolveLoaded(Front(p), ByPath(Front(p)), TRUE)
  BY <1>1, <1>3, <1>4, <1>7, KnowsFacts
<1>8. CASE Len(p) > 1 /\ ~Knows(Front(p)) /\ Ask(Front(p))
  BY <1>1, <1>3, <1>8
<1>9. CASE ~Knows(p) /\ Ask(p)
  BY <1>1, <1>3, <1>9
<1> QED
  BY <1>5, <1>6, <1>7, <1>8, <1>9 DEF Process, p

----------------------------------------------------------------------------
(* Types.                                                                   *)

LEMMA TypeStep ==
  ASSUME TypeOK, Shape, [Next]_vars
  PROVE  TypeOK'
<1>1. CASE UNCHANGED vars
  BY <1>1 DEF vars, caches, TypeOK, Ids
<1>2. CASE Process
  <2>1. ASSUME NEW p \in Paths, NEW i \in Ids, Bind(p, i) PROVE TypeOK'
    <3>1. stack' \in Seq(FrameType) /\ uses' \subseteq [importer : Ids, path : Paths, module : Ids]
      BY <1>2, <2>1, ProcessFacts, BindFacts
    <3>2. Ids' = Ids
      BY <2>1 DEF Bind, Ids
    <3> QED
      BY <2>1, <3>1, <3>2 DEF Bind, TypeOK, FrameType, caches
  <2>2. CASE RaiseOnly
    BY <2>2 DEF RaiseOnly, TypeOK, Ids, caches
  <2>3. ASSUME NEW p \in Paths, Ask(p) PROVE TypeOK'
    BY <2>3 DEF Ask, TypeOK, Ids, caches
  <2> QED
    BY <1>2, <2>1, <2>2, <2>3, ProcessFacts
<1>3. ASSUME NEW t \in Targets, Import(t) PROVE TypeOK'
  <2>1. stack' \in Seq(FrameType)
    BY <1>3, ImportFacts
  <2> QED
    BY <1>3, <2>1 DEF Import, TypeOK, FrameType, Ids, caches
<1>4. CASE RaiseInBody
  BY <1>4 DEF RaiseInBody, Raise, TypeOK, Ids, caches
<1>5. CASE Finish \/ Abandon
  <2>1. Live /\ stack' = Front(stack)
    BY <1>5 DEF Finish, Abandon, Quiet, Live
  <2>2. stack' \in Seq(FrameType)
    BY <2>1, TopFacts
  <2>3. CASE Len(stack) = 1
    BY <1>5, <2>2, <2>3 DEF Finish, Abandon, TypeOK, FrameType, Ids, caches
  <2>4. CASE Len(stack) # 1
    <3>1. table' \in Seq(ModuleType) /\ Ids' = Ids
      BY <1>5, <2>4, FinishFacts, AbandonFacts
    <3>2. UNCHANGED <<state, byPath, notModules, pending, raised, uses, breaks>>
      BY <1>5, <2>4 DEF Finish, Abandon, caches
    <3> QED
      BY <2>2, <3>1, <3>2 DEF TypeOK, FrameType, ModuleType
  <2> QED
    BY <2>3, <2>4
<1>6. ASSUME NEW c \in Canonicals, Alias(c) PROVE TypeOK'
  <2>1. byPath' \subseteq Paths \X Ids
    BY <1>6 DEF Alias, Answer, Shape, TypeOK, Ids
  <2> QED
    BY <1>6, <2>1 DEF Alias, Answer, TypeOK, Ids
<1>7. ASSUME NEW c \in Canonicals, Load(c) PROVE TypeOK'
  <2>2. /\ table' \in Seq(ModuleType) /\ Ids' = Ids \cup {Len(table) + 1}
        /\ byPath' \subseteq Paths \X Ids'
    BY <1>7, LoadJoins DEF JoinsAs
  <2>3. stack' \in Seq([module : Ids', target : Targets \cup {NoTarget}])
    <3> DEFINE New == [module : Ids', target : Targets \cup {NoTarget}]
    <3>1. Frame(Len(table) + 1) \in New
      BY <2>2 DEF Frame
    <3>2. stack \in Seq(New)
      <4>1. stack \in Seq(FrameType) /\ FrameType \subseteq New
        BY <2>2 DEF TypeOK, FrameType
      <4> HIDE DEF New
      <4> QED
        BY <4>1
    <3> HIDE DEF New
    <3>3. Append(stack, Frame(Len(table) + 1)) \in Seq(New)
      BY <3>1, <3>2, AppendFacts
    <3> QED
      BY <1>7, <3>3 DEF Load, New
  <2>4. breaks' \in [Canonicals -> {"Unset", "Pending", "Resolved"}]
    BY <1>7 DEF Load, TypeOK
  <2>5. /\ uses' \subseteq [importer : Ids', path : Paths, module : Ids']
        /\ notModules' \subseteq Paths
    BY <1>7, <2>2 DEF Load, TypeOK
  <2>6. state' = "Running" /\ pending' = NoPath /\ raised' = raised
    BY <1>7 DEF Load, Answer
  <2> QED
    BY <2>2, <2>3, <2>4, <2>5, <2>6 DEF TypeOK, ModuleType
<1>8. ASSUME NEW c \in Canonicals, Reject(c) PROVE TypeOK'
  <2>1. raised' \in Values
    BY <1>8 DEF Reject
  <2>2. /\ table' \in Seq(ModuleType) /\ Ids' = Ids \cup {Len(table) + 1}
        /\ byPath' \subseteq Paths \X Ids'
    BY <1>8, RejectJoins DEF JoinsAs
  <2>3. stack' \in Seq([module : Ids', target : Targets \cup {NoTarget}])
    <3> DEFINE New == [module : Ids', target : Targets \cup {NoTarget}]
    <3>1. stack \in Seq(FrameType) /\ FrameType \subseteq New
      BY <2>2 DEF TypeOK, FrameType
    <3>2. stack' = stack
      BY <1>8 DEF Reject
    <3> HIDE DEF New
    <3>3. stack' \in Seq(New)
      BY <3>1, <3>2
    <3> QED
      BY <3>3 DEF New
  <2>4. /\ uses' \subseteq [importer : Ids', path : Paths, module : Ids']
        /\ notModules' \subseteq Paths
        /\ breaks' \in [Canonicals -> {"Unset", "Pending", "Resolved"}]
    BY <1>8, <2>2 DEF Reject, TypeOK
  <2>5. state' = "Running" /\ pending' = NoPath
    BY <1>8 DEF Reject, Answer
  <2> QED
    BY <2>1, <2>2, <2>3, <2>4, <2>5 DEF TypeOK, ModuleType
<1>9. CASE NotFound
  <2>1. notModules' \subseteq Paths /\ raised' \in Values \cup {NoValue}
    BY <1>9 DEF NotFound, Answer, Shape, TypeOK
  <2> QED
    BY <1>9, <2>1 DEF NotFound, Answer, TypeOK, Ids
<1>10. CASE HostRaise
  BY <1>10 DEF HostRaise, Answer, TypeOK, Ids, caches
<1>11. ASSUME NEW c \in Canonicals, SetBreakpoint(c) \/ ClearBreakpoint(c) PROVE TypeOK'
  <2>1. breaks' \in [Canonicals -> {"Unset", "Pending", "Resolved"}]
    BY <1>11 DEF SetBreakpoint, ClearBreakpoint, TypeOK
  <2> QED
    BY <1>11, <2>1 DEF SetBreakpoint, ClearBreakpoint, TypeOK, Ids, caches
<1>12. CASE Fault
  BY <1>12 DEF Fault, TypeOK, Ids, caches
<1>13. CASE Ended
  BY <1>13 DEF Ended, vars, caches, TypeOK, Ids
<1> QED
  BY <1>1, <1>2, <1>3, <1>4, <1>5, <1>6, <1>7, <1>8, <1>9, <1>10, <1>11, <1>12, <1>13
  DEF Next, Body, Respond

LEMMA ShapeStep ==
  ASSUME TypeOK, Shape, [Next]_vars
  PROVE  Shape'
<1>1. CASE UNCHANGED vars
  BY <1>1 DEF vars, caches, Shape, Live, Knows
<1>2. CASE Process
  <2>1. ASSUME NEW p \in Paths, NEW i \in Ids, Bind(p, i) PROVE Shape'
    <3>1. stack' # <<>> /\ state' = "Running"
      BY <1>2, <2>1, ProcessFacts, TopFacts DEF Bind, Settle
    <3> QED
      BY <3>1 DEF Shape
  <2>2. CASE RaiseOnly
    BY <1>2, <2>2, ProcessFacts DEF RaiseOnly, Shape, Live
  <2>3. ASSUME NEW p \in Paths, ~Knows(p), Ask(p) PROVE Shape'
    BY <1>2, <2>3, ProcessFacts DEF Ask, Shape, Live, Knows, caches
  <2> QED
    BY <1>2, <2>1, <2>2, <2>3, ProcessFacts
<1>3. ASSUME NEW t \in Targets, Import(t) PROVE Shape'
  <2>1. stack' # <<>> /\ state' = "Running"
    BY <1>3, TopFacts DEF Import, Quiet, Live
  <2> QED
    BY <2>1 DEF Shape
<1>4. CASE RaiseInBody
  BY <1>4 DEF RaiseInBody, Raise, Quiet, Shape, Live
<1>5. CASE Finish \/ Abandon
  <2>1. Live /\ stack' = Front(stack) /\ state = "Running"
    BY <1>5 DEF Finish, Abandon, Quiet, Live
  <2>2. CASE Len(stack) = 1
    BY <1>5, <2>2 DEF Finish, Abandon, Shape, Live
  <2>3. CASE Len(stack) # 1
    <3>1. stack' # <<>>
      BY <2>1, <2>3, TopFacts
    <3>2. state' = "Running"
      BY <1>5, <2>1, <2>3 DEF Finish, Abandon
    <3> QED
      BY <3>1, <3>2 DEF Shape
  <2> QED
    BY <2>2, <2>3
<1>6. ASSUME NEW c \in Canonicals, Load(c) PROVE Shape'
  <2>1. stack' # <<>> /\ state' = "Running"
    BY <1>6 DEF Load, Answer, TypeOK
  <2> QED
    BY <2>1 DEF Shape
<1>7. ASSUME NEW c \in Canonicals, Alias(c) \/ Reject(c) PROVE Shape'
  BY <1>7 DEF Alias, Reject, Answer, Shape, Live
<1>8. CASE NotFound \/ HostRaise
  BY <1>8 DEF NotFound, HostRaise, Answer, Shape, Live
<1>9. ASSUME NEW c \in Canonicals, SetBreakpoint(c) \/ ClearBreakpoint(c) PROVE Shape'
  BY <1>9 DEF SetBreakpoint, ClearBreakpoint, Shape, Live, Knows, caches
<1>10. CASE Fault
  BY <1>10 DEF Fault, Shape, Live
<1>11. CASE Ended
  BY <1>11 DEF Ended, vars, caches, Shape, Live, Knows
<1> QED
  BY <1>1, <1>2, <1>3, <1>4, <1>5, <1>6, <1>7, <1>8, <1>9, <1>10, <1>11
  DEF Next, Body, Respond

LEMMA InitFacts ==
  ASSUME Init
  PROVE  /\ TypeOK /\ Shape
         /\ Len(table) = 1 + Len(Preloaded) /\ Len(Preloaded) \in Nat
         /\ table[1] = [canonical |-> Entry, load |-> "Loading", value |-> NoValue]
         /\ \A i \in 2 .. Len(table) : table[i] =
              [canonical |-> Preloaded[i - 1].canonical, load |-> "Loaded", value |-> NoValue]
         /\ Len(stack) = 1 /\ stack[1].module = 1
<1> DEFINE n == Len(Preloaded)
           Loaded == [i \in 1 .. n |-> Module(Preloaded[i].canonical, "Loaded")]
<1>1. n \in Nat /\ \A i \in 1 .. n : /\ Preloaded[i].path \in Paths
                                  /\ Preloaded[i].canonical \in Canonicals
  <2> DEFINE Native == [path : Paths, canonical : Canonicals \ {Entry}]
  <2>1. Preloaded \in Seq(Native)
    BY LoadAssumption
  <2> HIDE DEF Native
  <2>2. n \in Nat /\ \A i \in 1 .. n : Preloaded[i] \in Native
    BY <2>1
  <2> QED
    BY <2>2 DEF Native
<1> HIDE DEF n
<1>2. Loaded \in Seq(ModuleType) /\ Len(Loaded) = n
      /\ \A i \in 1 .. n : Loaded[i] =
           [canonical |-> Preloaded[i].canonical, load |-> "Loaded", value |-> NoValue]
  BY <1>1 DEF Module, ModuleType
<1>3. Module(Entry, "Loading") \in ModuleType
      /\ Module(Entry, "Loading") = [canonical |-> Entry, load |-> "Loading", value |-> NoValue]
  BY LoadAssumption DEF Module, ModuleType
<1> HIDE DEF Loaded
<1>4. table = <<Module(Entry, "Loading")>> \o Loaded
  BY DEF Init, Loaded, n
<1>5. /\ table \in Seq(ModuleType) /\ Len(table) = 1 + n
      /\ table[1] = Module(Entry, "Loading")
      /\ \A i \in 2 .. 1 + n : table[i] = Loaded[i - 1]
  <2>1. <<Module(Entry, "Loading")>> \in Seq(ModuleType) /\ Len(<<Module(Entry, "Loading")>>) = 1
    BY <1>3
  <2> QED
    BY <1>1, <1>2, <1>4, <2>1
<1>6. stack = <<[module |-> 1, target |-> NoTarget]>>
  BY DEF Init, Frame
<1>7. byPath \subseteq Paths \X Ids
  BY <1>1, <1>5 DEF Init, Ids, n
<1>8. stack \in Seq([module : Ids, target : Targets \cup {NoTarget}])
  BY <1>1, <1>5, <1>6 DEF Ids
<1>9. TypeOK
  BY <1>5, <1>7, <1>8 DEF Init, TypeOK, ModuleType
<1>10. Shape
  BY <1>6 DEF Init, Shape
<1>11. \A i \in 2 .. 1 + n : table[i] =
          [canonical |-> Preloaded[i - 1].canonical, load |-> "Loaded", value |-> NoValue]
  <2>1. \A i \in 2 .. 1 + n : i - 1 \in 1 .. n
    BY <1>1
  <2> QED
    BY <1>2, <1>5, <2>1
<1>12. Len(stack) = 1 /\ stack[1].module = 1
  BY <1>6
<1> QED
  BY <1>1, <1>3, <1>5, <1>9, <1>10, <1>11, <1>12 DEF n

----------------------------------------------------------------------------
(* The moves: every step of the system is one of five, as far as the table,  *)
(* the paths and the stack are concerned.                                   *)

Still ==
  /\ UNCHANGED <<table, byPath>> /\ SameModules /\ (Live' => Live)

Drained ==
  /\ Len(stack) = 1 /\ ~Live' /\ UNCHANGED <<table, byPath>>
  /\ Len(stack') = 0

Popped ==
  /\ state = "Running" /\ Len(stack) > 1 /\ Top.module \in Ids
  /\ Top.module = stack[Len(stack)].module
  /\ Len(stack') = Len(stack) - 1 /\ \A j \in 1 .. Len(stack') : stack'[j] = stack[j]
  /\ Ids' = Ids /\ UNCHANGED byPath
  /\ table'[Top.module].load \in {"Loaded", "Failed"}
  /\ table'[Top.module].canonical = table[Top.module].canonical
  /\ \A i \in Ids : i # Top.module => table'[i] = table[i]

Aliased ==
  /\ state = "Suspended" /\ UNCHANGED <<table, stack>>
  /\ \E i \in Ids : byPath' = byPath \cup {<<pending, i>>}

Grown ==
  /\ state = "Suspended"
  /\ Ids' = Ids \cup {Len(table) + 1} /\ Len(table) + 1 \notin Ids
  /\ \A i \in Ids : table'[i] = table[i]
  /\ \A i \in Ids : table[i].canonical # table'[Len(table) + 1].canonical
  /\ byPath' = byPath \cup {<<pending, Len(table) + 1>>}
  /\ \/ /\ table'[Len(table) + 1].load = "Loading"
        /\ Len(stack') = Len(stack) + 1
        /\ stack'[Len(stack) + 1].module = Len(table) + 1
        /\ \A j \in 1 .. Len(stack) : stack'[j] = stack[j]
     \/ table'[Len(table) + 1].load = "Failed" /\ UNCHANGED stack

LEMMA Moves ==
  ASSUME TypeOK, Shape, [Next]_vars
  PROVE  Still \/ Drained \/ Popped \/ Aliased \/ Grown
<1>1. CASE UNCHANGED vars
  BY <1>1 DEF vars, caches, Still, SameModules, Live
<1>2. CASE Process
  <2>1. ASSUME NEW p \in Paths, NEW i \in Ids, Bind(p, i) PROVE Still
    <3>1. SameModules
      BY <1>2, <2>1, ProcessFacts, BindFacts
    <3> QED
      BY <2>1, <3>1 DEF Bind, Still, Live, caches
  <2>2. CASE RaiseOnly
    BY <2>2 DEF RaiseOnly, Still, SameModules, Live, caches
  <2>3. ASSUME NEW p \in Paths, Ask(p) PROVE Still
    BY <1>2, <2>3, ProcessFacts DEF Ask, Still, SameModules, Live, caches
  <2> QED
    BY <1>2, <2>1, <2>2, <2>3, ProcessFacts
<1>3. ASSUME NEW t \in Targets, Import(t) PROVE Still
  BY <1>3, ImportFacts DEF Import, Quiet, Still, Live, caches
<1>4. CASE RaiseInBody
  BY <1>4 DEF RaiseInBody, Raise, Still, SameModules, Live, caches
<1>5. CASE Finish \/ Abandon
  <2>1. state = "Running" /\ Live /\ stack' = Front(stack) /\ UNCHANGED byPath
    BY <1>5 DEF Finish, Abandon, Quiet, Live, caches
  <2>2. CASE Len(stack) = 1
    <3>1. UNCHANGED table /\ ~Live'
      BY <1>5, <2>2 DEF Finish, Abandon, Live
    <3> QED
      BY <2>1, <2>2, <3>1, TopFacts DEF Drained
  <2>3. CASE Len(stack) # 1
    <3>1. /\ Top.module \in Ids /\ Ids' = Ids
          /\ table'[Top.module].load \in {"Loaded", "Failed"}
          /\ table'[Top.module].canonical = table[Top.module].canonical
          /\ \A i \in Ids : i # Top.module => table'[i] = table[i]
      BY <1>5, <2>3, FinishFacts, AbandonFacts
    <3>2. /\ Len(stack) > 1 /\ Top.module = stack[Len(stack)].module
          /\ Len(stack') = Len(stack) - 1
          /\ \A j \in 1 .. Len(stack') : stack'[j] = stack[j]
      BY <2>1, <2>3, TopFacts
    <3> QED
      BY <2>1, <3>1, <3>2 DEF Popped
  <2> QED
    BY <2>2, <2>3
<1>6. ASSUME NEW c \in Canonicals, Alias(c) PROVE Aliased
  BY <1>6 DEF Alias, Answer, Aliased, Ids
<1>7. ASSUME NEW c \in Canonicals, Load(c) PROVE Grown
  <2>1. state = "Suspended" /\ JoinsAs(c, "Loading", NoValue)
    BY <1>7, LoadJoins
  <2>2. /\ Ids' = Ids \cup {Len(table) + 1} /\ Len(table) + 1 \notin Ids
        /\ \A i \in Ids : table'[i] = table[i]
        /\ \A i \in Ids : table[i].canonical # table'[Len(table) + 1].canonical
        /\ table'[Len(table) + 1].load = "Loading"
        /\ byPath' = byPath \cup {<<pending, Len(table) + 1>>}
    BY <2>1 DEF JoinsAs
  <2>3. /\ Len(stack') = Len(stack) + 1
        /\ stack'[Len(stack) + 1].module = Len(table) + 1
        /\ \A j \in 1 .. Len(stack) : stack'[j] = stack[j]
    BY <1>7 DEF Load, TypeOK, Frame
  <2> QED
    BY <2>1, <2>2, <2>3 DEF Grown
<1>8. ASSUME NEW c \in Canonicals, Reject(c) PROVE Grown
  <2>1. state = "Suspended" /\ JoinsAs(c, "Failed", raised')
    BY <1>8, RejectJoins
  <2>2. /\ Ids' = Ids \cup {Len(table) + 1} /\ Len(table) + 1 \notin Ids
        /\ \A i \in Ids : table'[i] = table[i]
        /\ \A i \in Ids : table[i].canonical # table'[Len(table) + 1].canonical
        /\ table'[Len(table) + 1].load = "Failed"
        /\ byPath' = byPath \cup {<<pending, Len(table) + 1>>}
    BY <2>1 DEF JoinsAs
  <2> QED
    BY <1>8, <2>1, <2>2 DEF Grown, Reject
<1>9. CASE NotFound \/ HostRaise
  BY <1>9 DEF NotFound, HostRaise, Answer, Still, SameModules, Live, caches
<1>10. ASSUME NEW c \in Canonicals, SetBreakpoint(c) \/ ClearBreakpoint(c) PROVE Still
  BY <1>10 DEF SetBreakpoint, ClearBreakpoint, Still, SameModules, Live, caches
<1>11. CASE Fault
  BY <1>11 DEF Fault, Still, SameModules, Live, caches
<1>12. CASE Ended
  BY <1>12 DEF Ended, vars, caches, Still, SameModules, Live
<1> QED
  BY <1>1, <1>2, <1>3, <1>4, <1>5, <1>6, <1>7, <1>8, <1>9, <1>10, <1>11, <1>12
  DEF Next, Body, Respond

----------------------------------------------------------------------------
(* Loading exactly while on the stack.                                      *)

\* No module has two frames.
Distinct ==
  \A i, j \in 1 .. Len(stack) : stack[i].module = stack[j].module => i = j

LEMMA StackStep ==
  ASSUME TypeOK, Shape, Distinct, LoadingIsOnStack, [Next]_vars
  PROVE  Distinct' /\ LoadingIsOnStack'
<1>0. Len(stack) \in Nat /\ \A j \in 1 .. Len(stack) : stack[j].module \in Ids
  <2>1. stack \in Seq(FrameType)
    BY DEF TypeOK, FrameType
  <2>2. Len(stack) \in Nat /\ \A j \in 1 .. Len(stack) : stack[j] \in FrameType
    BY <2>1
  <2> QED
    BY <2>2 DEF FrameType
<1>1. CASE Still
  <2>1. Distinct'
    BY <1>1 DEF Still, SameModules, Distinct
  <2>2. ASSUME Live' PROVE LoadingIsOnStack'
    BY <1>1, <2>2 DEF Still, SameModules, LoadingIsOnStack, Ids
  <2> QED
    BY <2>1, <2>2 DEF LoadingIsOnStack
<1>2. CASE Drained
  BY <1>2 DEF Drained, Distinct, LoadingIsOnStack
<1>3. CASE Popped
  <2>1. Distinct'
    BY <1>0, <1>3 DEF Popped, Distinct
  <2> DEFINE n == Len(stack)
             m == Top.module
  <2>2. /\ n \in Nat /\ n > 1 /\ m = stack[n].module /\ m \in Ids /\ Ids' = Ids
        /\ Len(stack') = n - 1 /\ \A j \in 1 .. n - 1 : stack'[j] = stack[j]
        /\ table'[m].load # "Loading" /\ \A i \in Ids : i # m => table'[i] = table[i]
    BY <1>0, <1>3 DEF Popped
  <2>3. \A i \in Ids : table[i].load = "Loading" <=> \E j \in 1 .. n : stack[j].module = i
    BY <1>3 DEF Popped, LoadingIsOnStack, Live
  <2>4. \A j \in 1 .. n - 1 : stack[j].module # m
    BY <2>2 DEF Distinct
  <2> HIDE DEF n, m
  <2>5. ASSUME NEW i \in Ids
        PROVE  table'[i].load = "Loading" <=> \E j \in 1 .. n - 1 : stack'[j].module = i
    <3>1. CASE i = m
      BY <2>2, <2>4, <3>1
    <3>2. CASE i # m
      <4>1. table'[i].load = "Loading" <=> \E j \in 1 .. n : stack[j].module = i
        BY <2>2, <2>3, <3>2
      <4>2. (\E j \in 1 .. n : stack[j].module = i) <=> \E j \in 1 .. n - 1 : stack[j].module = i
        BY <2>2, <3>2
      <4>3. (\E j \in 1 .. n - 1 : stack[j].module = i)
              <=> \E j \in 1 .. n - 1 : stack'[j].module = i
        BY <2>2
      <4> QED
        BY <4>1, <4>2, <4>3
    <3> QED
      BY <3>1, <3>2
  <2> QED
    BY <2>1, <2>2, <2>5 DEF LoadingIsOnStack
<1>4. CASE Aliased
  BY <1>4 DEF Aliased, Distinct, LoadingIsOnStack, Live, Ids
<1>5. CASE Grown
  <2> DEFINE n == Len(stack)
             m == Len(table) + 1
  <2>1. \A i \in Ids : table[i].load = "Loading" <=> \E j \in 1 .. n : stack[j].module = i
    BY <1>5 DEF Grown, LoadingIsOnStack, Live
  <2>2. /\ n \in Nat /\ m \notin Ids /\ Ids' = Ids \cup {m}
        /\ \A i \in Ids : table'[i] = table[i]
        /\ \A j \in 1 .. n : stack[j].module \in Ids
    BY <1>0, <1>5 DEF Grown
  <2>3. CASE /\ table'[m].load = "Loading" /\ Len(stack') = n + 1
             /\ stack'[n + 1].module = m /\ \A j \in 1 .. n : stack'[j] = stack[j]
    <3>1. Distinct'
      BY <2>2, <2>3 DEF Distinct
    <3> HIDE DEF n, m
    <3>2. ASSUME NEW i \in Ids'
          PROVE  table'[i].load = "Loading" <=> \E j \in 1 .. n + 1 : stack'[j].module = i
      <4>1. CASE i = m
        BY <2>2, <2>3, <4>1
      <4>2. CASE i \in Ids
        <5>1. (\E j \in 1 .. n + 1 : stack'[j].module = i)
                <=> \E j \in 1 .. n : stack[j].module = i
          BY <2>2, <2>3, <4>2
        <5> QED
          BY <2>1, <2>2, <4>2, <5>1
      <4> QED
        BY <2>2, <4>1, <4>2
    <3> QED
      BY <2>3, <3>1, <3>2 DEF LoadingIsOnStack
  <2>4. CASE table'[m].load = "Failed" /\ UNCHANGED stack
    <3>1. Distinct'
      BY <2>4 DEF Distinct
    <3> HIDE DEF m
    <3>2. ASSUME NEW i \in Ids'
          PROVE  table'[i].load = "Loading" <=> \E j \in 1 .. n : stack[j].module = i
      BY <2>1, <2>2, <2>4
    <3> QED
      BY <2>4, <3>1, <3>2 DEF LoadingIsOnStack
  <2> QED
    BY <1>5, <2>3, <2>4 DEF Grown
<1> QED
  BY <1>1, <1>2, <1>3, <1>4, <1>5, Moves

----------------------------------------------------------------------------
(* One module to a name.                                                    *)

LEMMA NameStep ==
  ASSUME TypeOK, Shape, OneModulePerName, [Next]_vars
  PROVE  OneModulePerName'
<1>1. CASE Still \/ Drained
  BY <1>1 DEF Still, Drained, OneModulePerName, Ids
<1>2. CASE Popped
  <2>1. Ids' = Ids /\ byPath' = byPath
    BY <1>2 DEF Popped
  <2>2. \A i \in Ids : table'[i].canonical = table[i].canonical
    BY <1>2 DEF Popped
  <2> QED
    BY <2>1, <2>2 DEF OneModulePerName
<1>3. CASE Aliased \/ Grown
  <2>1. pending \in Paths /\ \A i \in Ids : <<pending, i>> \notin byPath
    BY <1>3 DEF Aliased, Grown, Shape, Knows, Ids
  <2>2. \A q \in Paths : \A i : <<q, i>> \in byPath => i \in Ids
    BY DEF TypeOK
  <2>3. PICK k : byPath' = byPath \cup {<<pending, k>>}
    BY <1>3 DEF Aliased, Grown
  <2>4. ASSUME NEW q \in Paths, NEW i \in Ids', NEW j \in Ids',
               <<q, i>> \in byPath', <<q, j>> \in byPath'
        PROVE  i = j
    <3>1. CASE q = pending
      BY <2>1, <2>2, <2>3, <2>4, <3>1
    <3>2. CASE q # pending
      <4>1. <<q, i>> \in byPath /\ <<q, j>> \in byPath
        BY <2>3, <2>4, <3>2
      <4> QED
        BY <2>2, <4>1 DEF OneModulePerName
    <3> QED
      BY <3>1, <3>2
  <2>5. ASSUME NEW i \in Ids', NEW j \in Ids', table'[i].canonical = table'[j].canonical
        PROVE  i = j
    <3>1. CASE Aliased
      BY <2>5, <3>1 DEF Aliased, OneModulePerName, Ids
    <3>2. CASE Grown
      BY <2>5, <3>2 DEF Grown, OneModulePerName
    <3> QED
      BY <1>3, <3>1, <3>2
  <2> QED
    BY <2>4, <2>5 DEF OneModulePerName
<1> QED
  BY <1>1, <1>2, <1>3, Moves

----------------------------------------------------------------------------
(* Initialised before use.                                                  *)

UsesLoaded == \A u \in uses : table[u.module].load = "Loaded"

\* Every set of modules has one that depends on none of the set.
Acyclic ==
  \A S \in SUBSET Nat : S # {} =>
    \E i \in S : \A u \in uses : ~(u.importer = i /\ u.module \in S)

LEMMA UsesMoves ==
  ASSUME TypeOK, Shape, [Next]_vars
  PROVE  \/ uses' = uses
         \/ /\ state = "Running" /\ UNCHANGED table
            /\ \E p \in Paths, i \in Ids :
                 /\ table[i].load = "Loaded"
                 /\ uses' = uses \cup {[importer |-> Top.module, path |-> p, module |-> i]}
<1>1. CASE Process
  <2>1. CASE \E p \in Paths, i \in Ids : table[i].load = "Loaded" /\ Bind(p, i)
    BY <1>1, <2>1, ProcessFacts DEF Bind
  <2>2. CASE RaiseOnly
    BY <2>2 DEF RaiseOnly
  <2>3. CASE \E p \in Paths : ~Knows(p) /\ Ask(p)
    BY <2>3 DEF Ask
  <2> QED
    BY <1>1, <2>1, <2>2, <2>3, ProcessFacts
<1>2. CASE Body \/ Abandon
  BY <1>2 DEF Body, Import, RaiseInBody, Raise, Finish, Abandon
<1>3. CASE Respond
  BY <1>3 DEF Respond, Alias, Load, Reject, NotFound, HostRaise
<1>4. CASE \E c \in Canonicals : SetBreakpoint(c) \/ ClearBreakpoint(c)
  BY <1>4 DEF SetBreakpoint, ClearBreakpoint
<1>5. CASE Fault \/ Ended \/ UNCHANGED vars
  BY <1>5 DEF Fault, Ended, vars
<1> QED
  BY <1>1, <1>2, <1>3, <1>4, <1>5 DEF Next

LEMMA UsesStep ==
  ASSUME TypeOK, Shape, LoadingIsOnStack, UsesLoaded, Acyclic, [Next]_vars
  PROVE  UsesLoaded' /\ Acyclic'
<1>0. \A u \in uses : u.module \in Ids /\ u.importer \in Ids
  BY DEF TypeOK
<1>1. CASE uses' = uses
  <2>1. Acyclic'
    BY <1>1 DEF Acyclic
  <2>2. CASE UNCHANGED table
    BY <1>1, <2>1, <2>2 DEF UsesLoaded
  <2>3. CASE Popped
    <3>1. table[Top.module].load = "Loading"
      <4>1. /\ Live /\ Top.module \in Ids /\ Len(stack) \in 1 .. Len(stack)
            /\ stack[Len(stack)].module = Top.module
        BY <2>3, TopFacts DEF Popped, Live
      <4> QED
        BY <4>1 DEF LoadingIsOnStack
    <3>2. \A i \in Ids : table[i].load = "Loaded" => table'[i] = table[i]
      BY <2>3, <3>1 DEF Popped
    <3> QED
      BY <1>0, <1>1, <2>1, <3>2 DEF UsesLoaded
  <2>4. CASE Grown
    <3>1. \A i \in Ids : table'[i] = table[i]
      BY <2>4 DEF Grown
    <3> QED
      BY <1>0, <1>1, <2>1, <3>1 DEF UsesLoaded
  <2> QED
    BY <2>1, <2>2, <2>3, <2>4, Moves DEF Still, Drained, Aliased
<1>2. ASSUME NEW p \in Paths, NEW i \in Ids, state = "Running", UNCHANGED table,
             table[i].load = "Loaded",
             uses' = uses \cup {[importer |-> Top.module, path |-> p, module |-> i]}
      PROVE  UsesLoaded' /\ Acyclic'
  <2>1. UsesLoaded'
    BY <1>2 DEF UsesLoaded
  <2>2. Top.module \in Ids /\ table[Top.module].load = "Loading"
    <3>1. /\ Live /\ Top.module \in Ids /\ Len(stack) \in 1 .. Len(stack)
          /\ stack[Len(stack)].module = Top.module
      <4>1. Live
        BY <1>2 DEF Live
      <4>2. Len(stack) \in Nat \ {0} /\ Top = stack[Len(stack)] /\ Top \in FrameType
        BY <4>1, TopFacts
      <4> QED
        BY <4>1, <4>2 DEF FrameType
    <3> QED
      BY <3>1 DEF LoadingIsOnStack
  <2>3. ASSUME NEW S \in SUBSET Nat, S # {}
        PROVE  \E k \in S : \A u \in uses' : ~(u.importer = k /\ u.module \in S)
    <3> DEFINE T == {k \in S : table[k].load = "Loaded"}
    <3>1. \A u \in uses' : u.module \in S => u.module \in T
      BY <1>2, <2>1 DEF UsesLoaded
    <3>2. CASE T = {}
      BY <2>3, <3>1, <3>2
    <3>3. CASE T # {}
      <4>1. PICK k \in T : \A u \in uses : ~(u.importer = k /\ u.module \in T)
        BY <3>3 DEF Acyclic
      <4>2. k # Top.module
        BY <2>2, <4>1
      <4>3. \A u \in uses' : ~(u.importer = k /\ u.module \in S)
        BY <1>2, <3>1, <4>1, <4>2
      <4> QED
        BY <4>1, <4>3
    <3> QED
      BY <3>2, <3>3
  <2> QED
    BY <2>1, <2>3 DEF Acyclic
<1> QED
  BY <1>1, <1>2, UsesMoves

LEMMA UsesAreInOrder ==
  ASSUME TypeOK, UsesLoaded, Acyclic
  PROVE  InitialisedFirst
<1>1. ASSUME NEW S \in SUBSET Ids, S # {} PROVE \E i \in S : Dependencies(i) \cap S = {}
  <2>1. S \in SUBSET Nat
    BY DEF Ids
  <2>2. PICK i \in S : \A u \in uses : ~(u.importer = i /\ u.module \in S)
    BY <1>1, <2>1 DEF Acyclic
  <2>3. Dependencies(i) \cap S = {}
    BY <2>2 DEF Dependencies
  <2> QED
    BY <2>3
<1> QED
  BY <1>1 DEF InitialisedFirst, UsesLoaded

----------------------------------------------------------------------------
(* Failures.                                                                *)

LEMMA FailureStep ==
  ASSUME TypeOK, Shape, FailureIsFinal, [Next]_vars
  PROVE  FailureIsFinal'
<1>0. raised = NoValue => \A i \in Ids : table[i].load # "Failed"
  BY DEF FailureIsFinal
<1>1. CASE UNCHANGED <<table, raised>> /\ (state' = state \/ state' = "Faulted")
  BY <1>1 DEF FailureIsFinal, Ids
<1>2. CASE UNCHANGED table /\ raised = NoValue
  BY <1>0, <1>2 DEF FailureIsFinal, Ids
<1>3. CASE Process
  BY <1>2, <1>3, ProcessFacts DEF Bind, RaiseOnly, Ask
<1>4. CASE (\E t \in Targets : Import(t)) \/ RaiseInBody
  BY <1>2, <1>4 DEF Import, RaiseInBody, Raise, Quiet
<1>5. CASE Finish
  <2>1. CASE Len(stack) = 1
    BY <1>2, <1>5, <2>1 DEF Finish, Quiet
  <2>2. CASE Len(stack) # 1
    <3>1. \A i \in Ids : table[i].load # "Failed"
      BY <1>0, <1>5 DEF Finish, Quiet
    <3>2. Ids' = Ids /\ \A i \in Ids : table'[i].load # "Failed"
      BY <1>5, <2>2, <3>1, FinishFacts
    <3> QED
      BY <3>2 DEF FailureIsFinal
  <2> QED
    BY <2>1, <2>2
<1>6. CASE Abandon
  <2>1. raised # NoValue /\ raised' = raised /\ state' \in {"Running", "Raised"}
    BY <1>6 DEF Abandon
  <2>2. CASE Len(stack) = 1
    BY <1>6, <2>1, <2>2 DEF Abandon, FailureIsFinal, Ids
  <2>3. CASE Len(stack) # 1
    <3>1. /\ Ids' = Ids /\ table'[Top.module].value = raised
          /\ \A i \in Ids : i # Top.module => table'[i] = table[i]
      BY <1>6, <2>3, AbandonFacts
    <3> QED
      BY <2>1, <3>1 DEF FailureIsFinal
  <2> QED
    BY <2>2, <2>3
<1>7. CASE \E c \in Canonicals : Alias(c) \/ Load(c) \/ Reject(c)
  <2>1. /\ state = "Suspended" /\ raised = NoValue /\ pending \in Paths
        /\ \A i \in Ids : table[i].load # "Failed"
    BY <1>0, <1>7 DEF Alias, Load, Reject, Answer, Shape
  <2>2. CASE \E c \in Canonicals : Alias(c)
    BY <1>2, <2>1, <2>2 DEF Alias
  <2>3. ASSUME NEW c \in Canonicals, Load(c) PROVE FailureIsFinal'
    <3>1. JoinsAs(c, "Loading", NoValue)
      BY <2>3, LoadJoins
    <3> QED
      BY <2>1, <3>1 DEF FailureIsFinal, JoinsAs
  <2>4. ASSUME NEW c \in Canonicals, Reject(c) PROVE FailureIsFinal'
    <3>1. state' = "Running" /\ raised' \in Values
      BY <2>4 DEF Reject, Answer
    <3>2. JoinsAs(c, "Failed", raised')
      BY <2>4, RejectJoins
    <3>3. raised' # NoValue
      BY <3>1, LoadAssumption
    <3> QED
      BY <2>1, <3>1, <3>2, <3>3 DEF FailureIsFinal, JoinsAs
  <2> QED
    BY <1>7, <2>2, <2>3, <2>4
<1>8. CASE NotFound \/ HostRaise
  BY <1>2, <1>8 DEF NotFound, HostRaise, Answer, Shape
<1>9. CASE \E c \in Canonicals : SetBreakpoint(c) \/ ClearBreakpoint(c)
  BY <1>1, <1>9 DEF SetBreakpoint, ClearBreakpoint
<1>10. CASE Fault \/ Ended \/ UNCHANGED vars
  BY <1>1, <1>10 DEF Fault, Ended, vars
<1> QED
  BY <1>3, <1>4, <1>5, <1>6, <1>7, <1>8, <1>9, <1>10 DEF Next, Body, Respond

----------------------------------------------------------------------------
(* Breakpoints.                                                             *)

LEMMA BreakpointStep ==
  ASSUME TypeOK, Shape, BreakpointsFollow, [Next]_vars
  PROVE  BreakpointsFollow'
<1>0. /\ Len(stack) \in Nat
      /\ \A j \in 1 .. Len(stack) :
           /\ stack[j].module \in Ids /\ table[stack[j].module].canonical \in Canonicals
  <2>1. stack \in Seq(FrameType) /\ table \in Seq(ModuleType)
    BY DEF TypeOK, FrameType, ModuleType
  <2>2. /\ Len(stack) \in Nat /\ \A j \in 1 .. Len(stack) : stack[j] \in FrameType
        /\ \A i \in Ids : table[i] \in ModuleType
    BY <2>1 DEF Ids
  <2> QED
    BY <2>2 DEF FrameType, ModuleType
<1>1. CASE UNCHANGED breaks /\ ~(\E c \in Canonicals : Load(c))
  <2>1. CASE Still
    BY <1>1, <2>1 DEF Still, SameModules, BreakpointsFollow
  <2>2. CASE Drained
    BY <2>2 DEF Drained, BreakpointsFollow
  <2>3. CASE Popped
    <3>1. \A i \in Ids : table'[i].canonical = table[i].canonical
      BY <2>3 DEF Popped
    <3>2. \A j \in 1 .. Len(stack') : j \in 1 .. Len(stack) /\ stack'[j] = stack[j]
      BY <1>0, <2>3 DEF Popped
    <3> QED
      BY <1>0, <1>1, <3>1, <3>2 DEF BreakpointsFollow
  <2>4. CASE Aliased
    BY <1>1, <2>4 DEF Aliased, BreakpointsFollow
  <2>5. CASE Grown /\ UNCHANGED stack
    BY <1>0, <1>1, <2>5 DEF Grown, BreakpointsFollow
  <2>6. CASE Grown /\ stack' # stack
    <3>1. state = "Suspended" /\ table' # table
      BY <2>6 DEF Grown, Ids
    <3>2. FALSE
      BY <1>1, <2>6, <3>1 DEF Next, Process, Body, Import, RaiseInBody, Finish, Quiet, Abandon,
         Respond, Alias, Reject, NotFound, HostRaise, SetBreakpoint, ClearBreakpoint,
         Fault, Ended, vars
    <3> QED
      BY <3>2
  <2> QED
    BY <2>1, <2>2, <2>3, <2>4, <2>5, <2>6, Moves
<1>2. ASSUME NEW c \in Canonicals, Load(c) PROVE BreakpointsFollow'
  <2>2. /\ \A i \in Ids : table'[i] = table[i]
        /\ table'[Len(table) + 1].canonical = c
    BY <1>2, LoadJoins DEF JoinsAs
  <2>3. /\ Len(stack') = Len(stack) + 1
        /\ stack'[Len(stack) + 1].module = Len(table) + 1
        /\ \A j \in 1 .. Len(stack) : stack'[j] = stack[j]
    BY <1>2 DEF Load, TypeOK, Frame
  <2>4. /\ breaks'[c] # "Pending"
        /\ \A d \in Canonicals : breaks[d] # "Pending" => breaks'[d] # "Pending"
    BY <1>2 DEF Load, TypeOK
  <2>5. ASSUME NEW j \in 1 .. Len(stack) + 1
        PROVE  breaks'[table'[stack'[j].module].canonical] # "Pending"
    <3>1. CASE j = Len(stack) + 1
      BY <2>2, <2>3, <2>4, <3>1
    <3>2. CASE j \in 1 .. Len(stack)
      BY <1>0, <2>2, <2>3, <2>4, <3>2 DEF BreakpointsFollow
    <3> QED
      BY <1>0, <3>1, <3>2
  <2> QED
    BY <2>3, <2>5 DEF BreakpointsFollow
<1>3. ASSUME NEW c \in Canonicals, SetBreakpoint(c) \/ ClearBreakpoint(c)
      PROVE  BreakpointsFollow'
  <2>1. UNCHANGED <<table, stack>>
    BY <1>3 DEF SetBreakpoint, ClearBreakpoint
  <2>2. ASSUME NEW i \in Ids, breaks[table[i].canonical] # "Pending",
               table[i].canonical \in Canonicals
        PROVE  breaks'[table[i].canonical] # "Pending"
    <3>1. breaks \in [Canonicals -> {"Unset", "Pending", "Resolved"}]
      BY DEF TypeOK
    <3>2. CASE SetBreakpoint(c)
      <4>1. table[i].canonical = c =>
              \E k \in 1 .. Len(table) : table[k].canonical = c
        BY DEF Ids
      <4> QED
        BY <2>2, <3>1, <3>2, <4>1 DEF SetBreakpoint
    <3>3. CASE ClearBreakpoint(c)
      BY <2>2, <3>1, <3>3 DEF ClearBreakpoint
    <3> QED
      BY <1>3, <3>2, <3>3
  <2> QED
    BY <1>0, <2>1, <2>2 DEF BreakpointsFollow
<1>4. \/ UNCHANGED breaks \/ \E c \in Canonicals : Load(c)
      \/ \E c \in Canonicals : SetBreakpoint(c) \/ ClearBreakpoint(c)
  <2>1. CASE Process
    BY <2>1, ProcessFacts DEF Bind, RaiseOnly, Ask
  <2>2. CASE Body \/ Abandon
    BY <2>2 DEF Body, Import, RaiseInBody, Raise, Finish, Abandon
  <2>3. CASE Respond
    BY <2>3 DEF Respond, Alias, Reject, NotFound, HostRaise
  <2>4. CASE Fault \/ Ended \/ UNCHANGED vars
    BY <2>4 DEF Fault, Ended, vars
  <2> QED
    BY <2>1, <2>2, <2>3, <2>4 DEF Next
<1> QED
  BY <1>1, <1>2, <1>3, <1>4

----------------------------------------------------------------------------
(* The theorems.                                                            *)

\* The inductive invariant.
IInv ==
  /\ TypeOK /\ Shape /\ Distinct /\ LoadingIsOnStack /\ OneModulePerName
  /\ UsesLoaded /\ Acyclic /\ FailureIsFinal /\ BreakpointsFollow

LEMMA InitIInv == Init => IInv
<1> SUFFICES ASSUME Init PROVE IInv
  OBVIOUS
<1> DEFINE n == Len(Preloaded)
<1>1. /\ n \in Nat /\ Len(table) = 1 + n /\ Ids = 1 .. 1 + n
      /\ table[1] = [canonical |-> Entry, load |-> "Loading", value |-> NoValue]
      /\ \A i \in 2 .. 1 + n : table[i] =
           [canonical |-> Preloaded[i - 1].canonical, load |-> "Loaded", value |-> NoValue]
      /\ Len(stack) = 1 /\ stack[1].module = 1
  BY InitFacts DEF Ids
<1>2. \A i \in 1 .. n : Preloaded[i].canonical # Entry
  <2> DEFINE Native == [path : Paths, canonical : Canonicals \ {Entry}]
  <2>1. Preloaded \in Seq(Native)
    BY LoadAssumption
  <2> HIDE DEF Native
  <2>2. \A i \in 1 .. n : Preloaded[i] \in Native
    BY <2>1
  <2> QED
    BY <2>2 DEF Native
<1>3. \A i, j \in 1 .. n : i # j => /\ Preloaded[i].path # Preloaded[j].path
                                  /\ Preloaded[i].canonical # Preloaded[j].canonical
  BY LoadAssumption
<1>4. uses = {} /\ byPath = {<<Preloaded[i].path, i + 1>> : i \in 1 .. n}
      /\ breaks = [c \in Canonicals |-> "Unset"]
  BY DEF Init
<1> HIDE DEF n
<1>a. ASSUME NEW i \in Ids, i # 1
      PROVE  /\ i - 1 \in 1 .. n /\ table[i].load = "Loaded"
             /\ table[i].canonical = Preloaded[i - 1].canonical
  <2>1. i \in 2 .. 1 + n /\ i - 1 \in 1 .. n
    BY <1>1, <1>a
  <2>2. table[i] =
          [canonical |-> Preloaded[i - 1].canonical, load |-> "Loaded", value |-> NoValue]
    BY <1>1, <2>1
  <2> QED
    BY <2>1, <2>2
<1>b. 1 \in Ids /\ table[1].load = "Loading" /\ table[1].canonical = Entry
  BY <1>1
<1>5. Distinct /\ LoadingIsOnStack
  <2>1. Distinct
    BY <1>1 DEF Distinct
  <2>2. ASSUME NEW i \in Ids
        PROVE  table[i].load = "Loading" <=> \E j \in 1 .. Len(stack) : stack[j].module = i
    <3>1. (\E j \in 1 .. Len(stack) : stack[j].module = i) <=> i = 1
      BY <1>1
    <3>2. table[i].load = "Loading" <=> i = 1
      BY <1>a, <1>b, <2>2
    <3> QED
      BY <3>1, <3>2
  <2> QED
    BY <2>1, <2>2 DEF LoadingIsOnStack
<1>6. ASSUME NEW i \in Ids, NEW j \in Ids, table[i].canonical = table[j].canonical PROVE i = j
  <2>1. CASE i = 1 /\ j = 1
    BY <2>1
  <2>2. CASE i = 1 /\ j # 1
    BY <1>2, <1>6, <1>a, <1>b, <2>2
  <2>3. CASE i # 1 /\ j = 1
    BY <1>2, <1>6, <1>a, <1>b, <2>3
  <2>4. CASE i # 1 /\ j # 1
    <3>1. i - 1 \in 1 .. n /\ j - 1 \in 1 .. n
          /\ Preloaded[i - 1].canonical = Preloaded[j - 1].canonical
      BY <1>6, <1>a, <2>4
    <3>2. i - 1 = j - 1
      BY <1>3, <3>1
    <3> QED
      BY <1>1, <3>2
  <2> QED
    BY <2>1, <2>2, <2>3, <2>4
<1>7. ASSUME NEW q \in Paths, NEW i \in Ids, NEW j \in Ids,
             <<q, i>> \in byPath, <<q, j>> \in byPath
      PROVE  i = j
  <2>1. PICK k \in 1 .. n : q = Preloaded[k].path /\ i = k + 1
    BY <1>4, <1>7
  <2>2. PICK l \in 1 .. n : q = Preloaded[l].path /\ j = l + 1
    BY <1>4, <1>7
  <2> QED
    BY <1>3, <2>1, <2>2
<1>8. OneModulePerName
  BY <1>6, <1>7 DEF OneModulePerName
<1>9. UsesLoaded /\ Acyclic
  BY <1>4 DEF UsesLoaded, Acyclic
<1>10. FailureIsFinal
  <2>1. \A i \in Ids : table[i].load # "Failed"
    BY <1>a, <1>b
  <2> QED
    BY <2>1 DEF FailureIsFinal
<1>11. BreakpointsFollow
  <2>1. table[stack[1].module].canonical \in Canonicals
    BY <1>1, <1>b, LoadAssumption
  <2> QED
    BY <1>1, <1>4, <2>1 DEF BreakpointsFollow
<1> QED
  BY <1>5, <1>8, <1>9, <1>10, <1>11, InitFacts DEF IInv

LEMMA InvariantHolds == Spec => []IInv
<1>1. IInv /\ [Next]_vars => IInv'
  BY TypeStep, ShapeStep, StackStep, NameStep, UsesStep, FailureStep, BreakpointStep DEF IInv
<1> QED
  BY <1>1, InitIInv, PTL DEF Spec

\* The type invariant of ModuleLoad.
THEOREM TypeCorrect == Spec => []TypeOK
<1>1. IInv => TypeOK
  BY DEF IInv
<1> QED
  BY <1>1, InvariantHolds, PTL

\* A module is loading exactly while its frame is on the stack (modload.rs
\* LoadState): circular imports are reported exactly for cycles.
THEOREM LoadingStandsOnStack == Spec => []LoadingIsOnStack
<1>1. IInv => LoadingIsOnStack
  BY DEF IInv
<1> QED
  BY <1>1, InvariantHolds, PTL

\* No module is loaded twice, by whatever paths and canonical ids it is reached
\* (import.rs load_import_source).
THEOREM ModulesAreSingletons == Spec => []OneModulePerName
<1>1. IInv => OneModulePerName
  BY DEF IInv
<1> QED
  BY <1>1, InvariantHolds, PTL

\* Only modules that have run to the end are bound, and dependencies never form
\* a cycle (modload.rs resolve_loaded).
THEOREM ModulesInitialiseInOrder == Spec => []InitialisedFirst
<1>1. IInv => InitialisedFirst
  BY UsesAreInOrder DEF IInv
<1> QED
  BY <1>1, InvariantHolds, PTL

\* A failed load retains the exception that ends the program (import.rs
\* enter_failed_module, cleanup.rs raise_unwind).
THEOREM FailuresAreFinal == Spec => []FailureIsFinal
<1>1. IInv => FailureIsFinal
  BY DEF IInv
<1> QED
  BY <1>1, InvariantHolds, PTL

\* No module with a frame has a breakpoint that waits for it (breakpoint.rs
\* reresolve_breakpoints).
THEOREM BreakpointsAreResolved == Spec => []BreakpointsFollow
<1>1. IInv => BreakpointsFollow
  BY DEF IInv
<1> QED
  BY <1>1, InvariantHolds, PTL

\* Table, caches, stack and breakpoints agree at every moment of every program, for
\* every host (modload.rs, import.rs).
THEOREM RegistryIsSound == Spec => []RegistrySound
  BY TypeCorrect, LoadingStandsOnStack, ModulesAreSingletons, ModulesInitialiseInOrder,
     BreakpointsAreResolved, PTL DEF RegistrySound
=============================================================================
