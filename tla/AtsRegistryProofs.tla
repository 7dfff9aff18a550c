------------------------- MODULE AtsRegistryProofs --------------------------
(***************************************************************************)
(* Theorems about AtsRegistry, for every set of modules, tables, names and *)
(* callbacks.                                                              *)
(***************************************************************************)
EXTENDS AtsRegistry, SequenceLemmas

-----------------------------------------------------------------------------
(* The inductive invariant *)

Entry == [str: Name, cb: Callback]

Unique(list) == \A i, j \in DOMAIN list : list[i].str = list[j].str => i = j

\* The entry at position i of the table of the module at position k has been
\* dealt with by the loop that is running.
Passed(k, i) == k < mi \/ (k = mi /\ i < ci)

\* A loop of AtCmdInit has registered every complete entry it has passed.
InitProgress ==
  pc = "init" =>
    \A k \in DOMAIN moduleList : \A i \in DOMAIN Cmds[moduleList[k]] :
      LET cmd == Cmds[moduleList[k]][i] IN
        Passed(k, i) /\ cmd.str # NULL /\ cmd.cb # NULL => cmd.str \in Registered

\* A loop of AtCmdDeInit has unregistered every name it has passed.
DeInitProgress ==
  pc = "deinit" =>
    \A k \in DOMAIN moduleList : \A i \in DOMAIN Cmds[moduleList[k]] :
      Passed(k, i) => Cmds[moduleList[k]][i].str \notin Registered

IInv == TypeOK /\ UniqueNames /\ InitProgress /\ DeInitProgress

-----------------------------------------------------------------------------
(* The two exported functions *)

\* AtCmdRegister keeps the entries complete and the names unique, forgets no
\* name, and leaves a complete command's name registered even when it fails.
LEMMA RegisterFacts ==
  ASSUME cmdList \in Seq(Entry), Unique(cmdList),
         NEW cmd \in AtCmd, AtCmdRegister(cmd)
  PROVE  /\ cmdList' \in Seq(Entry)
         /\ Unique(cmdList')
         /\ ret' \in {"RET_OK", "RET_INVALID_PARAM"}
         /\ Registered \subseteq Registered'
         /\ cmd.str # NULL /\ cmd.cb # NULL => cmd.str \in Registered'
<1>1. CASE Registrable(cmd) /\ cmdList' = Append(cmdList, cmd) /\ ret' = "RET_OK"
  <2>1. cmd \in Entry
    BY <1>1 DEF Registrable, AtCmd, Entry
  <2>2. /\ cmdList' \in Seq(Entry)
        /\ Len(cmdList') = Len(cmdList) + 1
        /\ \A i \in 1 .. Len(cmdList) : cmdList'[i] = cmdList[i]
        /\ cmdList'[Len(cmdList) + 1] = cmd
    BY <1>1, <2>1, AppendProperties
  <2>3. Len(cmdList) \in Nat /\ DOMAIN cmdList = 1 .. Len(cmdList)
        /\ DOMAIN cmdList' = 1 .. Len(cmdList) + 1
    BY <2>2, LenProperties
  <2>4. \A i \in DOMAIN cmdList : cmdList[i].str # cmd.str
    BY <1>1 DEF Registrable, Registered, Names
  <2>5. Unique(cmdList')
    BY <2>2, <2>3, <2>4 DEF Unique
  <2>6. Registered \subseteq Registered' /\ cmd.str \in Registered'
    <3>1. \A i \in DOMAIN cmdList : cmdList[i].str \in Names(cmdList')
      BY <2>2, <2>3 DEF Names
    <3>2. cmd.str \in Names(cmdList')
      BY <2>2, <2>3 DEF Names
    <3> QED BY <3>1, <3>2 DEF Registered, Names
  <2> QED BY <1>1, <2>2, <2>5, <2>6
<1>2. CASE ~Registrable(cmd) /\ ret' = "RET_INVALID_PARAM" /\ UNCHANGED cmdList
  BY <1>2 DEF Registrable, Registered, Names, Unique
<1> QED BY <1>1, <1>2 DEF AtCmdRegister

\* AtCmdUnregister keeps the entries complete and the names unique, adds no
\* name, and leaves its argument's name unregistered.
LEMMA UnregisterFacts ==
  ASSUME cmdList \in Seq(Entry), Unique(cmdList),
         NEW cmd \in AtCmd, AtCmdUnregister(cmd)
  PROVE  /\ cmdList' \in Seq(Entry)
         /\ Unique(cmdList')
         /\ ret' \in {"RET_OK", "RET_INVALID_PARAM", "RET_ERROR"}
         /\ Registered' \subseteq Registered
         /\ cmd.str \notin Registered'
<1>1. CASE ret' = "RET_OK" /\ \E i \in DOMAIN cmdList :
             IsFirst(cmdList, cmd.str, i) /\ cmdList' = RemoveAt(cmdList, i)
  <2>1. PICK i \in DOMAIN cmdList :
          IsFirst(cmdList, cmd.str, i) /\ cmdList' = RemoveAt(cmdList, i)
    BY <1>1
  <2>2. i \in 1 .. Len(cmdList) /\ DOMAIN cmdList = 1 .. Len(cmdList)
    BY LenProperties
  <2>3. /\ cmdList' \in Seq(Entry)
        /\ Len(cmdList') = Len(cmdList) - 1
        /\ \A j \in 1 .. Len(cmdList) - 1 :
             cmdList'[j] = IF j < i THEN cmdList[j] ELSE cmdList[j + 1]
    BY <2>1, <2>2, RemoveAtFacts
  <2>4. DOMAIN cmdList' = 1 .. Len(cmdList) - 1 /\ Len(cmdList) \in Nat
    BY <2>3, LenProperties
  <2> DEFINE Old(j) == IF j < i THEN j ELSE j + 1
  <2>5. \A j \in DOMAIN cmdList' :
          Old(j) \in DOMAIN cmdList /\ Old(j) # i /\ cmdList'[j] = cmdList[Old(j)]
    BY <2>2, <2>3, <2>4
  <2>6. Unique(cmdList')
    <3> SUFFICES ASSUME NEW j \in DOMAIN cmdList', NEW k \in DOMAIN cmdList',
                        cmdList'[j].str = cmdList'[k].str
                 PROVE  j = k
      BY DEF Unique
    <3>1. Old(j) = Old(k)
      BY <2>5 DEF Unique
    <3> QED BY <3>1, <2>2, <2>4
  <2>7. cmdList[i].str = cmd.str
    BY <2>1 DEF IsFirst
  <2>8. Registered' \subseteq Registered
    BY <2>5 DEF Registered, Names
  <2>9. cmd.str \notin Registered'
    BY <2>5, <2>7 DEF Unique, Registered, Names
  <2> QED BY <1>1, <2>3, <2>6, <2>8, <2>9
<1>2. CASE cmd.str = NULL /\ ret' = "RET_INVALID_PARAM" /\ UNCHANGED cmdList
  <2>1. \A i \in DOMAIN cmdList : cmdList[i].str \in Name
    <3>1. \A i \in 1 .. Len(cmdList) : cmdList[i] \in Entry
      BY ElementOfSeq
    <3> QED BY <3>1, LenProperties DEF Entry
  <2> QED BY <1>2, <2>1, NullAssumption DEF Registered, Names, Unique
<1>3. CASE cmd.str \notin Registered /\ ret' = "RET_ERROR" /\ UNCHANGED cmdList
  BY <1>3 DEF Registered, Names, Unique
<1> QED BY <1>1, <1>2, <1>3 DEF AtCmdUnregister

\* The entry a loop looks at is a command of a table.
LEMMA InTableFacts ==
  ASSUME TypeOK, InTable
  PROVE  /\ mi \in DOMAIN moduleList
         /\ ci \in DOMAIN Cmds[moduleList[mi]]
         /\ Cmds[moduleList[mi]][ci] \in AtCmd
<1>1. mi \in 1 .. Len(moduleList) /\ DOMAIN moduleList = 1 .. Len(moduleList)
  BY LenProperties DEF TypeOK, InTable
<1>2. moduleList[mi] \in Module
  BY <1>1, ElementOfSeq DEF TypeOK
<1>3. Cmds[moduleList[mi]] \in Seq(AtCmd)
  BY <1>2, CmdsAssumption
<1>4. ci \in 1 .. Len(Cmds[moduleList[mi]])
        /\ DOMAIN Cmds[moduleList[mi]] = 1 .. Len(Cmds[moduleList[mi]])
  BY <1>3, LenProperties DEF TypeOK, InTable
<1>5. Cmds[moduleList[mi]][ci] \in AtCmd
  BY <1>3, <1>4, ElementOfSeq
<1> QED BY <1>1, <1>4, <1>5

-----------------------------------------------------------------------------
(* The invariant holds *)

\* The program starts with both lists empty and no loop running.
LEMMA InitInvariant == Init => IInv
  BY NullAssumption
     DEF Init, IInv, TypeOK, IndicesInLists, UniqueNames, InitProgress, DeInitProgress

\* No step takes the indices of a running loop out of the lists.
LEMMA IndicesStay ==
  ASSUME TypeOK, [Next]_vars
  PROVE  IndicesInLists'
<1> SUFFICES ASSUME pc' \in {"init", "deinit"}
             PROVE  /\ mi' <= Len(moduleList') + 1
                    /\ IF mi' <= Len(moduleList')
                       THEN ci' <= Len(Cmds[moduleList'[mi']]) + 1
                       ELSE ci' = 1
  BY DEF IndicesInLists
<1>0. Len(moduleList) \in Nat /\ mi \in Nat \ {0} /\ ci \in Nat \ {0}
  BY LenProperties DEF TypeOK
<1>1. \A k \in 1 .. Len(moduleList) : Len(Cmds[moduleList[k]]) \in Nat
  <2> TAKE k \in 1 .. Len(moduleList)
  <2>1. moduleList[k] \in Module
    BY ElementOfSeq DEF TypeOK
  <2> QED BY <2>1, CmdsAssumption, LenProperties
<1>2. moduleList' = moduleList
  BY DEF TypeOK, Next, vars, Loop, CmdsInit, CmdsDeInit, MainStarts, RegisterCall,
         UnregisterCall, EnterLoop, InitStep, DeInitStep, NextModule, LeaveLoop, Exit, Exited
<1>3. CASE InitStep \/ DeInitStep
  BY <1>0, <1>2, <1>3 DEF InitStep, DeInitStep, InTable
<1>4. CASE NextModule
  <2>1. mi' = mi + 1 /\ ci' = 1 /\ mi <= Len(moduleList)
    BY <1>4 DEF NextModule
  <2>2. mi' <= Len(moduleList) => mi' \in 1 .. Len(moduleList)
    BY <1>0, <2>1
  <2> QED BY <1>0, <1>1, <1>2, <2>1, <2>2
<1>5. CASE \E loop \in {"init", "deinit"} : EnterLoop(loop)
  <2>1. mi' = 1 /\ ci' = 1
    BY <1>5 DEF EnterLoop
  <2>2. mi' <= Len(moduleList) => mi' \in 1 .. Len(moduleList)
    BY <1>0, <2>1
  <2> QED BY <1>0, <1>1, <1>2, <2>1, <2>2
<1>6. CASE pc' = pc /\ mi' = mi /\ ci' = ci
  BY <1>2, <1>6 DEF TypeOK, IndicesInLists
<1> QED
  BY <1>3, <1>4, <1>5, <1>6
     DEF Next, vars, Loop, CmdsInit, CmdsDeInit, MainStarts, RegisterCall,
         UnregisterCall, LeaveLoop, Exit, Exited

\* No constructor, call, loop iteration or destructor breaks the invariant.
LEMMA StepInvariant == IInv /\ [Next]_vars => IInv'
<1> SUFFICES ASSUME IInv, [Next]_vars
             PROVE  IInv'
  OBVIOUS
<1> USE DEF IInv
<1>0. cmdList \in Seq(Entry) /\ Unique(cmdList)
  BY DEF TypeOK, UniqueNames, Entry, Unique
<1>z. IndicesInLists'
  BY IndicesStay
<1>1. ASSUME NEW m \in Module, CmdsInit(m)
      PROVE  IInv'
  <2>1. moduleList' \in Seq(Module)
    BY <1>1, AppendProperties DEF CmdsInit, TypeOK
  <2> QED
    BY <1>1, <2>1, <1>z DEF CmdsInit, TypeOK, UniqueNames, InitProgress, DeInitProgress
<1>2. ASSUME NEW m \in Module, CmdsDeInit(m)
      PROVE  IInv'
  <2>1. moduleList' \in Seq(Module)
    BY <1>2, RemoveAtFacts, LenProperties DEF CmdsDeInit, TypeOK
  <2> QED
    BY <1>2, <2>1, <1>z DEF CmdsDeInit, TypeOK, UniqueNames, InitProgress, DeInitProgress
<1>3. CASE MainStarts
  BY <1>3, <1>z DEF MainStarts, TypeOK, UniqueNames, InitProgress, DeInitProgress
<1>4. CASE RegisterCall
  <2>1. PICK cmd \in ApiCmd : AtCmdRegister(cmd)
    BY <1>4 DEF RegisterCall
  <2>2. cmd \in AtCmd
    BY ApiAssumption
  <2>3. /\ cmdList' \in Seq(Entry)
        /\ Unique(cmdList')
        /\ ret' \in {"RET_OK", "RET_INVALID_PARAM"}
    BY <1>0, <2>1, <2>2, RegisterFacts
  <2> QED
    BY <1>4, <2>3, <1>z DEF RegisterCall, TypeOK, UniqueNames, Entry, Unique,
                      InitProgress, DeInitProgress
<1>5. CASE UnregisterCall
  <2>1. PICK cmd \in ApiCmd : AtCmdUnregister(cmd)
    BY <1>5 DEF UnregisterCall
  <2>2. cmd \in AtCmd
    BY ApiAssumption
  <2>3. /\ cmdList' \in Seq(Entry)
        /\ Unique(cmdList')
        /\ ret' \in {"RET_OK", "RET_INVALID_PARAM", "RET_ERROR"}
    BY <1>0, <2>1, <2>2, UnregisterFacts
  <2> QED
    BY <1>5, <2>3, <1>z DEF UnregisterCall, TypeOK, UniqueNames, Entry, Unique,
                      InitProgress, DeInitProgress
<1>6. ASSUME NEW loop \in {"init", "deinit"}, EnterLoop(loop)
      PROVE  IInv'
  <2>1. TypeOK' /\ UniqueNames'
    BY <1>6, <1>z DEF EnterLoop, TypeOK, UniqueNames
  <2>2. ~ \E k \in DOMAIN moduleList : \E i \in DOMAIN Cmds[moduleList[k]] :
            k < 1 \/ (k = 1 /\ i < 1)
    <3>1. \A k \in DOMAIN moduleList :
            k \in Nat \ {0} /\ DOMAIN Cmds[moduleList[k]] \subseteq Nat \ {0}
      <4> TAKE k \in DOMAIN moduleList
      <4>1. k \in 1 .. Len(moduleList) /\ moduleList[k] \in Module
        BY ElementOfSeq, LenProperties DEF TypeOK
      <4>2. DOMAIN Cmds[moduleList[k]] = 1 .. Len(Cmds[moduleList[k]])
        BY <4>1, CmdsAssumption, LenProperties
      <4> QED BY <4>1, <4>2
    <3> QED BY <3>1
  <2> QED
    BY <1>6, <2>1, <2>2 DEF EnterLoop, InitProgress, DeInitProgress, Passed
<1>7. CASE InitStep
  <2> DEFINE cmd == Cmds[moduleList[mi]][ci]
  <2>1. /\ mi \in DOMAIN moduleList
        /\ ci \in DOMAIN Cmds[moduleList[mi]]
        /\ cmd \in AtCmd
    BY <1>7, InTableFacts DEF InitStep
  <2>2. /\ cmdList' \in Seq(Entry)
        /\ Unique(cmdList')
        /\ ret' \in {"RET_OK", "RET_INVALID_PARAM"}
        /\ Registered \subseteq Registered'
        /\ cmd.str # NULL /\ cmd.cb # NULL => cmd.str \in Registered'
    BY <1>0, <1>7, <2>1, RegisterFacts DEF InitStep
  <2>3. TypeOK' /\ UniqueNames' /\ DeInitProgress'
    BY <1>7, <2>2, <1>z DEF InitStep, TypeOK, UniqueNames, Entry, Unique, DeInitProgress
  <2>4. ASSUME NEW k \in DOMAIN moduleList, NEW i \in DOMAIN Cmds[moduleList[k]],
               Passed(k, i)'
        PROVE  Passed(k, i) \/ (k = mi /\ i = ci)
    <3>1. i \in Nat
      <4>1. moduleList[k] \in Module
        BY ElementOfSeq, LenProperties DEF TypeOK
      <4>2. DOMAIN Cmds[moduleList[k]] = 1 .. Len(Cmds[moduleList[k]])
        BY <4>1, CmdsAssumption, LenProperties
      <4> QED BY <4>2
    <3> QED BY <1>7, <2>4, <3>1 DEF InitStep, Passed, TypeOK
  <2>5. InitProgress'
    BY <1>7, <2>2, <2>4 DEF InitStep, InitProgress
  <2> QED BY <2>3, <2>5
<1>8. CASE DeInitStep
  <2> DEFINE cmd == Cmds[moduleList[mi]][ci]
  <2>1. /\ mi \in DOMAIN moduleList
        /\ ci \in DOMAIN Cmds[moduleList[mi]]
        /\ cmd \in AtCmd
    BY <1>8, InTableFacts DEF DeInitStep
  <2>2. /\ cmdList' \in Seq(Entry)
        /\ Unique(cmdList')
        /\ ret' \in {"RET_OK", "RET_INVALID_PARAM", "RET_ERROR"}
        /\ Registered' \subseteq Registered
        /\ cmd.str \notin Registered'
    BY <1>0, <1>8, <2>1, UnregisterFacts DEF DeInitStep
  <2>3. TypeOK' /\ UniqueNames' /\ InitProgress'
    BY <1>8, <2>2, <1>z DEF DeInitStep, TypeOK, UniqueNames, Entry, Unique, InitProgress
  <2>4. ASSUME NEW k \in DOMAIN moduleList, NEW i \in DOMAIN Cmds[moduleList[k]],
               Passed(k, i)'
        PROVE  Passed(k, i) \/ (k = mi /\ i = ci)
    <3>1. i \in Nat
      <4>1. moduleList[k] \in Module
        BY ElementOfSeq, LenProperties DEF TypeOK
      <4>2. DOMAIN Cmds[moduleList[k]] = 1 .. Len(Cmds[moduleList[k]])
        BY <4>1, CmdsAssumption, LenProperties
      <4> QED BY <4>2
    <3> QED BY <1>8, <2>4, <3>1 DEF DeInitStep, Passed, TypeOK
  <2>5. DeInitProgress'
    BY <1>8, <2>2, <2>4 DEF DeInitStep, DeInitProgress
  <2> QED BY <2>3, <2>5
<1>9. CASE NextModule
  <2>1. TypeOK' /\ UniqueNames'
    BY <1>9, <1>z DEF NextModule, TypeOK, UniqueNames
  <2>2. ASSUME NEW k \in DOMAIN moduleList, NEW i \in DOMAIN Cmds[moduleList[k]],
               Passed(k, i)'
        PROVE  Passed(k, i)
    <3>1. k \in Nat /\ moduleList[k] \in Module
      BY ElementOfSeq, LenProperties DEF TypeOK
    <3>2. i \in 1 .. Len(Cmds[moduleList[k]]) /\ Len(Cmds[moduleList[k]]) \in Nat
      BY <3>1, CmdsAssumption, LenProperties
    <3> QED BY <1>9, <2>2, <3>1, <3>2 DEF NextModule, Passed, TypeOK
  <2>3. Registered' = Registered
    BY <1>9 DEF NextModule, Registered
  <2> QED
    BY <1>9, <2>1, <2>2, <2>3 DEF NextModule, InitProgress, DeInitProgress
<1>10. CASE LeaveLoop
  BY <1>10, <1>z DEF LeaveLoop, TypeOK, UniqueNames, InitProgress, DeInitProgress
<1>11. CASE Exit
  BY <1>11, <1>z DEF Exit, TypeOK, UniqueNames, InitProgress, DeInitProgress
<1>12. CASE Exited \/ UNCHANGED vars
  BY <1>12, <1>z DEF Exited, vars, TypeOK, UniqueNames, InitProgress, DeInitProgress,
               Passed, Registered
<1> QED
  BY <1>1, <1>2, <1>3, <1>4, <1>5, <1>6, <1>7, <1>8, <1>9, <1>10, <1>11, <1>12
     DEF Next, Loop

\* In every reachable state the types are right, the names in g_cmdList are
\* unique, and a running AtCmdInit or AtCmdDeInit has dealt with every entry
\* it has passed.
THEOREM Invariance == Spec => []IInv
<1> QED BY InitInvariant, StepInvariant, PTL DEF Spec

-----------------------------------------------------------------------------
(* What follows from the invariant *)

\* The state of the registry has its type, in every reachable state.
THEOREM TypeCorrect == Spec => []TypeOK
<1>1. IInv => TypeOK
  BY DEF IInv
<1> QED BY <1>1, Invariance, PTL

\* A name has at most one node in g_cmdList, in every reachable state.
THEOREM NamesAreUnique == Spec => []UniqueNames
<1>1. IInv => UniqueNames
  BY DEF IInv
<1> QED BY <1>1, Invariance, PTL

\* A loop that returns has passed every entry of every module.
LEMMA AllPassed ==
  ASSUME TypeOK, [Next]_vars, pc \in {"init", "deinit"}, pc' = "idle"
  PROVE  \A k \in DOMAIN moduleList : \A i \in DOMAIN Cmds[moduleList[k]] :
           Passed(k, i)
<1>1. LeaveLoop
  BY DEF Next, vars, Loop, CmdsInit, CmdsDeInit, MainStarts, RegisterCall,
         UnregisterCall, EnterLoop, InitStep, DeInitStep, NextModule, Exit, Exited
<1>2. \A k \in DOMAIN moduleList : k \in 1 .. Len(moduleList)
  BY LenProperties DEF TypeOK
<1> QED BY <1>1, <1>2, LenProperties DEF LeaveLoop, Passed, TypeOK

\* AtCmdInit leaves no complete entry of a linked module unregistered.
THEOREM InitRegistersAll == Spec => InitCompletes
<1> DEFINE Complete ==
      pc = "init" /\ pc' = "idle" =>
        \A k \in DOMAIN moduleList :
          \A i \in DOMAIN Cmds[moduleList[k]] :
            LET cmd == Cmds[moduleList[k]][i] IN
              cmd.str # NULL /\ cmd.cb # NULL => cmd.str \in Registered
<1>1. IInv /\ [Next]_vars => [Complete]_vars
  BY AllPassed DEF IInv, InitProgress
<1> QED BY <1>1, Invariance, PTL DEF Spec, InitCompletes

\* AtCmdDeInit leaves no name of a linked module registered.
THEOREM DeInitUnregistersAll == Spec => DeInitCompletes
<1> DEFINE Gone ==
      pc = "deinit" /\ pc' = "idle" =>
        \A k \in DOMAIN moduleList :
          \A i \in DOMAIN Cmds[moduleList[k]] :
            Cmds[moduleList[k]][i].str \notin Registered
<1>1. IInv /\ [Next]_vars => [Gone]_vars
  BY AllPassed DEF IInv, DeInitProgress
<1> QED BY <1>1, Invariance, PTL DEF Spec, DeInitCompletes

-----------------------------------------------------------------------------
(* The list implements the table *)

\* With unique names, the first-match scan finds the entry itself.
LEMMA LookupEntry ==
  ASSUME NEW list \in Seq(Entry), Unique(list), NEW i \in DOMAIN list
  PROVE  Lookup(list, list[i].str) = list[i].cb
<1>1. DOMAIN list = 1 .. Len(list) /\ Len(list) \in Nat
  BY LenProperties
<1>2. IsFirst(list, list[i].str, i)
  BY <1>1 DEF IsFirst, Unique
<1>3. \A j \in DOMAIN list : IsFirst(list, list[i].str, j) => j = i
  BY DEF IsFirst, Unique
<1> QED BY <1>2, <1>3 DEF Lookup, Names

\* The first-match scan of AtCmdExec gives a callback, or nothing.
LEMMA LookupType ==
  ASSUME NEW list \in Seq(Entry), Unique(list), NEW n \in Names(list)
  PROVE  Lookup(list, n) \in Callback
<1>1. PICK i \in DOMAIN list : list[i].str = n
  BY DEF Names
<1>2. list[i] \in Entry
  BY ElementOfSeq, LenProperties
<1>3. Lookup(list, n) = list[i].cb
  BY <1>1, LookupEntry
<1> QED BY <1>2, <1>3 DEF Entry

\* The scan gives nothing for a name that no node carries.
LEMMA LookupUnbound ==
  ASSUME NEW list, NEW n, n \notin Names(list)
  PROVE  Lookup(list, n) = NULL
  BY DEF Lookup

\* Two lists with the same entry for a name look the same for that name.
LEMMA LookupSame ==
  ASSUME NEW l1 \in Seq(Entry), Unique(l1), NEW l2 \in Seq(Entry), Unique(l2),
         NEW n, \A e \in Entry : e.str = n =>
                  ((\E i \in DOMAIN l1 : l1[i] = e) <=> (\E i \in DOMAIN l2 : l2[i] = e))
  PROVE  Lookup(l1, n) = Lookup(l2, n)
<1>0. /\ \A i \in DOMAIN l1 : l1[i] \in Entry
      /\ \A i \in DOMAIN l2 : l2[i] \in Entry
  BY ElementOfSeq, LenProperties
<1>1. CASE n \in Names(l1)
  <2>1. PICK i \in DOMAIN l1 : l1[i].str = n
    BY <1>1 DEF Names
  <2>2. PICK j \in DOMAIN l2 : l2[j] = l1[i]
    BY <1>0, <2>1
  <2> QED BY <2>1, <2>2, LookupEntry
<1>2. CASE n \notin Names(l1)
  <2>1. n \notin Names(l2)
    BY <1>0, <1>2 DEF Names
  <2> QED BY <1>2, <2>1, LookupUnbound
<1> QED BY <1>1, <1>2

\* AtCmdRegister binds a free name, or refuses and changes nothing.
LEMMA RegisterRefines ==
  ASSUME cmdList \in Seq(Entry), Unique(cmdList),
         NEW cmd \in AtCmd, AtCmdRegister(cmd)
  PROVE  Abstract!Next
<1> DEFINE T == [n \in Name |-> Lookup(cmdList, n)]
<1>1. CASE ~Registrable(cmd) /\ ret' = "RET_INVALID_PARAM" /\ UNCHANGED cmdList
  BY <1>1 DEF Abstract!Next, Abstract!Refuse, Abstract!ReturnCode
<1>2. CASE Registrable(cmd) /\ cmdList' = Append(cmdList, cmd) /\ ret' = "RET_OK"
  <2>1. cmd \in Entry /\ cmd.str \in Name /\ cmd.cb \in Callback
    BY <1>2 DEF Registrable, AtCmd, Entry
  <2>2. cmdList' \in Seq(Entry) /\ Unique(cmdList')
    BY RegisterFacts
  <2>3. /\ DOMAIN cmdList = 1 .. Len(cmdList)
        /\ DOMAIN cmdList' = 1 .. Len(cmdList) + 1
        /\ Len(cmdList) \in Nat
        /\ \A i \in DOMAIN cmdList : cmdList'[i] = cmdList[i]
        /\ cmdList'[Len(cmdList) + 1] = cmd
    BY <1>2, <2>1, AppendProperties, LenProperties
  <2>4. T[cmd.str] = NULL
    BY <1>2, <2>1, LookupUnbound DEF Registrable, Registered
  <2>5. Lookup(cmdList', cmd.str) = cmd.cb
    BY <2>2, <2>3, LookupEntry
  <2>6. ASSUME NEW n \in Name, n # cmd.str
        PROVE  Lookup(cmdList', n) = Lookup(cmdList, n)
    <3>1. ASSUME NEW e \in Entry, e.str = n
          PROVE  (\E i \in DOMAIN cmdList : cmdList[i] = e)
                   <=> (\E i \in DOMAIN cmdList' : cmdList'[i] = e)
      <4>1. \A i \in DOMAIN cmdList' : cmdList'[i] = e => i \in DOMAIN cmdList
        BY <2>3, <2>6, <3>1
      <4> QED BY <2>3, <4>1
    <3> QED BY <2>2, <3>1, LookupSame
  <2>7. [n \in Name |-> Lookup(cmdList', n)] = [T EXCEPT ![cmd.str] = cmd.cb]
    BY <2>1, <2>5, <2>6
  <2>8. Abstract!Bind(cmd.str, cmd.cb)
    BY <1>2, <2>4, <2>7 DEF Abstract!Bind
  <2> QED BY <2>1, <2>8 DEF Abstract!Next
<1> QED BY <1>1, <1>2 DEF AtCmdRegister

\* AtCmdUnregister unbinds a bound name, or refuses and changes nothing.
LEMMA UnregisterRefines ==
  ASSUME cmdList \in Seq(Entry), Unique(cmdList),
         NEW cmd \in AtCmd, AtCmdUnregister(cmd)
  PROVE  Abstract!Next
<1> DEFINE T == [n \in Name |-> Lookup(cmdList, n)]
<1>1. CASE ret' \in {"RET_INVALID_PARAM", "RET_ERROR"} /\ UNCHANGED cmdList
  BY <1>1 DEF Abstract!Next, Abstract!Refuse, Abstract!ReturnCode
<1>2. CASE ret' = "RET_OK" /\ \E i \in DOMAIN cmdList :
             IsFirst(cmdList, cmd.str, i) /\ cmdList' = RemoveAt(cmdList, i)
  <2>1. PICK i \in DOMAIN cmdList :
          cmdList[i].str = cmd.str /\ cmdList' = RemoveAt(cmdList, i)
    BY <1>2 DEF IsFirst
  <2>2. cmdList' \in Seq(Entry) /\ Unique(cmdList') /\ cmd.str \notin Registered'
    BY UnregisterFacts
  <2>3. i \in 1 .. Len(cmdList) /\ DOMAIN cmdList = 1 .. Len(cmdList)
          /\ Len(cmdList) \in Nat /\ cmdList[i] \in Entry
    BY LenProperties, ElementOfSeq
  <2>4. /\ DOMAIN cmdList' = 1 .. Len(cmdList) - 1
        /\ \A j \in 1 .. Len(cmdList) - 1 :
             cmdList'[j] = IF j < i THEN cmdList[j] ELSE cmdList[j + 1]
    <3>1. Len(cmdList') = Len(cmdList) - 1
      BY <2>1, <2>3, RemoveAtFacts
    <3>2. DOMAIN cmdList' = 1 .. Len(cmdList')
      BY <2>2, LenProperties
    <3> QED BY <2>1, <2>3, <3>1, <3>2, RemoveAtFacts
  <2>5. cmd.str \in Name /\ cmd.str \in Names(cmdList)
    BY <2>1, <2>3 DEF Entry, Names
  <2>6. T[cmd.str] # NULL
    BY <2>5, LookupType, NullAssumption
  <2>7. Lookup(cmdList', cmd.str) = NULL
    BY <2>2, LookupUnbound DEF Registered
  <2>8. ASSUME NEW n \in Name, n # cmd.str
        PROVE  Lookup(cmdList', n) = Lookup(cmdList, n)
    <3>1. ASSUME NEW e \in Entry, e.str = n
          PROVE  (\E j \in DOMAIN cmdList : cmdList[j] = e)
                   <=> (\E j \in DOMAIN cmdList' : cmdList'[j] = e)
      <4>1. ASSUME NEW j \in DOMAIN cmdList, cmdList[j] = e
            PROVE  \E k \in DOMAIN cmdList' : cmdList'[k] = e
        <5>1. j # i
          BY <2>1, <2>8, <3>1, <4>1
        <5>2. CASE j < i
          BY <2>3, <2>4, <4>1, <5>2
        <5>3. CASE j > i
          <6>1. j - 1 \in DOMAIN cmdList' /\ cmdList'[j - 1] = e
            BY <2>3, <2>4, <4>1, <5>3
          <6> QED BY <6>1
        <5> QED BY <2>3, <5>1, <5>2, <5>3
      <4>2. ASSUME NEW j \in DOMAIN cmdList', cmdList'[j] = e
            PROVE  \E k \in DOMAIN cmdList : cmdList[k] = e
        BY <2>3, <2>4, <4>2
      <4> QED BY <4>1, <4>2
    <3> QED BY <2>2, <3>1, LookupSame
  <2>9. [n \in Name |-> Lookup(cmdList', n)] = [T EXCEPT ![cmd.str] = NULL]
    BY <2>5, <2>7, <2>8
  <2>10. Abstract!Unbind(cmd.str)
    BY <1>2, <2>5, <2>6, <2>9 DEF Abstract!Unbind
  <2> QED BY <2>5, <2>10 DEF Abstract!Next
<1> QED BY <1>1, <1>2 DEF AtCmdUnregister

\* Seen through the first-match scan, g_cmdList is a table of commands.
THEOREM Refinement == Spec => ImplementsCmdTable
<1>1. Init => Abstract!Init
  <2> SUFFICES ASSUME Init PROVE Abstract!Init
    OBVIOUS
  <2>1. \A n \in Name : Lookup(cmdList, n) = NULL
    BY DEF Init, Lookup, Names
  <2> QED BY <2>1 DEF Init, Abstract!Init
<1>2. IInv /\ [Next]_vars => [Abstract!Next]_Abstract!vars
  <2> SUFFICES ASSUME IInv, [Next]_vars
               PROVE  [Abstract!Next]_Abstract!vars
    OBVIOUS
  <2>0. cmdList \in Seq(Entry) /\ Unique(cmdList)
    BY DEF IInv, TypeOK, UniqueNames, Entry, Unique
  <2>1. CASE RegisterCall
    BY <2>0, <2>1, ApiAssumption, RegisterRefines DEF RegisterCall
  <2>2. CASE UnregisterCall
    BY <2>0, <2>2, ApiAssumption, UnregisterRefines DEF UnregisterCall
  <2>3. CASE InitStep
    BY <2>0, <2>3, InTableFacts, RegisterRefines DEF InitStep, IInv
  <2>4. CASE DeInitStep
    BY <2>0, <2>4, InTableFacts, UnregisterRefines DEF DeInitStep, IInv
  <2>5. CASE UNCHANGED <<cmdList, ret>>
    BY <2>5 DEF Abstract!vars
  <2> QED
    BY <2>1, <2>2, <2>3, <2>4, <2>5
       DEF Next, Loop, vars, CmdsInit, CmdsDeInit, MainStarts, EnterLoop,
           NextModule, LeaveLoop, Exit, Exited
<1> QED BY <1>1, <1>2, Invariance, PTL DEF Spec, ImplementsCmdTable, Abstract!Spec

=============================================================================
