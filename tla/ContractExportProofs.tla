------------------------- MODULE ContractExportProofs -----------------------
(***************************************************************************)
(* Theorems about ContractExport, for every number of calls, contracts and*)
(* files and every generator.                                              *)
(***************************************************************************)
EXTENDS ContractExport, TLAPS

-----------------------------------------------------------------------------
(* No two documents share a file. *)

SharedInv == contracts \in Seq(Contract) /\ FilesAreNotShared

LEMMA ExportedTyped ==
    ASSUME contracts \in Seq(Contract)
    PROVE  /\ Exported \in Seq(Contract)
           /\ Len(Exported) = Len(Own) + Len(contracts)
BY ContractAssumption DEF Exported

LEMMA ContractsKept ==
    ASSUME [ExportNext]_vars
    PROVE  \/ UNCHANGED contracts
           \/ contracts' = <<>>
           \/ \E contract \in Contracts : Declare(contract)
BY DEF ExportNext, vars, CaptureRouter, RegisterRoute, Describe, Die, Run, ReadTable,
       ReadContracts, Generate, Open, Write, WriteFails, Compare, ReadFails, Continue,
       WriteBy, application

LEMMA SharedStep ==
    ASSUME SharedInv, [ExportNext]_vars
    PROVE  SharedInv'
<1>1. CASE UNCHANGED contracts
  BY <1>1 DEF SharedInv, FilesAreNotShared, Exported
<1>2. CASE contracts' = <<>>
  <2>1. Exported' = Own \o <<>> /\ Len(Own) <= 1 /\ Own \in Seq(Contract)
    BY <1>2, ContractAssumption DEF Exported
  <2>2. Exported' = Own
    BY <2>1
  <2> QED BY <1>2, <2>1, <2>2 DEF SharedInv, FilesAreNotShared
<1>3. ASSUME NEW contract \in Contracts, Declare(contract)
      PROVE  SharedInv'
  <2>1. contract \in Contract /\ contracts \in Seq(Contract) /\ Own \in Seq(Contract)
    BY ContractAssumption DEF SharedInv
  <2>2. contracts' = Append(contracts, contract)
    BY <1>3 DEF Declare
  <2>3. Exported' = Append(Exported, contract)
    BY <2>1, <2>2 DEF Exported
  <2>4. Exported \in Seq(Contract)
    BY <2>1, ExportedTyped
  <2>5. \A i \in DOMAIN Exported : Exported[i].path # contract.path
    BY <1>3 DEF Declare, Conflicts
  <2> HIDE DEF Exported
  <2>6. FilesAreNotShared'
    <3> SUFFICES ASSUME NEW i \in DOMAIN Append(Exported, contract),
                        NEW j \in DOMAIN Append(Exported, contract),
                        Append(Exported, contract)[i].path = Append(Exported, contract)[j].path
                 PROVE  i = j
      BY <2>3 DEF FilesAreNotShared
    <3> QED BY <2>4, <2>5 DEF SharedInv, FilesAreNotShared
  <2> QED BY <2>1, <2>2, <2>6 DEF SharedInv
<1> QED BY <1>1, <1>2, <1>3, ContractsKept

(***************************************************************************)
(* No two exported documents are written to one file, the module's own    *)
(* document included.                                                      *)
(***************************************************************************)
THEOREM FilesNotShared == ExportSpec => []FilesAreNotShared
<1>1. ExportInit => SharedInv
  <2> SUFFICES ASSUME ExportInit PROVE SharedInv
    OBVIOUS
  <2>1. contracts = <<>> /\ Own \in Seq(Contract) /\ Len(Own) <= 1
    BY ContractAssumption DEF ExportInit
  <2>2. Exported = Own
    BY <2>1 DEF Exported
  <2> QED BY <2>1, <2>2 DEF SharedInv, FilesAreNotShared
<1>2. SharedInv /\ [ExportNext]_vars => SharedInv'
  BY SharedStep
<1>3. SharedInv => FilesAreNotShared
  BY DEF SharedInv
<1> QED BY <1>1, <1>2, <1>3, PTL DEF ExportSpec

-----------------------------------------------------------------------------
(* The locals of a call. *)

\* What a step may be to a call: one that does not concern it, a change of the
\* application, somebody else's write, the death of the process, or its own.
Spared(c)      == call'[c] = call[c] /\ UNCHANGED <<application, files>>
Disturbed(c)   == call'[c] = [call[c] EXCEPT !.undisturbed = FALSE] /\ UNCHANGED files
Overwritten(c) == /\ call'[c] = [call[c] EXCEPT !.alone = FALSE, !.undisturbed = FALSE]
                  /\ UNCHANGED application
Killed(c)      == /\ \/ call[c].at = "idle" /\ call'[c] = call[c]
                     \/ call'[c] = [Idle EXCEPT !.at = "done"]
                  /\ UNCHANGED files

Acts(c) ==
    \/ \E check \in BOOLEAN : Run(c, check)
    \/ ReadTable(c) \/ ReadContracts(c) \/ Generate(c)
    \/ Open(c) \/ Write(c) \/ WriteFails(c)
    \/ Compare(c) \/ ReadFails(c)

LEMMA StepKinds ==
    ASSUME call \in [Calls -> Call], [ExportNext]_vars, NEW c \in Calls
    PROVE  Spared(c) \/ Disturbed(c) \/ Overwritten(c) \/ Killed(c) \/ Acts(c)
<1>1. CASE UNCHANGED vars
  BY <1>1 DEF vars, Spared, application
<1>2. CASE \/ \E contract \in Contracts : Declare(contract)
           \/ CaptureRouter \/ RegisterRoute \/ \E r \in Registries : Describe(r)
  BY <1>2 DEF Declare, CaptureRouter, RegisterRoute, Describe, Disturb, Disturbed
<1>3. CASE Die
  BY <1>3 DEF Die, Killed
<1>4. ASSUME NEW d \in Calls, Acts(d), d # c
      PROVE  Spared(c) \/ Overwritten(c)
  <2>1. ASSUME NEW after, Continue(d, after)
        PROVE  Spared(c)
    BY <1>4, <2>1 DEF Continue, Spared
  <2>2. ASSUME NEW data, NEW after, WriteBy(d, data, after)
        PROVE  Overwritten(c)
    BY <1>4, <2>2 DEF WriteBy, Overwritten
  <2> QED BY <1>4, <2>1, <2>2 DEF Acts, Run, ReadTable, ReadContracts, Generate, Open, Write,
                                  WriteFails, Compare, ReadFails
<1> QED BY <1>1, <1>2, <1>3, <1>4 DEF ExportNext, Acts

Unstarted == {"idle", "router", "contracts"}
Working   == {"open", "write", "compare"}
Finished  == {"ok", "stale"}

Local(k) ==
    /\ k \in Call
    /\ k.at \in Unstarted => k.documents = <<>> /\ k.contracts = <<>>
    /\ k.at \in Unstarted \cup {"generate"} => k.next = 1 /\ k.stale = {}
    /\ k.at = "contracts" \/ k.contracts # <<>> => k.table \in Versions
    /\ k.result # "none" => k.at = "done"
    /\ k.at = "idle" => ~k.alone /\ ~k.undisturbed

\* The contracts are those exported at one moment.
Declared(k) ==
    /\ \A i, j \in DOMAIN k.contracts : k.contracts[i].path = k.contracts[j].path => i = j
    /\ \A i \in DOMAIN k.contracts : k.contracts[i].registry \in Registries

\* The documents are those of the first contracts, of all before the files' turn comes.
Generated(k) ==
    /\ Len(k.documents) <= Len(k.contracts)
    /\ \A i \in DOMAIN k.documents : \E v \in Versions :
          k.documents[i] = Bytes(k.table, v, k.contracts[i])
    /\ k.at = "generate" => Len(k.documents) < Len(k.contracts)
    /\ k.at \in Working \/ k.result \in Finished => Len(k.documents) = Len(k.contracts)
    /\ k.at \in Working => k.next \in DOMAIN k.documents /\ (k.check <=> k.at = "compare")

LocalInv ==
    /\ SharedInv
    /\ \A i \in DOMAIN Exported : Exported[i].registry \in Registries
    /\ table \in Versions \cup {NotCaptured}
    /\ content \in [Registries -> Versions]
    /\ files \in [Paths -> File]
    /\ deaths \in 0 .. MaxDeaths
    /\ call \in [Calls -> Call]
    /\ \A c \in Calls : Local(call[c]) /\ Declared(call[c]) /\ Generated(call[c])

LEMMA ApplicationStep ==
    ASSUME LocalInv, [ExportNext]_vars
    PROVE  /\ SharedInv'
           /\ (\A i \in DOMAIN Exported : Exported[i].registry \in Registries)'
           /\ (table \in Versions \cup {NotCaptured})'
           /\ (content \in [Registries -> Versions])'
           /\ (deaths \in 0 .. MaxDeaths)'
<1>1. SharedInv'
  BY SharedStep DEF LocalInv
<1>2. (\A i \in DOMAIN Exported : Exported[i].registry \in Registries)'
  <2>1. CASE UNCHANGED contracts
    BY <2>1 DEF LocalInv, Exported
  <2>2. CASE contracts' = <<>>
    <3>1. Own \in Seq(Contract)
      BY ContractAssumption
    <3>2. Exported' = Own
      BY <2>2, <3>1 DEF Exported
    <3>3. ASSUME NEW i \in DOMAIN Own PROVE Own[i].registry \in Registries
      <4>1. Own[i] \in Contract
        BY <3>1
      <4>2. Own[i].registry \in Registries \cup {NoRegistry}
        BY <4>1 DEF Contract
      <4>3. Own[i].registry # NoRegistry
        BY ContractAssumption
      <4> QED BY <4>2, <4>3
    <3> HIDE DEF Exported
    <3> QED BY <3>2, <3>3
  <2>3. ASSUME NEW contract \in Contracts, Declare(contract)
        PROVE  (\A i \in DOMAIN Exported : Exported[i].registry \in Registries)'
    <3>1. contract \in Contract /\ contract.registry \in Registries
      BY <2>3, ContractAssumption DEF Declare, Contract
    <3>2. contracts \in Seq(Contract) /\ Own \in Seq(Contract)
      BY ContractAssumption DEF LocalInv, SharedInv
    <3>3. Exported' = Append(Exported, contract) /\ Exported \in Seq(Contract)
      BY <2>3, <3>1, <3>2, ExportedTyped DEF Declare, Exported
    <3> HIDE DEF Exported
    <3> QED BY <3>1, <3>3 DEF LocalInv
  <2> QED BY <2>1, <2>2, <2>3, ContractsKept
<1>3. (table \in Versions \cup {NotCaptured})' /\ (content \in [Registries -> Versions])'
        /\ (deaths \in 0 .. MaxDeaths)'
  <2> USE ContractAssumption DEF LocalInv, Versions
  <2>1. CASE UNCHANGED <<table, content, deaths>>
    BY <2>1
  <2>2. CASE CaptureRouter \/ RegisterRoute \/ (\E r \in Registries : Describe(r)) \/ Die
    BY <2>2 DEF CaptureRouter, RegisterRoute, Describe, Die
  <2>3. ASSUME NEW contract \in Contracts, Declare(contract)
        PROVE  UNCHANGED <<table, content, deaths>>
    BY <2>3 DEF Declare
  <2>4. ASSUME NEW c \in Calls, Acts(c)
        PROVE  UNCHANGED <<table, content, deaths>>
    BY <2>4 DEF Acts, Run, ReadTable, ReadContracts, Generate, Open, Write, WriteFails, Compare,
                ReadFails, Continue, WriteBy, application
  <2> QED BY <2>1, <2>2, <2>3, <2>4 DEF ExportNext, Acts, vars
<1> QED BY <1>1, <1>2, <1>3

Whole(k) == Local(k) /\ Declared(k) /\ Generated(k)

LEMMA LocalType ==
    ASSUME NEW k, Whole(k)
    PROVE  /\ k \in Call /\ k.contracts \in Seq(Contract) /\ k.documents \in Seq(Data)
           /\ k.next \in Nat /\ k.stale \in SUBSET Paths /\ k.check \in BOOLEAN
           /\ DOMAIN k.contracts = 1 .. Len(k.contracts)
           /\ DOMAIN k.documents = 1 .. Len(k.documents)
           /\ Len(k.contracts) \in Nat /\ Len(k.documents) \in Nat
BY DEF Whole, Local, Call

\* Append, position by position.
LEMMA AppendShown ==
    ASSUME NEW S, NEW s \in Seq(S), NEW e \in S
    PROVE  /\ Append(s, e) \in Seq(S)
           /\ Len(s) \in Nat /\ Len(Append(s, e)) = Len(s) + 1
           /\ DOMAIN s = 1 .. Len(s) /\ DOMAIN Append(s, e) = 1 .. Len(s) + 1
           /\ Append(s, e)[Len(s) + 1] = e
           /\ \A i \in DOMAIN Append(s, e) :
                 i # Len(s) + 1 => i \in DOMAIN s /\ Append(s, e)[i] = s[i]
<1>1. /\ Append(s, e) \in Seq(S) /\ Len(s) \in Nat /\ Len(Append(s, e)) = Len(s) + 1
      /\ DOMAIN s = 1 .. Len(s) /\ DOMAIN Append(s, e) = 1 .. Len(s) + 1
  OBVIOUS
<1>2. Append(s, e)[Len(s) + 1] = e
  OBVIOUS
<1>3. \A i \in 1 .. Len(s) : Append(s, e)[i] = s[i]
  OBVIOUS
<1>4. \A i \in DOMAIN Append(s, e) : i # Len(s) + 1 => i \in 1 .. Len(s)
  BY <1>1
<1> QED BY <1>1, <1>2, <1>3, <1>4

LEMMA TargetTyped ==
    ASSUME NEW c \in Calls, Whole(call[c]), call[c].at \in Working
    PROVE  Target(c) \in Paths
<1>1. call[c].next \in DOMAIN call[c].contracts /\ call[c].contracts \in Seq(Contract)
  BY LocalType DEF Whole, Generated
<1>2. call[c].contracts[call[c].next] \in Contract
  BY <1>1
<1> QED BY <1>2 DEF Target, Contract

LEMMA DocumentTyped ==
    ASSUME LocalInv, NEW c \in Calls, call[c].at = "generate"
    PROVE  LET k == call[c]
               i == Len(k.documents) + 1
           IN  /\ i \in DOMAIN k.contracts
               /\ NextDocument(k) # Failed =>
                     /\ NextDocument(k) = Bytes(k.table, content[k.contracts[i].registry],
                                                k.contracts[i])
                     /\ content[k.contracts[i].registry] \in Versions
                     /\ NextDocument(k) \in Data
<1> DEFINE k == call[c]
           i == Len(k.documents) + 1
<1>1. Whole(k) /\ content \in [Registries -> Versions]
  BY DEF LocalInv, Whole
<1>2. k.contracts \in Seq(Contract) /\ i \in DOMAIN k.contracts
  BY <1>1, LocalType DEF Whole, Generated
<1>3. k.contracts[i] \in Contract /\ k.contracts[i].registry \in Registries
  BY <1>1, <1>2 DEF Whole, Declared
<1>4. k.contracts # <<>>
  BY <1>2
<1>5. k.table \in Versions
  BY <1>1, <1>4 DEF Whole, Local
<1>6. content[k.contracts[i].registry] \in Versions
  BY <1>1, <1>3
<1>7. Bytes(k.table, content[k.contracts[i].registry], k.contracts[i]) \in Data \cup {Failed}
  BY <1>3, <1>5, <1>6, ContractAssumption
<1> QED BY <1>2, <1>6, <1>7 DEF NextDocument, TableOf

LEMMA EndWhole ==
    ASSUME NEW k, Whole(k), NEW result \in {"ok", "stale", "error"},
           result = "error" \/ Len(k.documents) = Len(k.contracts),
           k.at # "idle"
    PROVE  Whole(End(k, result))
<1> DEFINE e == End(k, result)
<1>1. Local(k) /\ Declared(k) /\ Generated(k) /\ k \in Call
  BY DEF Whole, Local
<1>2. e \in Call
  BY <1>1 DEF End, Call
<1>3. /\ e.at = "done" /\ e.result = result /\ e.contracts = k.contracts
      /\ e.documents = k.documents /\ e.table = k.table /\ e.next = k.next
      /\ e.stale = k.stale /\ e.check = k.check
  BY <1>1 DEF End, Call
<1> HIDE DEF e
<1>4. Local(e)
  BY <1>1, <1>2, <1>3 DEF Local, Unstarted
<1>5. Declared(e)
  BY <1>1, <1>3 DEF Declared
<1>6. Generated(e)
  BY <1>1, <1>3 DEF Generated, Working, Finished
<1> QED BY <1>4, <1>5, <1>6 DEF Whole, e

LEMMA AdvanceWhole ==
    ASSUME NEW k, Whole(k), NEW at \in {"open", "compare"},
           k.at \in Working, k.check <=> at = "compare"
    PROVE  Whole(Advance(k, at))
<1>1. CASE AtLast(k)
  <2>1. Len(k.documents) = Len(k.contracts)
    BY DEF Whole, Generated
  <2> QED BY <1>1, <2>1, EndWhole DEF Advance, Working
<1>2. CASE ~AtLast(k)
  <2>1. k.next \in Nat /\ k.next \in 1 .. Len(k.documents) /\ Len(k.documents) \in Nat
    BY LocalType DEF Whole, Generated
  <2>2. k.next + 1 \in DOMAIN k.documents
    BY <1>2, <2>1, LocalType DEF AtLast
  <2> DEFINE a == Advance(k, at)
  <2>3. k \in Call /\ k.next + 1 \in Nat
    BY <2>1 DEF Whole, Local
  <2>4. /\ a \in Call /\ a.documents = k.documents /\ a.contracts = k.contracts
        /\ a.table = k.table /\ a.check = k.check /\ a.next = k.next + 1 /\ a.at = at
        /\ a.result = k.result
    BY <1>2, <2>3 DEF Advance, Call
  <2>5. k.result = "none"
    BY <2>3 DEF Whole, Local, Call, Working
  <2> HIDE DEF a
  <2>6. Local(a)
    BY <2>4, <2>5 DEF Whole, Local, Unstarted
  <2>7. Declared(a)
    BY <2>4 DEF Whole, Declared
  <2>8. Generated(a)
    BY <2>2, <2>4, <2>5 DEF Whole, Generated, Working, Finished
  <2> QED BY <2>6, <2>7, <2>8 DEF Whole, a
<1> QED BY <1>1, <1>2

LEMMA GenerateWhole ==
    ASSUME LocalInv, NEW c \in Calls, call[c].at = "generate", NextDocument(call[c]) # Failed
    PROVE  Whole(AfterGenerating(WithDocument(call[c], NextDocument(call[c]))))
<1> DEFINE k == call[c]
           data == NextDocument(k)
           n == Len(k.documents)
           m == WithDocument(k, data)
           a == AfterGenerating(m)
<1>1. Whole(k)
  BY DEF LocalInv, Whole
<1>2. /\ data \in Data /\ n + 1 \in DOMAIN k.contracts
      /\ \E v \in Versions : data = Bytes(k.table, v, k.contracts[n + 1])
  BY DocumentTyped
<1>3. m \in Call /\ m = [k EXCEPT !.documents = Append(k.documents, data)]
  <2>1. Append(k.documents, data) \in Seq(Data) /\ k \in Call
    BY <1>1, <1>2, LocalType
  <2>2. m = [k EXCEPT !.documents = Append(k.documents, data)]
    BY <2>1 DEF WithDocument, Call
  <2> HIDE DEF m, k, data
  <2> QED BY <2>1, <2>2 DEF Call
<1>4. /\ m.documents = Append(k.documents, data) /\ m.contracts = k.contracts
      /\ m.table = k.table /\ m.check = k.check /\ m.next = 1 /\ m.stale = {}
      /\ m.result = "none" /\ m.at = "generate"
  BY <1>1, <1>3 DEF Whole, Local, Call, Unstarted
<1>d. /\ Len(m.documents) = n + 1 /\ DOMAIN m.documents = 1 .. n + 1
      /\ m.documents[n + 1] = data
      /\ \A i \in DOMAIN m.documents :
            i # n + 1 => i \in DOMAIN k.documents /\ m.documents[i] = k.documents[i]
  <2>1. k.documents \in Seq(Data) /\ data \in Data
    BY <1>1, <1>2, LocalType
  <2> HIDE DEF k, data, m
  <2> QED BY <1>4, <2>1, AppendShown
<1>5. Len(m.documents) = n + 1 /\ DOMAIN m.documents = 1 .. n + 1
  BY <1>d
<1>6. \A i \in DOMAIN m.documents : \E v \in Versions :
          m.documents[i] = Bytes(k.table, v, k.contracts[i])
  <2> TAKE i \in DOMAIN m.documents
  <2>1. CASE i = n + 1
    <3> HIDE DEF k, data, m, n
    <3> QED BY <1>2, <1>d, <2>1
  <2>2. CASE i # n + 1
    <3>1. i \in DOMAIN k.documents /\ m.documents[i] = k.documents[i]
      BY <1>d, <2>2
    <3> QED BY <1>1, <3>1 DEF Whole, Generated
  <2> QED BY <2>1, <2>2
<1>7. n + 1 <= Len(k.contracts)
  BY <1>1, <1>2, LocalType
<1>8. /\ a \in Call /\ a.documents = m.documents /\ a.contracts = k.contracts
      /\ a.table = k.table /\ a.check = k.check /\ a.next = 1 /\ a.stale = {}
      /\ a.result = "none"
      /\ a.at = IF n + 1 # Len(k.contracts) THEN "generate"
                ELSE IF k.check THEN "compare" ELSE "open"
  BY <1>3, <1>4, <1>5 DEF AfterGenerating, AllGenerated, Call
<1>9. Local(a)
  BY <1>1, <1>2, <1>8 DEF Local, Whole, Unstarted
<1>10. Declared(a)
  BY <1>1, <1>8 DEF Whole, Declared
<1>11. Generated(a)
  <2>1. Len(a.documents) = n + 1 /\ Len(a.contracts) = Len(k.contracts)
        /\ n \in Nat /\ Len(k.contracts) \in Nat
    BY <1>1, <1>5, <1>8, LocalType
  <2>2. \A i \in DOMAIN a.documents : \E v \in Versions :
            a.documents[i] = Bytes(a.table, v, a.contracts[i])
    BY <1>6, <1>8
  <2>3. a.next \in DOMAIN a.documents /\ (a.at \in Working => (a.check <=> a.at = "compare"))
    <3>1. 1 \in DOMAIN a.documents
      BY <1>5, <1>8, <2>1
    <3> QED BY <1>1, <1>8, <3>1, LocalType DEF Working
  <2>4. /\ Len(a.documents) <= Len(a.contracts)
        /\ a.at = "generate" => Len(a.documents) < Len(a.contracts)
        /\ a.at \in Working \/ a.result \in Finished => Len(a.documents) = Len(a.contracts)
    <3> HIDE DEF a, n, k
    <3> QED BY <1>7, <1>8, <2>1 DEF Working, Finished
  <2> HIDE DEF a
  <2> QED BY <2>2, <2>3, <2>4 DEF Generated
<1> HIDE DEF a
<1> QED BY <1>9, <1>10, <1>11 DEF Whole, a

LEMMA ActsOnOne ==
    ASSUME call \in [Calls -> Call], NEW c \in Calls, NEW after
    PROVE  /\ Continue(c, after) => call'[c] = after /\ UNCHANGED files
           /\ \A data : WriteBy(c, data, after) =>
                 call'[c] = after /\ files' = [files EXCEPT ![Target(c)] = data]
BY DEF Continue, WriteBy

LEMMA OwnStep ==
    ASSUME LocalInv, NEW c \in Calls, Acts(c)
    PROVE  Whole(call'[c]) /\ files' \in [Paths -> File]
<1> DEFINE k == call[c]
<1>1. Whole(k) /\ call \in [Calls -> Call] /\ files \in [Paths -> File]
  BY DEF LocalInv, Whole
<1>2. ASSUME NEW check \in BOOLEAN, Run(c, check)
      PROVE  Whole(call'[c]) /\ UNCHANGED files
  <2> DEFINE a == [Idle EXCEPT !.at = "router", !.check = check, !.alone = TRUE,
                               !.undisturbed = TRUE]
  <2>1. call'[c] = a /\ UNCHANGED files
    BY <1>1, <1>2, ActsOnOne DEF Run
  <2>2. a \in Call
    <3>1. <<>> \in Seq(Contract) /\ <<>> \in Seq(Data) /\ {} \in SUBSET Paths
          /\ NotCaptured \in Versions \cup {NotCaptured} /\ 1 \in Nat
      OBVIOUS
    <3>2. files \in [Paths -> File]
      BY <1>1
    <3> QED BY <3>1, <3>2 DEF Idle, Call
  <2>3. Whole(a)
    BY <2>2 DEF Idle, Whole, Local, Declared, Generated, Unstarted, Working, Finished
  <2> QED BY <2>1, <2>3
<1>3. CASE ReadTable(c)
  <2> DEFINE b == [k EXCEPT !.at = "contracts", !.table = table]
  <2>1. k.at = "router" /\ UNCHANGED files
    BY <1>1, <1>3, ActsOnOne DEF ReadTable
  <2>2. k.documents = <<>> /\ k.contracts = <<>>
    BY <1>1, <2>1 DEF Whole, Local, Unstarted
  <2>3. CASE table = NotCaptured
    <3>1. call'[c] = End(k, "error")
      BY <1>1, <1>3, <2>3, ActsOnOne DEF ReadTable
    <3> QED BY <1>1, <2>1, <3>1, EndWhole
  <2>4. CASE table # NotCaptured
    <3>1. call'[c] = b /\ table \in Versions
      BY <1>1, <1>3, <2>4, ActsOnOne DEF ReadTable, LocalInv
    <3>2. b \in Call
      BY <1>1, <3>1 DEF Whole, Local, Call
    <3>3. Whole(b)
      BY <1>1, <2>1, <2>2, <3>1, <3>2
         DEF Whole, Local, Declared, Generated, Call, Unstarted, Working, Finished
    <3> QED BY <1>1, <2>1, <3>1, <3>3
  <2> QED BY <2>3, <2>4
<1>4. CASE ReadContracts(c)
  <2> DEFINE b == [k EXCEPT !.at = "generate", !.contracts = Exported]
  <2>1. k.at = "contracts" /\ UNCHANGED files
    BY <1>1, <1>4, ActsOnOne DEF ReadContracts
  <2>2. k.documents = <<>> /\ k.table \in Versions
    BY <1>1, <2>1 DEF Whole, Local, Unstarted
  <2>3. CASE Exported = <<>>
    <3>1. call'[c] = End(k, "error")
      BY <1>1, <1>4, <2>3, ActsOnOne DEF ReadContracts
    <3> QED BY <1>1, <2>1, <3>1, EndWhole
  <2>4. CASE Exported # <<>>
    <3>1. call'[c] = b
      BY <1>1, <1>4, <2>4, ActsOnOne DEF ReadContracts
    <3>2. Exported \in Seq(Contract) /\ FilesAreNotShared
          /\ \A i \in DOMAIN Exported : Exported[i].registry \in Registries
      BY ExportedTyped DEF LocalInv, SharedInv
    <3> HIDE DEF Exported
    <3>3. Len(Exported) \in Nat /\ Len(Exported) > 0
      BY <2>4, <3>2
    <3>4. /\ b \in Call /\ b.contracts = Exported /\ b.documents = <<>> /\ b.at = "generate"
          /\ b.table \in Versions /\ b.next = 1 /\ b.stale = {} /\ b.result = "none"
      BY <1>1, <2>1, <2>2, <3>2 DEF Whole, Local, Call, Unstarted
    <3> HIDE DEF b
    <3>5. Local(b)
      BY <3>4 DEF Local, Unstarted
    <3>6. Declared(b)
      BY <3>2, <3>4 DEF Declared, FilesAreNotShared
    <3>7. Generated(b)
      BY <3>3, <3>4 DEF Generated, Working, Finished
    <3> QED BY <1>1, <2>1, <3>1, <3>5, <3>6, <3>7 DEF Whole
  <2> QED BY <2>3, <2>4
<1>5. CASE Generate(c)
  <2>1. k.at = "generate" /\ UNCHANGED files
    BY <1>1, <1>5, ActsOnOne DEF Generate
  <2>2. CASE NextDocument(k) = Failed
    <3>1. call'[c] = End(k, "error")
      BY <1>1, <1>5, <2>2, ActsOnOne DEF Generate
    <3> QED BY <1>1, <2>1, <3>1, EndWhole
  <2>3. CASE NextDocument(k) # Failed
    <3>1. call'[c] = AfterGenerating(WithDocument(k, NextDocument(k)))
      BY <1>1, <1>5, <2>3, ActsOnOne DEF Generate
    <3> QED BY <1>1, <2>1, <2>3, <3>1, GenerateWhole
  <2> QED BY <2>2, <2>3
<1>6. CASE Open(c)
  <2> DEFINE a == [k EXCEPT !.at = "write"]
  <2>1. k.at = "open" /\ call'[c] = a /\ files' = [files EXCEPT ![Target(c)] = Torn]
    BY <1>1, <1>6, ActsOnOne DEF Open
  <2>2. Target(c) \in Paths
    BY <1>1, <2>1, TargetTyped DEF Working
  <2>3. a \in Call
    BY <1>1 DEF Whole, Local, Call
  <2>4. Whole(a)
    <3>1. /\ a.at = "write" /\ a.check = k.check /\ a.contracts = k.contracts
          /\ a.documents = k.documents /\ a.table = k.table /\ a.next = k.next
          /\ a.result = k.result /\ k.result = "none"
      BY <1>1, <2>1 DEF Whole, Local, Call
    <3> HIDE DEF a
    <3>2. Local(a)
      BY <1>1, <2>3, <3>1 DEF Whole, Local, Unstarted
    <3>3. Declared(a)
      BY <1>1, <3>1 DEF Whole, Declared
    <3>4. Generated(a)
      BY <1>1, <2>1, <3>1 DEF Whole, Generated, Working, Finished
    <3> QED BY <3>2, <3>3, <3>4 DEF Whole
  <2> QED BY <1>1, <2>1, <2>2, <2>4 DEF File
<1>7. CASE Write(c)
  <2>1. PICK data \in {k.documents[k.next]} \cup {f \in {Torn} : files[Target(c)] # Torn} :
            WriteBy(c, data, Advance(k, "open"))
    BY <1>7 DEF Write
  <2>2. k.at = "write"
    BY <1>7 DEF Write
  <2>3. call'[c] = Advance(k, "open") /\ files' = [files EXCEPT ![Target(c)] = data]
    BY <1>1, <2>1, ActsOnOne
  <2>4. Whole(Advance(k, "open")) /\ Target(c) \in Paths
    BY <1>1, <2>2, AdvanceWhole, TargetTyped DEF Working, Whole, Generated
  <2>5. data \in File
    <3>1. k.documents[k.next] \in Data
      BY <1>1, <2>2, LocalType DEF Whole, Generated, Working
    <3> QED BY <2>1, <3>1 DEF File
  <2> QED BY <1>1, <2>3, <2>4, <2>5
<1>8. CASE WriteFails(c)
  <2>1. k.at \in {"open", "write"} /\ UNCHANGED files /\ call'[c] = End(k, "error")
    BY <1>1, <1>8, ActsOnOne DEF WriteFails, WriteError
  <2> QED BY <1>1, <2>1, EndWhole
<1>9. CASE Compare(c)
  <2> DEFINE stale == {p \in {Target(c)} : Differs(files[p], k.documents[k.next])}
             b     == [k EXCEPT !.stale = @ \cup stale]
  <2>1. k.at = "compare" /\ UNCHANGED files /\ call'[c] = Advance(b, "compare")
    BY <1>1, <1>9, ActsOnOne DEF Compare
  <2>2. stale \in SUBSET Paths
    BY <1>1, <2>1, TargetTyped DEF Working
  <2> HIDE DEF stale
  <2>3. b \in Call /\ k \in Call
    BY <1>1, <2>2 DEF Whole, Local, Call
  <2>4. Whole(b) /\ b.at = "compare" /\ b.check
    <3>1. /\ b.at = "compare" /\ b.check = k.check /\ b.contracts = k.contracts
          /\ b.documents = k.documents /\ b.table = k.table /\ b.next = k.next
          /\ b.result = k.result /\ k.result = "none"
      BY <1>1, <2>1, <2>3 DEF Whole, Local, Call
    <3> HIDE DEF b
    <3>2. Local(b)
      BY <1>1, <2>3, <3>1 DEF Whole, Local, Unstarted
    <3>3. Declared(b)
      BY <1>1, <3>1 DEF Whole, Declared
    <3>4. Generated(b)
      BY <1>1, <2>1, <3>1 DEF Whole, Generated, Working, Finished
    <3> QED BY <1>1, <2>1, <3>1, <3>2, <3>3, <3>4 DEF Whole, Generated, Working
  <2> QED BY <1>1, <2>1, <2>4, AdvanceWhole DEF Working
<1>10. CASE ReadFails(c)
  <2>1. k.at = "compare" /\ UNCHANGED files /\ call'[c] = End(k, "error")
    BY <1>1, <1>10, ActsOnOne DEF ReadFails
  <2> QED BY <1>1, <2>1, EndWhole
<1> QED BY <1>1, <1>2, <1>3, <1>4, <1>5, <1>6, <1>7, <1>8, <1>9, <1>10 DEF Acts

\* A call is one of its kind whatever the properties record of it.
LEMMA SameWork ==
    ASSUME NEW k, Whole(k), NEW alone \in BOOLEAN, NEW undisturbed \in BOOLEAN,
           alone => k.alone, undisturbed => k.undisturbed
    PROVE  Whole([k EXCEPT !.alone = alone, !.undisturbed = undisturbed])
<1> DEFINE m == [k EXCEPT !.alone = alone, !.undisturbed = undisturbed]
<1>1. /\ m \in Call /\ m.at = k.at /\ m.check = k.check /\ m.contracts = k.contracts
      /\ m.documents = k.documents /\ m.table = k.table /\ m.next = k.next
      /\ m.result = k.result /\ m.stale = k.stale /\ m.alone = alone
      /\ m.undisturbed = undisturbed
  BY DEF Whole, Local, Call
<1> HIDE DEF m
<1>2. Local(m)
  BY <1>1 DEF Whole, Local
<1>3. Declared(m) /\ Generated(m)
  BY <1>1 DEF Whole, Declared, Generated
<1> QED BY <1>2, <1>3 DEF Whole, m

LEMMA DoneWhole ==
    ASSUME files \in [Paths -> File]
    PROVE  Whole([Idle EXCEPT !.at = "done"]) /\ Whole(Idle)
<1>1. <<>> \in Seq(Contract) /\ <<>> \in Seq(Data) /\ {} \in SUBSET Paths
      /\ NotCaptured \in Versions \cup {NotCaptured} /\ 1 \in Nat
  OBVIOUS
<1>2. Idle \in Call /\ [Idle EXCEPT !.at = "done"] \in Call
  BY <1>1 DEF Idle, Call
<1> QED BY <1>2 DEF Idle, Whole, Local, Declared, Generated, Unstarted, Working, Finished

LEMMA CallsStay ==
    ASSUME call \in [Calls -> Call], [ExportNext]_vars
    PROVE  call' = [c \in Calls |-> call'[c]]
<1>1. ASSUME NEW d \in Calls, Acts(d)
      PROVE  call' = [c \in Calls |-> call'[c]]
  <2>1. (\E after : Continue(d, after)) \/ (\E data, after : WriteBy(d, data, after))
    BY <1>1 DEF Acts, Run, ReadTable, ReadContracts, Generate, Open, Write, WriteFails, Compare,
                ReadFails
  <2> QED BY <2>1 DEF Continue, WriteBy
<1>2. CASE Die
  BY <1>2 DEF Die
<1>3. CASE \/ \E contract \in Contracts : Declare(contract)
           \/ CaptureRouter \/ RegisterRoute \/ \E r \in Registries : Describe(r)
  BY <1>3 DEF Declare, CaptureRouter, RegisterRoute, Describe, Disturb
<1>4. CASE UNCHANGED vars
  BY <1>4 DEF vars
<1> QED BY <1>1, <1>2, <1>3, <1>4 DEF ExportNext, Acts

LEMMA LocalStep ==
    ASSUME LocalInv, [ExportNext]_vars
    PROVE  LocalInv'
<1>1. call \in [Calls -> Call] /\ \A c \in Calls : Whole(call[c])
  BY DEF LocalInv, Whole
<1>2. files' \in [Paths -> File]
  <2>1. ASSUME NEW c \in Calls, Acts(c)
        PROVE  files' \in [Paths -> File]
    BY <2>1, OwnStep
  <2> QED BY <2>1 DEF LocalInv, ExportNext, Acts, Declare, CaptureRouter, RegisterRoute,
                      Describe, Die, vars
<1>3. ASSUME NEW c \in Calls
      PROVE  Whole(call'[c])
  <2>1. CASE Spared(c)
    BY <1>1, <2>1 DEF Spared
  <2>2. CASE Disturbed(c)
    <3>1. call[c].alone \in BOOLEAN /\ call[c] \in Call
      BY <1>1 DEF Call
    <3>2. call'[c] = [call[c] EXCEPT !.alone = call[c].alone, !.undisturbed = FALSE]
      BY <2>2, <3>1 DEF Disturbed, Call
    <3>3. Whole([call[c] EXCEPT !.alone = call[c].alone, !.undisturbed = FALSE])
      <4> DEFINE k == call[c]
      <4>1. Whole(k) /\ k.alone \in BOOLEAN
        BY <1>1, <3>1
      <4> HIDE DEF k
      <4>2. Whole([k EXCEPT !.alone = k.alone, !.undisturbed = FALSE])
        BY <4>1, SameWork
      <4> QED BY <4>2 DEF k
    <3> QED BY <3>2, <3>3
  <2>3. CASE Overwritten(c)
    BY <1>1, <2>3, SameWork DEF Overwritten
  <2>4. CASE Killed(c)
    BY <1>1, <2>4, DoneWhole DEF Killed, LocalInv
  <2>5. CASE Acts(c)
    BY <2>5, OwnStep
  <2> QED BY <1>1, <2>1, <2>2, <2>3, <2>4, <2>5, StepKinds
<1>4. call' \in [Calls -> Call]
  BY <1>1, <1>3, CallsStay DEF Whole, Local
<1> QED BY <1>2, <1>3, <1>4, ApplicationStep DEF LocalInv, Whole

LEMMA LocalInit ==
    ASSUME ExportInit
    PROVE  LocalInv
<1>1. contracts = <<>> /\ Own \in Seq(Contract) /\ Len(Own) <= 1
  BY ContractAssumption DEF ExportInit
<1>2. Exported = Own
  BY <1>1 DEF Exported
<1>3. SharedInv
  BY <1>1, <1>2 DEF SharedInv, FilesAreNotShared
<1>4. \A i \in DOMAIN Exported : Exported[i].registry \in Registries
  <2> TAKE i \in DOMAIN Exported
  <2>1. Own[i] \in Contract /\ Own[i].registry # NoRegistry
    BY <1>1, <1>2, ContractAssumption
  <2> QED BY <1>2, <2>1 DEF Contract
<1>5. files \in [Paths -> File] /\ content \in [Registries -> Versions]
      /\ deaths \in 0 .. MaxDeaths /\ table \in Versions \cup {NotCaptured}
  BY ContractAssumption DEF ExportInit, File, Versions
<1>6. \A c \in Calls : call[c] = Idle /\ Whole(call[c])
  BY <1>5, DoneWhole DEF ExportInit
<1>7. call \in [Calls -> Call]
  BY <1>6 DEF ExportInit, Whole, Local
<1> QED BY <1>3, <1>4, <1>5, <1>6, <1>7 DEF LocalInv, Whole

(***************************************************************************)
(* Type correctness; a call never reaches for a document or a contract    *)
(* beyond the last.                                                        *)
(***************************************************************************)
THEOREM ExportTypeCorrect == ExportSpec => []ExportTypeOK
<1>1. LocalInv => ExportTypeOK
  <2> SUFFICES ASSUME LocalInv PROVE ExportTypeOK
    OBVIOUS
  <2>1. ASSUME NEW c \in Calls, call[c].at \in {"open", "write", "compare"}
        PROVE  call[c].next \in DOMAIN call[c].documents \cap DOMAIN call[c].contracts
    <3>1. Whole(call[c])
      BY DEF LocalInv, Whole
    <3> QED BY <2>1, <3>1, LocalType DEF Whole, Generated, Working
  <2> QED BY <2>1 DEF LocalInv, ExportTypeOK, SharedInv
<1>2. LocalInv /\ [ExportNext]_vars => LocalInv'
  BY LocalStep
<1>3. ExportInit => LocalInv
  BY LocalInit
<1> QED BY <1>1, <1>2, <1>3, PTL DEF ExportSpec

(***************************************************************************)
(* What a call that nobody else interferes with has done to the files.    *)
(***************************************************************************)

\* The documents before the nth are in their files, ...
InPlace(f, k, n) == \A i \in DOMAIN k.contracts :
                        i < n => f[k.contracts[i].path] = k.documents[i]

\* ... and every other file is as it was.
Untouched(f, k, n) ==
    \A p \in Paths : (\A i \in DOMAIN k.contracts : i < n => k.contracts[i].path # p)
                         => f[p] = k.before[p]

OnDisk(f, k) == k.alone =>
    /\ k.check \/ k.at \in Unstarted \/ Len(k.documents) # Len(k.contracts) => f = k.before
    /\ k.at = "open" => InPlace(f, k, k.next) /\ Untouched(f, k, k.next)
    /\ k.at = "write" => /\ InPlace(f, k, k.next) /\ Untouched(f, k, k.next + 1)
                         /\ f[k.contracts[k.next].path] = Torn
    /\ k.result = "ok" /\ ~k.check =>
          InPlace(f, k, Len(k.contracts) + 1) /\ Untouched(f, k, Len(k.contracts) + 1)

DiskInv == LocalInv /\ \A c \in Calls : OnDisk(files, call[c])

LEMMA Rewritten ==
    ASSUME NEW f \in [Paths -> File], NEW k, Whole(k), NEW i \in DOMAIN k.contracts, NEW data,
           InPlace(f, k, i), Untouched(f, k, i) \/ Untouched(f, k, i + 1)
    PROVE  LET g == [f EXCEPT ![k.contracts[i].path] = data]
           IN  /\ InPlace(g, k, i) /\ Untouched(g, k, i + 1)
               /\ g[k.contracts[i].path] = data
               /\ data = k.documents[i] => InPlace(g, k, i + 1)
<1> DEFINE g == [f EXCEPT ![k.contracts[i].path] = data]
<1>1. DOMAIN k.contracts \subseteq Nat /\ \A j \in DOMAIN k.contracts : k.contracts[j].path \in Paths
  <2>1. k.contracts \in Seq(Contract) /\ DOMAIN k.contracts = 1 .. Len(k.contracts)
    BY LocalType
  <2>2. \A j \in DOMAIN k.contracts : k.contracts[j] \in Contract
    BY <2>1
  <2> QED BY <2>1, <2>2 DEF Contract
<1>2. \A j \in DOMAIN k.contracts : j # i => k.contracts[j].path # k.contracts[i].path
  BY DEF Whole, Declared
<1>3. InPlace(g, k, i) /\ g[k.contracts[i].path] = data
  BY <1>1, <1>2 DEF InPlace
<1>4. Untouched(g, k, i + 1)
  <2> SUFFICES ASSUME NEW p \in Paths,
                      \A j \in DOMAIN k.contracts : j < i + 1 => k.contracts[j].path # p
               PROVE  g[p] = k.before[p]
    BY DEF Untouched
  <2>1. k.contracts[i].path # p /\ g[p] = f[p]
    BY <1>1
  <2>2. f[p] = k.before[p]
    BY <1>1 DEF Untouched
  <2> QED BY <2>1, <2>2
<1>5. ASSUME data = k.documents[i]
      PROVE  InPlace(g, k, i + 1)
  BY <1>1, <1>3, <1>5 DEF InPlace
<1> QED BY <1>3, <1>4, <1>5

\* Ending, or going on to the next document, leaves the rest of a call alone.
SameCall(k, a) ==
    /\ a.contracts = k.contracts /\ a.documents = k.documents /\ a.table = k.table
    /\ a.check = k.check /\ a.stale = k.stale /\ a.before = k.before /\ a.alone = k.alone
    /\ a.undisturbed = k.undisturbed

LEMMA EndFields ==
    ASSUME NEW k \in Call, NEW result
    PROVE  LET a == End(k, result)
           IN  SameCall(k, a) /\ a.at = "done" /\ a.result = result
BY DEF End, Call, SameCall

LEMMA AdvanceFields ==
    ASSUME NEW k, Whole(k), NEW at, k.at \in Working
    PROVE  LET a == Advance(k, at)
           IN  /\ SameCall(k, a)
               /\ \/ /\ k.next = Len(k.contracts) /\ a.at = "done"
                     /\ a.result = IF k.stale = {} THEN "ok" ELSE "stale"
                  \/ a.at = at /\ a.next = k.next + 1 /\ a.result = "none"
<1>1. k \in Call /\ k.result = "none" /\ Len(k.documents) = Len(k.contracts)
  BY DEF Whole, Local, Generated, Call, Working
<1>2. CASE AtLast(k)
  BY <1>1, <1>2, EndFields DEF Advance, AtLast
<1>3. CASE ~AtLast(k)
  BY <1>1, <1>3 DEF Advance, Call, SameCall
<1> QED BY <1>2, <1>3

LEMMA DiskOwn ==
    ASSUME DiskInv, NEW c \in Calls, Acts(c)
    PROVE  OnDisk(files', call'[c])
<1> DEFINE k == call[c]
<1>1. /\ Whole(k) /\ k \in Call /\ call \in [Calls -> Call] /\ files \in [Paths -> File]
      /\ OnDisk(files, k)
  BY DEF DiskInv, LocalInv, Whole
<1>2. ASSUME NEW check \in BOOLEAN, Run(c, check)
      PROVE  OnDisk(files', call'[c])
  <2> DEFINE a == [Idle EXCEPT !.at = "router", !.check = check, !.alone = TRUE,
                               !.undisturbed = TRUE]
  <2>1. call'[c] = a /\ UNCHANGED files
    BY <1>1, <1>2, ActsOnOne DEF Run
  <2>2. a.at = "router" /\ a.before = files /\ a.result = "none"
    BY DEF Idle
  <2> HIDE DEF a
  <2> QED BY <2>1, <2>2 DEF OnDisk
<1>3. ASSUME UNCHANGED files, k.at \in Unstarted \cup {"generate"},
             call'[c].alone => k.alone, call'[c].before = k.before,
             call'[c].check = k.check,
             \/ call'[c].at \in {"contracts", "generate", "compare"}
                /\ call'[c].result = "none"
             \/ call'[c].at = "done" /\ call'[c].result = "error"
             \/ call'[c].at = "open" /\ call'[c].next = 1 /\ call'[c].result = "none"
      PROVE  OnDisk(files', call'[c])
  <2>1. k.alone => files = k.before
    BY <1>1, <1>3, LocalType DEF OnDisk, Whole, Generated
  <2>2. Whole(call'[c])
    BY OwnStep DEF DiskInv
  <2>3. DOMAIN call'[c].contracts \subseteq Nat \ {0}
    BY <2>2, LocalType
  <2>4. call'[c].at = "open" => InPlace(files, call'[c], 1) /\ (files = k.before => Untouched(files, call'[c], 1))
    BY <1>3, <2>3 DEF InPlace, Untouched
  <2> QED BY <1>3, <2>1, <2>4 DEF OnDisk
<1>4. CASE ReadTable(c)
  <2>1. k.at = "router" /\ UNCHANGED files
        /\ call'[c] \in {End(k, "error"), [k EXCEPT !.at = "contracts", !.table = table]}
    BY <1>1, <1>4, ActsOnOne DEF ReadTable
  <2>2. k.result = "none"
    BY <1>1, <2>1 DEF Whole, Local, Call
  <2>3. CASE call'[c] = End(k, "error")
    BY <1>1, <1>3, <2>1, <2>3, EndFields DEF SameCall, Unstarted
  <2>4. CASE call'[c] = [k EXCEPT !.at = "contracts", !.table = table]
    <3>1. LET a == [k EXCEPT !.at = "contracts", !.table = table]
          IN  /\ a.alone = k.alone /\ a.before = k.before /\ a.check = k.check
              /\ a.result = "none" /\ a.at \in {"contracts", "generate"}
      BY <1>1, <2>2 DEF Call
    <3> QED BY <1>3, <2>1, <2>4, <3>1 DEF Unstarted
  <2> QED BY <2>1, <2>3, <2>4
<1>5. CASE ReadContracts(c)
  <2>1. k.at = "contracts" /\ UNCHANGED files
        /\ call'[c] \in {End(k, "error"), [k EXCEPT !.at = "generate", !.contracts = Exported]}
    BY <1>1, <1>5, ActsOnOne DEF ReadContracts
  <2>2. k.result = "none"
    BY <1>1, <2>1 DEF Whole, Local, Call
  <2>3. CASE call'[c] = End(k, "error")
    BY <1>1, <1>3, <2>1, <2>3, EndFields DEF SameCall, Unstarted
  <2>4. CASE call'[c] = [k EXCEPT !.at = "generate", !.contracts = Exported]
    <3>1. LET a == [k EXCEPT !.at = "generate", !.contracts = Exported]
          IN  /\ a.alone = k.alone /\ a.before = k.before /\ a.check = k.check
              /\ a.result = "none" /\ a.at \in {"contracts", "generate"}
      BY <1>1, <2>2 DEF Call
    <3> QED BY <1>3, <2>1, <2>4, <3>1 DEF Unstarted
  <2> QED BY <2>1, <2>3, <2>4
<1>6. CASE Generate(c)
  <2>1. k.at = "generate" /\ UNCHANGED files
        /\ call'[c] \in {End(k, "error"), AfterGenerating(WithDocument(k, NextDocument(k)))}
    BY <1>1, <1>6, ActsOnOne DEF Generate
  <2>2. k.result = "none" /\ k.next = 1
    BY <1>1, <2>1 DEF Whole, Local, Call
  <2>3. CASE call'[c] = End(k, "error")
    BY <1>1, <1>3, <2>1, <2>3, EndFields DEF SameCall
  <2>4. CASE call'[c] = AfterGenerating(WithDocument(k, NextDocument(k)))
    <3>1. LET a == AfterGenerating(WithDocument(k, NextDocument(k)))
          IN  /\ a.alone = k.alone /\ a.before = k.before /\ a.check = k.check /\ a.next = 1
              /\ a.result = "none" /\ a.at \in {"generate", "compare", "open"}
      BY <1>1, <2>2 DEF AfterGenerating, WithDocument, Call
    <3> QED BY <1>3, <2>1, <2>4, <3>1
  <2> QED BY <2>1, <2>3, <2>4
<1>7. CASE Open(c)
  <2> DEFINE a == [k EXCEPT !.at = "write"]
  <2>1. k.at = "open" /\ call'[c] = a /\ files' = [files EXCEPT ![Target(c)] = Torn]
    BY <1>1, <1>7, ActsOnOne DEF Open
  <2>2. /\ SameCall(k, a) /\ a.at = "write" /\ a.next = k.next /\ a.result = k.result
        /\ k.result = "none"
    BY <1>1, <2>1 DEF Whole, Local, Call, SameCall
  <2>3. /\ k.next \in DOMAIN k.contracts /\ ~k.check /\ Len(k.documents) = Len(k.contracts)
    BY <1>1, <2>1, LocalType DEF Whole, Generated, Working
  <2>4. ASSUME k.alone
        PROVE  /\ InPlace(files', k, k.next) /\ Untouched(files', k, k.next + 1)
               /\ files'[k.contracts[k.next].path] = Torn
    <3>1. InPlace(files, k, k.next) /\ Untouched(files, k, k.next)
      BY <1>1, <2>1, <2>4 DEF OnDisk
    <3>2. files' = [files EXCEPT ![k.contracts[k.next].path] = Torn]
      BY <2>1 DEF Target
    <3> HIDE DEF k
    <3>3. Untouched(files, k, k.next + 1)
      <4>1. DOMAIN k.contracts \subseteq Nat /\ k.next \in Nat
        BY <1>1, LocalType
      <4> QED BY <3>1, <4>1 DEF Untouched
    <3>4. InPlace(files', k, k.next) /\ Untouched(files', k, k.next + 1)
      BY <1>1, <2>3, <3>1, <3>2, <3>3, Rewritten
    <3>5. k.contracts[k.next].path \in Paths
      BY <1>1, <2>1, TargetTyped DEF Target, Working, k
    <3> QED BY <1>1, <3>2, <3>4, <3>5
  <2> HIDE DEF a, k
  <2> QED BY <2>1, <2>2, <2>3, <2>4 DEF OnDisk, SameCall, InPlace, Untouched, Unstarted
<1>8. CASE Write(c)
  <2> DEFINE a == Advance(k, "open")
  <2>1. PICK data \in {k.documents[k.next]} \cup {f \in {Torn} : files[Target(c)] # Torn} :
            WriteBy(c, data, a)
    BY <1>8 DEF Write
  <2>2. k.at = "write" /\ call'[c] = a /\ files' = [files EXCEPT ![Target(c)] = data]
    BY <1>1, <1>8, <2>1, ActsOnOne DEF Write
  <2>3. /\ SameCall(k, a)
        /\ \/ k.next = Len(k.contracts) /\ a.at = "done"
           \/ a.at = "open" /\ a.next = k.next + 1 /\ a.result = "none"
    BY <1>1, <2>2, AdvanceFields DEF Working
  <2>4. /\ k.next \in DOMAIN k.contracts /\ ~k.check /\ Len(k.documents) = Len(k.contracts)
    BY <1>1, <2>2, LocalType DEF Whole, Generated, Working
  <2>5. ASSUME k.alone
        PROVE  InPlace(files', k, k.next + 1) /\ Untouched(files', k, k.next + 1)
    <3>1. /\ InPlace(files, k, k.next) /\ Untouched(files, k, k.next + 1)
          /\ files[k.contracts[k.next].path] = Torn
      BY <1>1, <2>2, <2>5 DEF OnDisk
    <3>2. data = k.documents[k.next]
      BY <2>1, <3>1 DEF Target
    <3>3. files' = [files EXCEPT ![k.contracts[k.next].path] = data]
      BY <2>2 DEF Target
    <3> HIDE DEF k
    <3>4. files \in [Paths -> File] /\ Whole(k)
      BY <1>1
    <3>5. PICK i \in DOMAIN k.contracts : i = k.next
      BY <2>4
    <3>6. InPlace(files, k, i) /\ Untouched(files, k, i + 1) /\ data = k.documents[i]
      BY <3>1, <3>2, <3>5
    <3>7. LET g == [files EXCEPT ![k.contracts[i].path] = data]
          IN  InPlace(g, k, i + 1) /\ Untouched(g, k, i + 1)
      BY <3>4, <3>6, Rewritten
    <3> QED BY <3>3, <3>5, <3>7
  <2> HIDE DEF a, k
  <2> QED BY <2>2, <2>3, <2>4, <2>5 DEF OnDisk, SameCall, InPlace, Untouched, Unstarted
<1>9. CASE WriteFails(c)
  <2>1. k.at \in {"open", "write"} /\ UNCHANGED files /\ call'[c] = End(k, "error")
    BY <1>1, <1>9, ActsOnOne DEF WriteFails, WriteError
  <2>2. ~k.check /\ Len(k.documents) = Len(k.contracts)
    BY <1>1, <2>1 DEF Whole, Generated, Working
  <2> QED BY <1>1, <2>1, <2>2, EndFields DEF OnDisk, SameCall, Unstarted
<1>10. ASSUME k.at = "compare", UNCHANGED files, call'[c].check = k.check,
              call'[c].alone = k.alone, call'[c].before = k.before,
              call'[c].at \in {"compare", "done"}
       PROVE  OnDisk(files', call'[c])
  <2>1. k.check
    BY <1>1, <1>10 DEF Whole, Generated, Working
  <2> QED BY <1>1, <1>10, <2>1 DEF OnDisk
<1>11. CASE Compare(c)
  <2> DEFINE stale == {p \in {Target(c)} : Differs(files[p], k.documents[k.next])}
             b     == [k EXCEPT !.stale = @ \cup stale]
             a     == Advance(b, "compare")
  <2>1. k.at = "compare" /\ UNCHANGED files /\ call'[c] = a
    BY <1>1, <1>11, ActsOnOne DEF Compare
  <2> HIDE DEF stale
  <2>2. /\ a.check = k.check /\ a.alone = k.alone /\ a.before = k.before
        /\ a.at \in {"compare", "done"}
    BY <1>1, <2>1 DEF Advance, End, Call
  <2> QED BY <1>10, <2>1, <2>2
<1>12. CASE ReadFails(c)
  <2>1. k.at = "compare" /\ UNCHANGED files /\ call'[c] = End(k, "error")
    BY <1>1, <1>12, ActsOnOne DEF ReadFails
  <2> QED BY <1>1, <1>10, <2>1, EndFields DEF SameCall
<1> QED BY <1>2, <1>4, <1>5, <1>6, <1>7, <1>8, <1>9, <1>11, <1>12 DEF Acts

LEMMA DiskStep ==
    ASSUME DiskInv, [ExportNext]_vars
    PROVE  DiskInv'
<1>1. LocalInv'
  BY LocalStep DEF DiskInv
<1>2. ASSUME NEW c \in Calls
      PROVE  OnDisk(files', call'[c])
  <2>1. OnDisk(files, call[c]) /\ call[c] \in Call
    BY DEF DiskInv, LocalInv
  <2>2. CASE Spared(c)
    BY <2>1, <2>2 DEF Spared
  <2>3. CASE Disturbed(c)
    <3>1. UNCHANGED files
      BY <2>3 DEF Disturbed
    <3>2. LET a == call'[c]
          IN  /\ a.contracts = call[c].contracts /\ a.documents = call[c].documents
              /\ a.check = call[c].check /\ a.before = call[c].before
              /\ a.alone = call[c].alone /\ a.at = call[c].at /\ a.next = call[c].next
              /\ a.result = call[c].result
      BY <2>1, <2>3 DEF Disturbed, Call
    <3>3. PICK k, a : k = call[c] /\ a = call'[c]
      OBVIOUS
    <3>4. /\ a.contracts = k.contracts /\ a.documents = k.documents /\ a.check = k.check
          /\ a.before = k.before /\ a.alone = k.alone /\ a.at = k.at /\ a.next = k.next
          /\ a.result = k.result
      BY <3>2, <3>3
    <3>5. OnDisk(files, k)
      BY <2>1, <3>3
    <3>6. OnDisk(files, a)
      BY <3>4, <3>5 DEF OnDisk, InPlace, Untouched
    <3> QED BY <3>1, <3>3, <3>6
  <2>4. CASE Overwritten(c)
    BY <2>1, <2>4 DEF Overwritten, OnDisk, Call
  <2>5. CASE Killed(c)
    <3>1. ~[Idle EXCEPT !.at = "done"].alone
      BY DEF Idle
    <3> QED BY <2>1, <2>5, <3>1 DEF Killed, OnDisk
  <2>6. CASE Acts(c)
    BY <2>6, DiskOwn
  <2> QED BY <2>2, <2>3, <2>4, <2>5, <2>6, StepKinds DEF DiskInv, LocalInv
<1> QED BY <1>1, <1>2 DEF DiskInv

LEMMA DiskAlways == ExportSpec => []DiskInv
<1>1. ExportInit => DiskInv
  <2> SUFFICES ASSUME ExportInit PROVE DiskInv
    OBVIOUS
  <2>1. \A c \in Calls : ~call[c].alone
    BY DEF ExportInit, Idle
  <2> QED BY <2>1, LocalInit DEF DiskInv, OnDisk
<1>2. DiskInv /\ [ExportNext]_vars => DiskInv'
  BY DiskStep
<1> QED BY <1>1, <1>2, PTL DEF ExportSpec

(***************************************************************************)
(* A call that checks, and a call that has not generated every document,  *)
(* has left every file as it was.                                          *)
(***************************************************************************)
THEOREM WritesAfterGenerating == ExportSpec => []NothingIsWrittenEarly
<1>1. DiskInv => NothingIsWrittenEarly
  BY DEF DiskInv, OnDisk, NothingIsWrittenEarly
<1> QED BY <1>1, DiskAlways, PTL

(***************************************************************************)
(* An export that succeeds alone has put every document in its file and   *)
(* left the other files as they were.                                      *)
(***************************************************************************)
THEOREM ExportIsComplete == ExportSpec => []ExportWritesEveryFile
<1>1. DiskInv => ExportWritesEveryFile
  <2> SUFFICES ASSUME DiskInv, NEW c \in Calls, Exports(c) /\ call[c].alone
               PROVE  /\ \A i \in DOMAIN call[c].contracts :
                            files[call[c].contracts[i].path] = call[c].documents[i]
                      /\ \A p \in Paths \ {call[c].contracts[i].path : i \in DOMAIN call[c].contracts} :
                            files[p] = call[c].before[p]
    BY DEF ExportWritesEveryFile
  <2>1. LET n == Len(call[c].contracts) + 1
        IN  InPlace(files, call[c], n) /\ Untouched(files, call[c], n)
    BY DEF DiskInv, OnDisk, Exports
  <2>2. \A i \in DOMAIN call[c].contracts : i < Len(call[c].contracts) + 1
    <3>1. Whole(call[c])
      BY DEF DiskInv, LocalInv, Whole
    <3> QED BY <3>1, LocalType
  <2> QED BY <2>1, <2>2 DEF InPlace, Untouched
<1> QED BY <1>1, DiskAlways, PTL

(***************************************************************************)
(* The files a successful export leaves describe one route table.         *)
(***************************************************************************)
THEOREM FilesAgree == ExportSpec => []FilesAreOfOneTable
<1>1. DiskInv /\ ExportWritesEveryFile => FilesAreOfOneTable
  <2> SUFFICES ASSUME DiskInv, ExportWritesEveryFile, NEW c \in Calls,
                      Exports(c) /\ call[c].alone
               PROVE  \E t \in Versions : \A i \in DOMAIN call[c].contracts : \E v \in Versions :
                          files[call[c].contracts[i].path] = Bytes(t, v, call[c].contracts[i])
    BY DEF FilesAreOfOneTable
  <2>1. Whole(call[c])
    BY DEF DiskInv, LocalInv, Whole
  <2>2. DOMAIN call[c].contracts = DOMAIN call[c].documents
    BY <2>1, LocalType DEF Exports, Whole, Generated, Finished
  <2>3. \A i \in DOMAIN call[c].contracts : \E v \in Versions :
            files[call[c].contracts[i].path] = Bytes(call[c].table, v, call[c].contracts[i])
    BY <2>1, <2>2 DEF ExportWritesEveryFile, Whole, Generated
  <2>4. CASE call[c].contracts = <<>>
    BY <2>4, ContractAssumption DEF Versions
  <2>5. CASE call[c].contracts # <<>>
    BY <2>1, <2>3, <2>5 DEF Whole, Local
  <2> QED BY <2>4, <2>5
<1> QED BY <1>1, DiskAlways, ExportIsComplete, PTL

(***************************************************************************)
(* What a call has, and found, that nothing has changed since.            *)
(***************************************************************************)
Stale(k, j) == files[k.contracts[j].path] # k.documents[j]

StaleBefore(k, n) ==
    {k.contracts[i].path : i \in {j \in DOMAIN k.contracts : j < n /\ Stale(k, j)}}

Current(k) == k.undisturbed =>
    /\ k.at = "contracts" \/ k.contracts # <<>> => k.table = table
    /\ k.contracts # <<>> => k.contracts = Exported
    /\ \A i \in DOMAIN k.documents :
          k.documents[i] = Bytes(table, content[k.contracts[i].registry], k.contracts[i])
    /\ k.at = "compare" => k.stale = StaleBefore(k, k.next)
    /\ k.check /\ k.result \in Finished =>
          /\ k.contracts = Exported
          /\ k.stale = StaleBefore(k, Len(k.contracts) + 1)
          /\ k.result = "ok" <=> k.stale = {}

CheckInv == LocalInv /\ \A c \in Calls : Current(call[c])

LEMMA OwnLeavesApplication ==
    ASSUME NEW c \in Calls, Acts(c)
    PROVE  table' = table /\ content' = content /\ Exported' = Exported
BY DEF Acts, Run, ReadTable, ReadContracts, Generate, Open, Write, WriteFails, Compare, ReadFails,
       Continue, WriteBy, application, Exported

LEMMA OneMoreCompared ==
    ASSUME NEW k, Whole(k), k.next \in DOMAIN k.contracts
    PROVE  LET p == k.contracts[k.next].path
           IN  StaleBefore(k, k.next + 1) =
                  StaleBefore(k, k.next) \cup {q \in {p} : Differs(files[q], k.documents[k.next])}
<1> DEFINE i == k.next
<1>1. DOMAIN k.contracts \subseteq Nat /\ i \in Nat
  BY LocalType
<1>2. {j \in DOMAIN k.contracts : j < i + 1 /\ Stale(k, j)} =
         {j \in DOMAIN k.contracts : j < i /\ Stale(k, j)} \cup {j \in {i} : Stale(k, j)}
  BY <1>1
<1>3. {k.contracts[j].path : j \in {m \in {i} : Stale(k, m)}} =
         {q \in {k.contracts[i].path} : Differs(files[q], k.documents[i])}
  BY DEF Differs, Stale
<1> HIDE DEF i
<1> QED BY <1>2, <1>3 DEF StaleBefore, i

LEMMA CheckOwn ==
    ASSUME CheckInv, NEW c \in Calls, Acts(c)
    PROVE  Current(call[c])'
<1> DEFINE k == call[c]
<1>1. /\ Whole(k) /\ k \in Call /\ call \in [Calls -> Call] /\ Current(k)
  BY DEF CheckInv, LocalInv, Whole
<1>2. table' = table /\ content' = content /\ Exported' = Exported
  BY OwnLeavesApplication
<1> HIDE DEF Exported
<1>3. ASSUME NEW check \in BOOLEAN, Run(c, check)
      PROVE  Current(call[c])'
  <2> DEFINE a == [Idle EXCEPT !.at = "router", !.check = check, !.alone = TRUE,
                               !.undisturbed = TRUE]
  <2>1. call'[c] = a
    BY <1>1, <1>3, ActsOnOne DEF Run
  <2>2. a.at = "router" /\ a.contracts = <<>> /\ a.documents = <<>> /\ a.result = "none"
    BY DEF Idle
  <2> HIDE DEF a
  <2> QED BY <2>1, <2>2 DEF Current, Finished
<1>4. ASSUME call'[c] = End(k, "error")
      PROVE  Current(call[c])'
  <2>1. SameCall(k, call'[c]) /\ call'[c].at = "done" /\ call'[c].result = "error"
    BY <1>1, <1>4, EndFields
  <2> HIDE DEF k
  <2> QED BY <1>1, <1>2, <2>1 DEF Current, Finished, SameCall
<1>5. CASE ReadTable(c)
  <2> DEFINE b == [k EXCEPT !.at = "contracts", !.table = table]
  <2>1. k.at = "router" /\ call'[c] \in {End(k, "error"), b}
    BY <1>1, <1>5, ActsOnOne DEF ReadTable
  <2>2. k.documents = <<>> /\ k.contracts = <<>> /\ k.result = "none"
    BY <1>1, <2>1 DEF Whole, Local, Unstarted, Call
  <2>3. /\ b.documents = <<>> /\ b.contracts = <<>> /\ b.result = "none" /\ b.at = "contracts"
        /\ b.table = table
    BY <1>1, <2>2 DEF Call
  <2> HIDE DEF b, k
  <2>4. CASE call'[c] = b
    BY <1>2, <2>3, <2>4 DEF Current, Finished
  <2> QED BY <1>4, <2>1, <2>4
<1>6. CASE ReadContracts(c)
  <2> DEFINE b == [k EXCEPT !.at = "generate", !.contracts = Exported]
  <2>1. k.at = "contracts" /\ call'[c] \in {End(k, "error"), b}
    BY <1>1, <1>6, ActsOnOne DEF ReadContracts
  <2>2. k.documents = <<>> /\ k.result = "none"
    BY <1>1, <2>1 DEF Whole, Local, Unstarted, Call
  <2>3. /\ b.documents = <<>> /\ b.contracts = Exported /\ b.result = "none" /\ b.at = "generate"
        /\ b.table = k.table /\ b.undisturbed = k.undisturbed
    BY <1>1, <2>2 DEF Call
  <2> HIDE DEF b, k
  <2>4. CASE call'[c] = b
    BY <1>1, <1>2, <2>1, <2>3, <2>4 DEF Current, Finished
  <2> QED BY <1>4, <2>1, <2>4
<1>7. CASE Generate(c)
  <2> DEFINE data == NextDocument(k)
             n    == Len(k.documents)
             a    == AfterGenerating(WithDocument(k, data))
  <2>1. k.at = "generate" /\ (data = Failed => call'[c] = End(k, "error"))
        /\ (data # Failed => call'[c] = a)
    BY <1>1, <1>7, ActsOnOne DEF Generate
  <2>2. CASE data # Failed
    <3>1. n + 1 \in DOMAIN k.contracts
          /\ data = Bytes(k.table, content[k.contracts[n + 1].registry], k.contracts[n + 1])
      BY <2>1, <2>2, DocumentTyped DEF CheckInv
    <3>2. k.contracts # <<>> /\ k.result = "none" /\ k.next = 1 /\ k.stale = {}
      <4>1. Local(k) /\ k \in Call
        BY <1>1 DEF Whole, Local
      <4>2. k.result = "none" /\ k.next = 1 /\ k.stale = {}
        BY <2>1, <4>1 DEF Local, Call, Unstarted
      <4>3. k.contracts # <<>>
        BY <3>1
      <4> QED BY <4>2, <4>3
    <3>3. /\ a.contracts = k.contracts /\ a.documents = Append(k.documents, data)
          /\ a.table = k.table /\ a.undisturbed = k.undisturbed /\ a.result = "none"
          /\ a.next = 1 /\ a.stale = {} /\ a.at \in {"generate", "open", "compare"}
      BY <1>1, <3>2 DEF AfterGenerating, WithDocument, Call
    <3>4. k.documents \in Seq(Data) /\ n \in Nat /\ DOMAIN k.documents = 1 .. n
          /\ DOMAIN k.contracts \subseteq Nat \ {0}
      BY <1>1, LocalType
    <3>5. data \in Data
      BY <2>1, <2>2, DocumentTyped DEF CheckInv
    <3> HIDE DEF data, a, k
    <3>6. ASSUME k.undisturbed, NEW i \in DOMAIN a.documents
          PROVE  a.documents[i] = Bytes(table, content[k.contracts[i].registry], k.contracts[i])
      <4>1. k.table = table
        BY <1>1, <3>2, <3>6 DEF Current
      <4>2. CASE i = n + 1
        <5>1. Append(k.documents, data)[n + 1] = data
          BY <3>4, <3>5, AppendShown
        <5> QED BY <3>1, <3>3, <4>1, <4>2, <5>1
      <4>3. CASE i # n + 1
        <5>1. i \in DOMAIN k.documents /\ a.documents[i] = k.documents[i]
          BY <3>3, <3>4, <3>5, <3>6, <4>3
        <5> QED BY <1>1, <3>6, <5>1 DEF Current
      <4> QED BY <4>2, <4>3
    <3>7. call'[c] = a
      BY <2>1, <2>2
    <3>8. StaleBefore(call[c], 1)' = {}
      BY <3>3, <3>4, <3>7 DEF StaleBefore
    <3> QED BY <1>1, <1>2, <3>2, <3>3, <3>6, <3>7, <3>8 DEF Current, Finished
  <2> QED BY <1>4, <2>1, <2>2
<1>8. ASSUME SameCall(k, call'[c]), call'[c].at \in {"open", "write", "done"}, ~k.check
      PROVE  Current(call[c])'
  <2> HIDE DEF k
  <2> QED BY <1>1, <1>2, <1>8 DEF Current, SameCall
<1>9. CASE Open(c)
  <2>1. k.at = "open" /\ call'[c] = [k EXCEPT !.at = "write"]
    BY <1>1, <1>9, ActsOnOne DEF Open
  <2>2. SameCall(k, call'[c]) /\ call'[c].at = "write"
    BY <1>1, <2>1 DEF SameCall, Call
  <2>3. ~k.check
    BY <1>1, <2>1 DEF Whole, Generated, Working
  <2> QED BY <1>8, <2>2, <2>3
<1>10. CASE Write(c)
  <2>1. k.at = "write" /\ call'[c] = Advance(k, "open")
    BY <1>1, <1>10, ActsOnOne DEF Write
  <2>2. SameCall(k, call'[c]) /\ call'[c].at \in {"open", "done"}
    BY <1>1, <2>1, AdvanceFields DEF Working
  <2>3. ~k.check
    BY <1>1, <2>1 DEF Whole, Generated, Working
  <2> QED BY <1>8, <2>2, <2>3
<1>11. CASE WriteFails(c)
  <2>1. call'[c] = End(k, "error")
    BY <1>1, <1>11, ActsOnOne DEF WriteFails, WriteError
  <2> QED BY <1>4, <2>1
<1>12. CASE Compare(c)
  <2> DEFINE stale == {p \in {Target(c)} : Differs(files[p], k.documents[k.next])}
             b     == [k EXCEPT !.stale = @ \cup stale]
             a     == Advance(b, "compare")
  <2>1. k.at = "compare" /\ UNCHANGED files /\ call'[c] = a
    BY <1>1, <1>12, ActsOnOne DEF Compare
  <2>2. /\ k.next \in DOMAIN k.contracts /\ k.check /\ k.result = "none"
        /\ Len(k.documents) = Len(k.contracts) /\ k.contracts # <<>>
    BY <1>1, <2>1, LocalType DEF Whole, Local, Generated, Working, Call
  <2>3. stale \in SUBSET Paths
    BY <1>1, <2>1, TargetTyped DEF Working
  <2>4. StaleBefore(k, k.next + 1) = StaleBefore(k, k.next) \cup stale
    BY <1>1, <2>2, OneMoreCompared DEF Target
  <2> HIDE DEF stale
  <2>5. /\ a.contracts = k.contracts /\ a.documents = k.documents /\ a.table = k.table
        /\ a.check = k.check /\ a.undisturbed = k.undisturbed /\ a.stale = k.stale \cup stale
        /\ \/ k.next = Len(k.contracts) /\ a.at = "done"
                /\ a.result = IF a.stale = {} THEN "ok" ELSE "stale"
           \/ a.at = "compare" /\ a.next = k.next + 1 /\ a.result = "none"
    BY <1>1, <2>2 DEF Advance, AtLast, End, Call
  <2> HIDE DEF a, k
  <2>6. k.undisturbed => a.stale = StaleBefore(k, k.next + 1)
    BY <1>1, <2>1, <2>4, <2>5 DEF Current
  <2>7. \A n : StaleBefore(call[c], n)' = StaleBefore(k, n)
    BY <2>1, <2>5 DEF StaleBefore, Stale
  <2>8. call'[c].undisturbed => /\ call'[c].table = table /\ k.contracts = Exported
                                /\ call'[c].contracts = Exported
                                /\ call'[c].stale = StaleBefore(k, k.next + 1)
                                /\ \A i \in DOMAIN k.documents : k.documents[i] =
                                      Bytes(table, content[k.contracts[i].registry], k.contracts[i])
    BY <1>1, <2>1, <2>2, <2>5, <2>6 DEF Current
  <2> QED BY <1>2, <2>1, <2>2, <2>5, <2>7, <2>8 DEF Current, Finished
<1>13. CASE ReadFails(c)
  <2>1. call'[c] = End(k, "error")
    BY <1>1, <1>13, ActsOnOne DEF ReadFails
  <2> QED BY <1>4, <2>1
<1> QED BY <1>3, <1>5, <1>6, <1>7, <1>9, <1>10, <1>11, <1>12, <1>13 DEF Acts

LEMMA CheckStep ==
    ASSUME CheckInv, [ExportNext]_vars
    PROVE  CheckInv'
<1>1. LocalInv'
  BY LocalStep DEF CheckInv
<1>2. ASSUME NEW c \in Calls
      PROVE  Current(call[c])'
  <2>1. Current(call[c]) /\ call[c] \in Call
    BY DEF CheckInv, LocalInv
  <2>2. CASE Spared(c)
    <3>1. table' = table /\ content' = content /\ Exported' = Exported /\ files' = files
          /\ call'[c] = call[c]
      BY <2>2 DEF Spared, application, Exported
    <3> HIDE DEF Exported
    <3> QED BY <2>1, <3>1 DEF Current, StaleBefore, Stale
  <2>3. CASE ~call'[c].undisturbed
    BY <2>3 DEF Current
  <2>4. CASE Disturbed(c) \/ Overwritten(c)
    BY <2>1, <2>3, <2>4 DEF Disturbed, Overwritten, Call
  <2>5. CASE Killed(c)
    <3>1. ~[Idle EXCEPT !.at = "done"].undisturbed
      BY DEF Idle
    <3>2. call[c].at = "idle" => ~call[c].undisturbed
      BY DEF CheckInv, LocalInv, Local
    <3> QED BY <2>3, <2>5, <3>1, <3>2 DEF Killed
  <2>6. CASE Acts(c)
    BY <2>6, CheckOwn
  <2> QED BY <2>2, <2>4, <2>5, <2>6, StepKinds DEF CheckInv, LocalInv
<1> QED BY <1>1, <1>2 DEF CheckInv

(***************************************************************************)
(* A check of committed documents that nothing disturbs names exactly the *)
(* files that are missing or differ.                                       *)
(***************************************************************************)
THEOREM CheckNamesTheStale == ExportSpec => []CheckIsExact
<1>1. ExportInit => CheckInv
  <2> SUFFICES ASSUME ExportInit PROVE CheckInv
    OBVIOUS
  <2>1. \A c \in Calls : ~call[c].undisturbed
    BY DEF ExportInit, Idle
  <2> QED BY <2>1, LocalInit DEF CheckInv, Current
<1>2. CheckInv /\ [ExportNext]_vars => CheckInv'
  BY CheckStep
<1>3. CheckInv => CheckIsExact
  <2> SUFFICES ASSUME CheckInv, NEW c \in Calls, call[c].check, call[c].undisturbed,
                      call[c].result \in {"ok", "stale"}
               PROVE  /\ call[c].stale =
                            {Exported[i].path : i \in {j \in DOMAIN Exported :
                                files[Exported[j].path] #
                                    Bytes(table, content[Exported[j].registry], Exported[j])}}
                      /\ call[c].result = "ok" <=> call[c].stale = {}
    BY DEF CheckIsExact
  <2> DEFINE k == call[c]
  <2>1. Whole(k) /\ Current(k)
    BY DEF CheckInv, LocalInv, Whole
  <2>2. /\ k.contracts = Exported /\ k.stale = StaleBefore(k, Len(k.contracts) + 1)
        /\ k.result = "ok" <=> k.stale = {}
    BY <2>1 DEF Current, Finished
  <2>3. DOMAIN k.documents = DOMAIN k.contracts /\ DOMAIN k.contracts = 1 .. Len(k.contracts)
        /\ Len(k.contracts) \in Nat
    BY <2>1, LocalType DEF Whole, Generated, Finished
  <2>4. \A j \in DOMAIN k.contracts :
            /\ j < Len(k.contracts) + 1
            /\ Stale(k, j) <=> files[k.contracts[j].path] #
                                   Bytes(table, content[k.contracts[j].registry], k.contracts[j])
    BY <2>1, <2>3 DEF Current, Stale
  <2> HIDE DEF k, Exported
  <2>5. {j \in DOMAIN k.contracts : j < Len(k.contracts) + 1 /\ Stale(k, j)} =
           {j \in DOMAIN k.contracts : files[k.contracts[j].path] #
                Bytes(table, content[k.contracts[j].registry], k.contracts[j])}
    BY <2>4
  <2>6. k.stale = {k.contracts[i].path : i \in {j \in DOMAIN k.contracts :
            files[k.contracts[j].path] #
                Bytes(table, content[k.contracts[j].registry], k.contracts[j])}}
    BY <2>2, <2>5 DEF StaleBefore
  <2> QED BY <2>2, <2>6 DEF k
<1> QED BY <1>1, <1>2, <1>3, PTL DEF ExportSpec
=============================================================================
