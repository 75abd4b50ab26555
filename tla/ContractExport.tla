---------------------------- MODULE ContractExport --------------------------
(***************************************************************************)
(* openapi:export (contracts.go): the documents a module exports, the     *)
(* command that writes them to their files or, with --check, compares     *)
(* them, and what happens meanwhile: declarations, routes, documentation, *)
(* another call of the command, failing file operations and the death of  *)
(* the process.                                                            *)
(*                                                                         *)
(* A route table and the content of a registry are numbered versions that *)
(* only grow; Bytes is what contractJSON makes of them.                   *)
(***************************************************************************)
EXTENDS Naturals, Sequences

CONSTANTS Calls,          \* calls of the command, each made once
          Contracts,      \* what Contract may be asked to declare
          Own,            \* the module's own document, or no document
          Registries,
          NoRegistry,     \* a nil registry
          Paths,
          Data,           \* what a document may be encoded as, or an older file hold
          Bytes(_, _, _), \* of a table, a content and a contract
          Failed,         \* ... if generation fails
          Committed,      \* what the files may hold at first
          Missing, Torn,  \* a file that is absent; one written in part
          NotCaptured,    \* no router yet
          MaxVersion,     \* bound of every version
          MaxContracts,   \* bound of the declarations
          MaxDeaths       \* bound of the deaths of the process

\* "valid" is what validateGenerationConfig and validateContractConfig decide.
Contract == [registry : Registries \cup {NoRegistry}, path : Paths, valid : BOOLEAN]

Versions == 0 .. MaxVersion

ASSUME ContractAssumption ==
    /\ Contracts \subseteq Contract
    /\ Own \in Seq(Contract) /\ Len(Own) <= 1
    /\ \A i \in DOMAIN Own : Own[i].registry # NoRegistry
    /\ NoRegistry \notin Registries
    /\ MaxVersion \in Nat /\ MaxContracts \in Nat /\ MaxDeaths \in Nat
    /\ NotCaptured \notin Nat
    /\ Committed \subseteq [Paths -> Data \cup {Missing}]
    /\ {Failed, Missing, Torn} \cap Data = {}
    /\ \A t, v \in Versions, c \in Contract : Bytes(t, v, c) \in Data \cup {Failed}

VARIABLES
    contracts,  \* Module.contracts
    table,      \* the version of the captured router's route table
    content,    \* registry -> the version of its content
    files,      \* path -> what is on disk
    call,       \* call -> the locals of runExport and exportDocuments
    deaths

vars == <<contracts, table, content, files, call, deaths>>

\* exportedContracts
Exported == Own \o contracts

Idle == [at |-> "idle", check |-> FALSE, table |-> NotCaptured, contracts |-> <<>>,
         documents |-> <<>>, next |-> 1, stale |-> {}, result |-> "none",
         \* what the properties ask of a call: the files at its start, whether nobody
         \* else wrote, and whether nothing at all changed but by its own steps
         before |-> files, alone |-> FALSE, undisturbed |-> FALSE]

File == Data \cup {Missing, Torn}

Call == [at : {"idle", "router", "contracts", "generate", "open", "write", "compare", "done"},
         check : BOOLEAN, table : Versions \cup {NotCaptured}, contracts : Seq(Contract),
         documents : Seq(Data), next : Nat, stale : SUBSET Paths,
         result : {"none", "ok", "stale", "error"},
         before : [Paths -> File], alone : BOOLEAN, undisturbed : BOOLEAN]

ExportTypeOK ==
    /\ contracts \in Seq(Contract)
    /\ table \in Versions \cup {NotCaptured}
    /\ content \in [Registries -> Versions]
    /\ files \in [Paths -> File]
    /\ call \in [Calls -> Call]
    /\ deaths \in 0 .. MaxDeaths
    /\ \A c \in Calls : call[c].at \in {"open", "write", "compare"} =>
          call[c].next \in DOMAIN call[c].documents \cap DOMAIN call[c].contracts

ExportInit ==
    /\ contracts = <<>>
    /\ table = NotCaptured
    /\ content = [r \in Registries |-> 0]
    /\ files \in Committed
    /\ call = [c \in Calls |-> Idle]
    /\ deaths = 0

-----------------------------------------------------------------------------
(* The application *)

Conflicts(contract) == \E i \in DOMAIN Exported : Exported[i].path = contract.path

Disturb == call' = [c \in Calls |-> [call[c] EXCEPT !.undisturbed = FALSE]]

\* Module.Contract; a refused declaration changes nothing.
Declare(contract) ==
    /\ Len(contracts) < MaxContracts
    /\ contract.registry # NoRegistry
    /\ contract.valid
    /\ ~Conflicts(contract)
    /\ contracts' = Append(contracts, contract)
    /\ Disturb
    /\ UNCHANGED <<table, content, files, deaths>>

CaptureRouter ==
    /\ table = NotCaptured
    /\ table' = 0
    /\ Disturb
    /\ UNCHANGED <<contracts, content, files, deaths>>

RegisterRoute ==
    /\ table # NotCaptured
    /\ table < MaxVersion
    /\ table' = table + 1
    /\ Disturb
    /\ UNCHANGED <<contracts, content, files, deaths>>

Describe(r) ==
    /\ content[r] < MaxVersion
    /\ content' = [content EXCEPT ![r] = @ + 1]
    /\ Disturb
    /\ UNCHANGED <<contracts, table, files, deaths>>

\* The process dies.  The next one starts from the sources, the files stay.
Die ==
    /\ deaths < MaxDeaths
    /\ deaths' = deaths + 1
    /\ contracts' = <<>>
    /\ table' = NotCaptured
    /\ content' = [r \in Registries |-> 0]
    /\ call' = [c \in Calls |-> IF call[c].at = "idle" THEN call[c]
                                ELSE [Idle EXCEPT !.at = "done"]]
    /\ UNCHANGED files

-----------------------------------------------------------------------------
(* The command *)

application == <<contracts, table, content, deaths>>

Continue(c, after) ==
    /\ call' = [call EXCEPT ![c] = after]
    /\ UNCHANGED <<application, files>>

End(local, result) == [local EXCEPT !.at = "done", !.result = result]

\* Commands offers the command if there is a document to export.
Run(c, check) ==
    /\ call[c].at = "idle"
    /\ Exported # <<>>
    /\ Continue(c, [Idle EXCEPT !.at = "router", !.check = check,
                                !.alone = TRUE, !.undisturbed = TRUE])

ReadTable(c) ==
    /\ call[c].at = "router"
    /\ Continue(c, IF table = NotCaptured THEN End(call[c], "error")
                   ELSE [call[c] EXCEPT !.at = "contracts", !.table = table])

ReadContracts(c) ==
    /\ call[c].at = "contracts"
    /\ Continue(c, IF Exported = <<>> THEN End(call[c], "error")
                   ELSE [call[c] EXCEPT !.at = "generate", !.contracts = Exported])

\* Mutant: every document is generated from the table of its moment.
TableNow(local) == table

TableOf(local) == local.table

\* contractJSON of the next contract, after validateContractConfig.
NextDocument(local) ==
    LET contract == local.contracts[Len(local.documents) + 1]
    IN  IF contract.valid THEN Bytes(TableOf(local), content[contract.registry], contract)
        ELSE Failed

\* Mutant: what has been generated is written.
SomeGenerated(local) == local.documents # <<>>

AllGenerated(local) == Len(local.documents) = Len(local.contracts)

WithDocument(local, data) == [local EXCEPT !.documents = Append(@, data)]

AfterGenerating(local) ==
    CASE ~AllGenerated(local)               -> [local EXCEPT !.at = "generate"]
      [] AllGenerated(local) /\ local.check -> [local EXCEPT !.at = "compare"]
      [] OTHER                              -> [local EXCEPT !.at = "open"]

Generate(c) ==
    /\ call[c].at = "generate"
    /\ LET data == NextDocument(call[c])
       IN  Continue(c, IF data = Failed THEN End(call[c], "error")
                       ELSE AfterGenerating(WithDocument(call[c], data)))

Target(c) == call[c].contracts[call[c].next].path

\* Mutant: the loop runs once too often.
PastLast(local) == local.next > Len(local.documents)

AtLast(local) == local.next = Len(local.documents)

\* The loops of runExport: the next document, or the end.
Advance(local, at) ==
    IF AtLast(local)
    THEN End(local, IF local.stale = {} THEN "ok" ELSE "stale")
    ELSE [local EXCEPT !.at = at, !.next = @ + 1]

\* What a write is to the others.
WriteBy(c, data, after) ==
    /\ files' = [files EXCEPT ![Target(c)] = data]
    /\ call' = [d \in Calls |-> IF d = c THEN after
                                ELSE [call[d] EXCEPT !.alone = FALSE, !.undisturbed = FALSE]]
    /\ UNCHANGED application

\* writeContract: the directory is made and the file opened, which empties it, ...
Open(c) ==
    /\ call[c].at = "open"
    /\ WriteBy(c, Torn, [call[c] EXCEPT !.at = "write"])

\* ... and then written.  If another call wrote it in between, the longer of the two
\* may stick out.
Write(c) ==
    /\ call[c].at = "write"
    /\ \E data \in {call[c].documents[call[c].next]}
                      \cup {f \in {Torn} : files[Target(c)] # Torn} :
          WriteBy(c, data, Advance(call[c], "open"))

\* Mutant: a file that cannot be written is passed over.
PassOver(local) == Advance(local, "open")

WriteError(local) == End(local, "error")

\* The directory, the open or the write fails; a failed write leaves the file torn.
WriteFails(c) ==
    /\ call[c].at \in {"open", "write"}
    /\ Continue(c, WriteError(call[c]))

\* Mutant: a missing file is nothing to compare.
DiffersIfPresent(file, data) == file \notin {Missing, data}

Differs(file, data) == file # data

Compare(c) ==
    /\ call[c].at = "compare"
    /\ LET stale == {p \in {Target(c)} : Differs(files[p], call[c].documents[call[c].next])}
       IN  Continue(c, Advance([call[c] EXCEPT !.stale = @ \cup stale], "compare"))

ReadFails(c) ==
    /\ call[c].at = "compare"
    /\ Continue(c, End(call[c], "error"))

ExportNext ==
    \/ \E contract \in Contracts : Declare(contract)
    \/ CaptureRouter
    \/ RegisterRoute
    \/ \E r \in Registries : Describe(r)
    \/ Die
    \/ \E c \in Calls :
          \/ \E check \in BOOLEAN : Run(c, check)
          \/ ReadTable(c) \/ ReadContracts(c) \/ Generate(c)
          \/ Open(c) \/ Write(c) \/ WriteFails(c)
          \/ Compare(c) \/ ReadFails(c)

ExportSpec == ExportInit /\ [][ExportNext]_vars

-----------------------------------------------------------------------------

(***************************************************************************)
(* "Two documents may not share a file", the module's own included.       *)
(***************************************************************************)
FilesAreNotShared ==
    \A i, j \in DOMAIN Exported : Exported[i].path = Exported[j].path => i = j

(***************************************************************************)
(* "No file is written unless every document generates.  With --check     *)
(* nothing is written": a call that checks, or that has not generated all *)
(* it exports, has left every file as it found it.                        *)
(***************************************************************************)
NothingIsWrittenEarly ==
    \A c \in Calls :
        call[c].alone /\ (call[c].check \/ ~(Len(call[c].documents) = Len(call[c].contracts)))
            => files = call[c].before

Exports(c) == call[c].result = "ok" /\ ~call[c].check

(***************************************************************************)
(* An export that succeeds while nobody else writes leaves every document *)
(* in its file, whatever an earlier export or a dead process left there,  *)
(* and no other file touched.                                              *)
(***************************************************************************)
ExportWritesEveryFile ==
    \A c \in Calls : Exports(c) /\ call[c].alone =>
        /\ \A i \in DOMAIN call[c].contracts :
              files[call[c].contracts[i].path] = call[c].documents[i]
        /\ \A p \in Paths \ {call[c].contracts[i].path : i \in DOMAIN call[c].contracts} :
              files[p] = call[c].before[p]

(***************************************************************************)
(* The files of one export describe one route table, even if routes and   *)
(* documentation are registered while it runs.                             *)
(***************************************************************************)
FilesAreOfOneTable ==
    \A c \in Calls : Exports(c) /\ call[c].alone =>
        \E t \in Versions : \A i \in DOMAIN call[c].contracts : \E v \in Versions :
            files[call[c].contracts[i].path] = Bytes(t, v, call[c].contracts[i])

(***************************************************************************)
(* --check "exits 1 naming each committed document that is missing or     *)
(* differs from the generated one": if nothing changed meanwhile, it names*)
(* exactly the files that do not hold the document of their contract, and *)
(* passes if there is none.                                                *)
(***************************************************************************)
CheckIsExact ==
    \A c \in Calls :
        call[c].check /\ call[c].undisturbed /\ call[c].result \in {"ok", "stale"} =>
            /\ call[c].stale =
                  {Exported[i].path : i \in {j \in DOMAIN Exported :
                      files[Exported[j].path] #
                          Bytes(table, content[Exported[j].registry], Exported[j])}}
            /\ call[c].result = "ok" <=> call[c].stale = {}
=============================================================================
