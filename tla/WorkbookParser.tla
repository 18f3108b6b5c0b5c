--------------------------- MODULE WorkbookParser ----------------------------
(***************************************************************************)
(* The parser the quotation jobs call (module QuotationIntake): the        *)
(* archive is inspected before anything reads it, the workbook is parsed   *)
(* in a child process with a deadline and a bounded answer, and what the   *)
(* child says becomes the scenarios of the quotation.                      *)
(***************************************************************************)
EXTENDS WorkbookSheets, Integers, FiniteSets, Sequences

CONSTANTS
    Uploads,            \* bound: the files a job may be given
    MaxBytes, MaxExpandedBytes, MaxEntries, MaxRatio,
    MaxSheets, MaxRows, MaxColumns, MaxCells,
    MaxOutput           \* chunks of output taken from the child

VARIABLES
    upload,      \* the file: an archive, the workbook it holds, and how many
                 \* chunks the envelope of what it parses to is
    inventory,   \* what inspecting the archive has found
    child,       \* the process, and what it has written
    pipe,        \* chunks written and not yet received
    received,    \* chunks received
    outcome,     \* what the runner answers: one of its codes
    answer       \* what the caller gets

vars == <<upload, inventory, child, pipe, received, outcome, answer>>

None == "none"

------------------------------------------------------------------------------
(* Inspecting the archive *)

\* An entry has its part, whether its name is safe, its method, its two sizes
\* and its text, which is read only where the preflight reads it.
NotInspected == [step |-> "closed", at |-> 1, parts |-> {}, expanded |-> 0, compressed |-> 0]

\* What entryRejection lets pass; the reasons for a refusal are not told apart.
EntryAccepted(entry, found) ==
    /\ entry.named = "safely" /\ entry.part \notin found.parts
    /\ entry.method \in {"stored", "deflated"}
    /\ Cardinality(found.parts) + 1 <= MaxEntries
    /\ found.expanded + entry.expanded <= MaxExpandedBytes
    /\ found.compressed + entry.compressed <= MaxBytes
    /\ entry.compressed > 0 => entry.expanded <= MaxRatio * entry.compressed

Required == {"[content_types].xml", "xl/workbook.xml", "xl/_rels/workbook.xml.rels"}

Part(archive, name) ==
    CHOOSE entry \in {archive.entries[n] : n \in DOMAIN archive.entries} :
        entry.part = name

Readable(archive, name) == Part(archive, name).text = "good"

\* validateOoxmlGraph.
GraphValid(archive, found) ==
    /\ Required \subseteq found.parts
    /\ \A name \in Required : Readable(archive, name)
    /\ \A n \in DOMAIN archive.targets : archive.targets[n] # "unsafe"
    /\ Len(archive.targets) \in 1 .. MaxSheets
    /\ \A n \in DOMAIN archive.targets : archive.targets[n] \in found.parts

Cells(rows) == UNION {{<<i, c>> : c \in {d \in DOMAIN rows[i] : rows[i][d] # Blank}} :
                          i \in DOMAIN rows}

\* validateWorksheetLimits: rows and columns by the sheet, cells by the book.
WorksheetsWithin(up) ==
    LET cells(n) == Cells(up.workbook[n].rows)
        total[n \in 0 .. Len(up.workbook)] ==
            IF n = 0 THEN 0 ELSE total[n - 1] + Cardinality(cells(n))
    IN /\ \A n \in DOMAIN up.archive.targets :
              Readable(up.archive, up.archive.targets[n])
       /\ total[Len(up.workbook)] <= MaxCells
       /\ \A n \in DOMAIN up.workbook : \A at \in cells(n) :
              at[1] <= MaxRows /\ at[2] <= MaxColumns

Refuse == answer' = "preflight_rejected" /\ inventory' = [inventory EXCEPT !.step = "done"]

Unspawned == UNCHANGED <<upload, child, pipe, received, outcome>>

OpenArchive ==
    /\ inventory.step = "closed"
    /\ IF upload.archive.size > MaxBytes \/ ~upload.archive.zip
       THEN Refuse
       ELSE /\ inventory' = [inventory EXCEPT !.step = "open"]
            /\ UNCHANGED answer
    /\ Unspawned

\* One entry event; the archive's end goes on to the parts inside.
InspectEntry ==
    /\ inventory.step = "open"
    /\ inventory.at <= Len(upload.archive.entries)
    /\ LET entry == upload.archive.entries[inventory.at]
       IN IF ~EntryAccepted(entry, inventory)
          THEN Refuse
          ELSE /\ inventory' = [step       |-> "open",
                                at         |-> inventory.at + 1,
                                parts      |-> inventory.parts \cup {entry.part},
                                expanded   |-> inventory.expanded + entry.expanded,
                                compressed |-> inventory.compressed + entry.compressed]
               /\ UNCHANGED answer
    /\ Unspawned

InspectParts ==
    /\ inventory.step = "open"
    /\ inventory.at > Len(upload.archive.entries)
    /\ IF GraphValid(upload.archive, inventory) /\ WorksheetsWithin(upload)
       THEN inventory' = [inventory EXCEPT !.step = "done"] /\ UNCHANGED answer
       ELSE Refuse
    /\ Unspawned

------------------------------------------------------------------------------
(* The child process *)

NoChild == [state |-> "none", code |-> 0, written |-> 0, length |-> 0]

Settled == outcome # None

\* finish: the first to settle is the answer.
Finish(code) == outcome' = IF Settled THEN outcome ELSE code

Kill == IF child.state = "running" THEN [child EXCEPT !.state = "killed"] ELSE child

InspectedAs == UNCHANGED <<upload, inventory, answer>>

Spawn ==
    /\ inventory.step = "done" /\ answer = None /\ child.state = "none" /\ ~Settled
    /\ IF upload.archive.size > MaxBytes
       THEN Finish("input_limit") /\ UNCHANGED child
       ELSE \/ /\ child' = [child EXCEPT !.state = "running"]
               /\ UNCHANGED outcome
            \/ Finish("spawn_error") /\ UNCHANGED child
    /\ UNCHANGED <<pipe, received>> /\ InspectedAs

\* The child has read its input and parsed it.
Parse ==
    /\ child.state = "running" /\ child.length = 0
    /\ child' = [child EXCEPT !.length = upload.chunks]
    /\ UNCHANGED <<pipe, received, outcome>> /\ InspectedAs

Write ==
    /\ child.state = "running" /\ child.written < child.length
    /\ child' = [child EXCEPT !.written = @ + 1]
    /\ pipe' = pipe + 1
    /\ UNCHANGED <<received, outcome>> /\ InspectedAs

Exit ==
    /\ child.state = "running" /\ child.length > 0 /\ child.written = child.length
    /\ child' = [child EXCEPT !.state = "exited"]
    /\ UNCHANGED <<pipe, received, outcome>> /\ InspectedAs

\* The workbook library throws, or the process dies, at whatever point.
Crash ==
    /\ child.state = "running"
    /\ child' = [child EXCEPT !.state = "exited", !.code = 1]
    /\ UNCHANGED <<pipe, received, outcome>> /\ InspectedAs

------------------------------------------------------------------------------
(* runParserIsolated: its events, in whatever order they come *)

Data ==
    /\ pipe > 0
    /\ pipe' = pipe - 1
    /\ received' = received + 1
    /\ IF received + 1 > MaxOutput
       THEN child' = Kill /\ Finish("output_limit")
       ELSE UNCHANGED <<child, outcome>>
    /\ InspectedAs

Deadline ==
    /\ child.state # "none" /\ ~Settled
    /\ child' = Kill
    /\ Finish("timeout")
    /\ UNCHANGED <<pipe, received>> /\ InspectedAs

\* Mutant: the exit is taken for the end of the output.
EndedAtExit == child.state \in {"exited", "killed"}

\* The close event comes after the exit, when the output has been read.
Ended == child.state \in {"exited", "killed"} /\ pipe = 0

Close ==
    /\ Ended /\ ~Settled
    /\ Finish(IF child.code = 0 /\ child.state = "exited" THEN "ok" ELSE "crash")
    /\ UNCHANGED <<child, pipe, received>> /\ InspectedAs

------------------------------------------------------------------------------
(* IsolatedWorkbookParser.parse *)

Scenarios == ParsedWorkbook(upload.workbook)

\* A cut envelope is no JSON.  Any other has the shape the parent asks for: the
\* sizes its schema allows a workbook are left out.
Answer ==
    /\ Settled /\ answer = None
    /\ answer' = IF outcome # "ok" THEN outcome
                 ELSE IF received < child.length THEN "invalid_json"
                 ELSE IF RequiresInterpretation(Scenarios) THEN "to_interpret"
                 ELSE "parsed"
    /\ UNCHANGED <<upload, inventory, child, pipe, received, outcome>>

Init ==
    /\ upload \in Uploads
    /\ inventory = NotInspected
    /\ child = NoChild
    /\ pipe = 0 /\ received = 0
    /\ outcome = None /\ answer = None

Next ==
    \/ OpenArchive \/ InspectEntry \/ InspectParts
    \/ Spawn \/ Parse \/ Write \/ Exit \/ Crash
    \/ Data \/ Deadline \/ Close \/ Answer

Spec == Init /\ [][Next]_vars

------------------------------------------------------------------------------
Parsed == answer \in {"parsed", "to_interpret"}

(* Wherever blank rows, repeated products and footers fall, each product row   *)
(* of a visible sheet is a line of exactly one scenario, no scenario holds a   *)
(* line that is none, and none names a product twice: the buyer is offered     *)
(* the supplier's whole table, once.                                          *)
EveryRowInOneScenario ==
    Parsed =>
        LET held == [at \in DOMAIN Scenarios |-> {line.row : line \in Scenarios[at].lines}]
        IN \A k \in DOMAIN upload.workbook :
               LET sheet == upload.workbook[k]
                   table == Table(sheet.rows)
                   own   == {at \in DOMAIN held : at[1] = k}
                   rows  == IF sheet.visible THEN ProductRows(table) ELSE {}
               IN /\ \A i \in rows : Cardinality({at \in own : i \in held[at]}) = 1
                  /\ \A at \in own : held[at] \subseteq rows /\ NamedOnce(table, held[at])

(* In whatever order the child's output, its exit, the deadline and the output *)
(* limit come, a child that ended well is answered with all it wrote: a        *)
(* workbook is never refused for an answer the parent cut itself.             *)
AnswerIsWhole ==
    /\ outcome = "ok" => received = child.length /\ child.state = "exited"
    /\ answer # "invalid_json"
==============================================================================
