----------------------------- MODULE TableFiles -----------------------------
(***************************************************************************)
(* Tables and the files made of them: the projections of a document        *)
(* (src/src/table/table_projection.cpp), a CSV package in a directory      *)
(* (src/src/export_table/csv.cpp) and an XLSX workbook, which is a ZIP     *)
(* archive written as it goes (xlsx.cpp, zip_writer.cpp).                  *)
(*                                                                         *)
(* A sample is a number or None.  A CSV field is a text and whether it is  *)
(* quoted; texts are numbers and words.  An archive is a sequence of the   *)
(* headers it is made of, each with the number of its first byte.          *)
(***************************************************************************)
EXTENDS Integers, Sequences, FiniteSets, FiniteSetsExt, SequencesExt

CONSTANTS Requests,      \* see the MC module
          None,
          ExcelRows,     \* excel_max_rows_per_sheet
          HeaderRows,    \* 2
          MaximumEntry,  \* max_entry_bytes
          MaxExports     \* bound: exports into one directory

\* Bytes of the headers of an archive, without the names they carry.
LocalHeader == 30
CentralHeader == 46
EndOfDirectory == 22

VARIABLES
    request,
    archive, archive_offset, central, failed,   \* StreamingZipSink
    directory, manifest,                        \* a package on disk
    export, exports                             \* the one that goes on, how many there were

zip == <<archive, archive_offset, central, failed>>
disk == <<directory, manifest, export, exports>>
vars == <<request, zip, disk>>

----------------------------------------------------------------------------
(* Projections.  A document is axes with their lengths, and curves with    *)
(* their axis, their samples and the rows that the QC policy suppresses.   *)

AxesOf(document) == {a.id : a \in Range(document.axes)}

(* Axes in the order in which a curve first names them; a curve whose axis *)
(* the document lacks is in no table.  Column 0 is the depth.              *)
from_document(document) ==
    LET aligned == SelectSeq(document.curves, LAMBDA c : c.axis \in AxesOf(document))
        axis_order == FoldLeft(LAMBDA seen, c : IF Contains(seen, c.axis) THEN seen
                                                ELSE Append(seen, c.axis), <<>>, aligned)
        length(id) == (CHOOSE a \in Range(document.axes) : a.id = id).length
    IN [i \in DOMAIN axis_order |->
          [axis |-> axis_order[i], row_offset |-> 0, row_count |-> length(axis_order[i]),
           columns |-> SelectSeq(aligned, LAMBDA c : c.axis = axis_order[i])]]

slice(table, first, last) ==
    LET from == Min({first, table.row_count})
        to == Min({last, table.row_count})
    IN IF table.row_count = 0 THEN table
       ELSE [table EXCEPT !.row_offset = table.row_offset + from,
                          !.row_count = Max({0, to - from})]

(* Rows count from 0.  A curve may be shorter than its axis.               *)
read_buffer_cell(samples, row) == IF row < Len(samples) THEN samples[row + 1] ELSE None

\* A plausible slip.
cellOfSlice(table, row, col) ==
    LET curve == table.columns[col]
    IN IF row \in curve.suppressed THEN None
       ELSE read_buffer_cell(curve.samples, table.row_offset + row)

cell(table, row, col) ==
    LET curve == table.columns[col]
        source_row == table.row_offset + row
    IN IF source_row \in curve.suppressed THEN None
       ELSE read_buffer_cell(curve.samples, source_row)

----------------------------------------------------------------------------
(* CSV.                                                                    *)

append_field(text, special, null_token) ==
    [text |-> text, quoted |-> text = null_token \/ text \in special]

(* A row of names, then the cells; special are the texts with a delimiter, *)
(* a quote or a line break in them.                                        *)
stream_csv(table, special, null_token) ==
    <<[c \in DOMAIN table.columns |-> append_field(table.columns[c].name, special, null_token)]>>
    \o [r \in 1 .. table.row_count |->
          [c \in DOMAIN table.columns |->
             LET value == cell(table, r - 1, c)
             IN [text |-> IF value = None THEN null_token ELSE value, quoted |-> FALSE]]]

(* What a reader that knows the token makes of a field.                    *)
FieldRead(field, null_token) ==
    IF ~field.quoted /\ field.text = null_token THEN None ELSE field.text

----------------------------------------------------------------------------
(* XLSX.                                                                   *)

\* A plausible slip.
data_ceilingOfSheet(excel) == excel

data_ceiling(excel) == excel - HeaderRows

(* The sheets of a table: as many as its rows need, one if it has none.    *)
SheetPlans(table) ==
    LET ceiling == data_ceiling(ExcelRows)
        parts == Max({1, (table.row_count + ceiling - 1) \div ceiling})
    IN [k \in 1 .. parts |->
          [axis |-> table.axis, start |-> (k - 1) * ceiling,
           end |-> Min({k * ceiling, table.row_count}), table |-> table]]

sheet_plans(document) ==
    LET tables == from_document(document)
    IN FlattenSeq([t \in DOMAIN tables |-> SheetPlans(tables[t])])

build_worksheet_body(plan) ==
    [r \in 1 .. plan.end - plan.start |->
        [c \in DOMAIN plan.table.columns |-> cell(plan.table, plan.start + r - 1, c)]]

(* XML: the depth frame that all axes share, or none, then the tables.     *)
stream_xml(document) ==
    LET tables == from_document(document)
        frames == {a.unit : a \in Range(document.axes)}
    IN [frame |-> IF Cardinality(frames) = 1 THEN CHOOSE f \in frames : TRUE ELSE None,
        tables |-> [t \in DOMAIN tables |->
           [axis |-> tables[t].axis,
            rows |-> [r \in 1 .. tables[t].row_count |->
                        [c \in DOMAIN tables[t].columns |-> cell(tables[t], r - 1, c)]]]]]

(* The parts of the workbook in their order, with their sizes: types,      *)
(* relations, workbook, its relations, a part per sheet and the metadata.  *)
Parts(document) ==
    <<1, 1, 1, 1>>
    \o [s \in DOMAIN sheet_plans(document) |->
          HeaderRows + sheet_plans(document)[s].end - sheet_plans(document)[s].start]
    \o <<1 + Len(sheet_plans(document))>>

(* The name of part k and its length.                                      *)
NameLength(k) == IF k <= 4 THEN 10 + k ELSE 24

\* A plausible slip.
add_entryOffsetByPayload(k, size) ==
    LET entry == [part |-> k, size |-> size, local_header_offset |-> archive_offset]
    IN IF failed \/ size > MaximumEntry
         THEN failed' = TRUE /\ UNCHANGED <<archive, archive_offset, central>>
         ELSE /\ archive' = archive \o <<[is |-> "local", part |-> k,
                  bytes |-> LocalHeader + NameLength(k) + size, payload |-> size]>>
              /\ archive_offset' = archive_offset + LocalHeader + size
              /\ central' = Append(central, entry)
              /\ UNCHANGED failed

(* StreamingZipSink::add_entry: a refused entry spoils the archive.        *)
add_entry(k, size) ==
    LET entry == [part |-> k, size |-> size, local_header_offset |-> archive_offset]
    IN IF failed \/ size > MaximumEntry
         THEN failed' = TRUE /\ UNCHANGED <<archive, archive_offset, central>>
         ELSE /\ archive' = archive \o <<[is |-> "local", part |-> k,
                  bytes |-> LocalHeader + NameLength(k) + size, payload |-> size]>>
              /\ archive_offset' = archive_offset + LocalHeader + NameLength(k) + size
              /\ central' = Append(central, entry)
              /\ UNCHANGED failed

(* The directory and its end.  The size is taken when the end's first      *)
(* twelve bytes are in the buffer already, less the end's twenty-two.      *)
EndAlready == 12

RecordedSize(bytes_of_directory) == bytes_of_directory + EndAlready - EndOfDirectory

finalize ==
    LET records == [e \in DOMAIN central |->
                      [is |-> "central", part |-> central[e].part,
                       bytes |-> CentralHeader + NameLength(central[e].part),
                       offset |-> central[e].local_header_offset]]
        bytes_of_directory == FoldLeft(LAMBDA n, r : n + r.bytes, 0, records)
    IN /\ archive' = archive \o records
              \o <<[is |-> "end", bytes |-> EndOfDirectory, entries |-> Len(central),
                    size |-> RecordedSize(bytes_of_directory), start |-> archive_offset]>>
       /\ archive_offset' = archive_offset + bytes_of_directory + EndOfDirectory
       /\ UNCHANGED <<central, failed>>

AddPart ==
    /\ request.of = "workbook" /\ ~failed /\ Len(central) < Len(Parts(request.document))
    /\ add_entry(Len(central) + 1, Parts(request.document)[Len(central) + 1])
    /\ UNCHANGED <<request, disk>>

Finalize ==
    /\ request.of = "workbook" /\ ~failed
    /\ Len(central) = Len(Parts(request.document)) /\ Len(archive) = Len(central)
    /\ finalize
    /\ UNCHANGED <<request, disk>>

----------------------------------------------------------------------------
(* CsvPackageExporter::write_to_directory.  Every file is written whole or *)
(* not at all (RasterExport.tla); an export that fails, or whose process   *)
(* dies, leaves what it has written.                                       *)

Idle == [revision |-> 0, tables |-> <<>>, written |-> 0, state |-> "idle"]

write_to_directory ==
    /\ request.of = "package" /\ exports < MaxExports /\ export.state # "running"
    /\ exports' = exports + 1
    /\ \E document \in request.documents :
          export' = [revision |-> exports + 1, tables |-> from_document(document),
                     written |-> 0, state |-> "running"]
    /\ UNCHANGED <<request, zip, directory, manifest>>

\* A plausible slip.
WriteTableUnlessThere ==
    LET table == export.tables[export.written + 1]
    IN /\ export.state = "running" /\ export.written < Len(export.tables)
       /\ directory' = [directory EXCEPT ![table.axis] = IF @ = 0 THEN export.revision ELSE @]
       /\ export' = [export EXCEPT !.written = export.written + 1]
       /\ UNCHANGED <<request, zip, manifest, exports>>

WriteTable ==
    LET table == export.tables[export.written + 1]
    IN /\ export.state = "running" /\ export.written < Len(export.tables)
       /\ directory' = [directory EXCEPT ![table.axis] = export.revision]
       /\ export' = [export EXCEPT !.written = export.written + 1]
       /\ UNCHANGED <<request, zip, manifest, exports>>

\* A plausible slip.
WriteManifestFirst ==
    /\ export.state = "running"
    /\ manifest' = [revision |-> export.revision,
                    files |-> {t.axis : t \in Range(export.tables)}]
    /\ export' = [export EXCEPT !.state =
                    IF export.written = Len(export.tables) THEN "succeeded" ELSE "running"]
    /\ UNCHANGED <<request, zip, directory, exports>>

WriteManifest ==
    /\ export.state = "running" /\ export.written = Len(export.tables)
    /\ manifest' = [revision |-> export.revision,
                    files |-> {t.axis : t \in Range(export.tables)}]
    /\ export' = [export EXCEPT !.state = "succeeded"]
    /\ UNCHANGED <<request, zip, directory, exports>>

FailExport ==
    /\ export.state = "running"
    /\ export' = [export EXCEPT !.state = "failed"]
    /\ UNCHANGED <<request, zip, directory, manifest, exports>>

----------------------------------------------------------------------------
Init ==
    /\ request \in Requests
    /\ archive = <<>> /\ archive_offset = 0 /\ central = <<>> /\ failed = FALSE
    /\ directory = [a \in (IF request.of = "package"
                             THEN UNION {AxesOf(d) : d \in request.documents} ELSE {}) |-> 0]
    /\ manifest = [revision |-> 0, files |-> {}]
    /\ export = Idle /\ exports = 0

Next == \/ AddPart \/ Finalize
        \/ write_to_directory \/ WriteTable \/ WriteManifest \/ FailExport

Spec == Init /\ [][Next]_vars

----------------------------------------------------------------------------
(* The sample a row and a column of an axis stand for.                     *)
Sample(curve, row) == IF row \in curve.suppressed \/ row >= Len(curve.samples) THEN None
                      ELSE curve.samples[row + 1]

(* A slice of a table, and a slice of that, holds the samples of its       *)
(* source rows, QC applied to the source rows too.  In CSV a missing       *)
(* sample reads back as one, and a column's name never does, even a name   *)
(* that is the null token; a sample reads back as itself unless its number *)
(* is the token: numbers are never quoted, and such a sample reads back as *)
(* missing (csv.cpp:118-124, against csv.cpp:3-6 and 53-57).               *)
CsvReadsBack ==
    request.of = "csv" =>
        \A t \in DOMAIN from_document(request.document), first, last \in 0 .. 2 :
            LET whole == from_document(request.document)[t]
                table == slice(slice(whole, first, 3), 0, last)
                file == stream_csv(table, request.special, request.null_token)
                AsRead(sample) == IF sample = request.null_token THEN None ELSE sample
            IN /\ Len(file) = 1 + Min({last, Max({0, Min({3, whole.row_count}) - first})})
               /\ \A c \in DOMAIN table.columns :
                    /\ FieldRead(file[1][c], request.null_token) = table.columns[c].name
                    /\ \A r \in 2 .. Len(file) :
                         FieldRead(file[r][c], request.null_token)
                             = AsRead(Sample(table.columns[c], first + r - 2))

(* Every row of every aligned curve is on one sheet and in its place, no   *)
(* sheet has more rows than Excel reads, and the XML of the same document  *)
(* has the same rows, in a depth frame that every axis of it has.          *)
SheetsHoldEveryRow ==
    request.of = "workbook" =>
        LET plans == sheet_plans(request.document)
            xml == stream_xml(request.document)
            rows(t) == [r \in 1 .. t.row_count |->
                          [c \in DOMAIN t.columns |-> Sample(t.columns[c], r - 1)]]
        IN /\ \A s \in DOMAIN plans : HeaderRows + Len(build_worksheet_body(plans[s])) <= ExcelRows
           /\ xml.frame # None => \A x \in Range(request.document.axes) : x.unit = xml.frame
           /\ \A t \in Range(from_document(request.document)) :
                /\ FlattenSeq([s \in DOMAIN plans |->
                                 IF plans[s].axis = t.axis THEN build_worksheet_body(plans[s])
                                                           ELSE <<>>]) = rows(t)
                /\ [axis |-> t.axis, rows |-> rows(t)] \in Range(xml.tables)

FirstByte(i) == FoldLeft(LAMBDA n, r : n + r.bytes, 0, SubSeq(archive, 1, i - 1))
Complete == archive # <<>> /\ archive[Len(archive)].is = "end"

(* The directory of a finished archive leads to the local header of every  *)
(* part of the workbook, and its end to the directory.                     *)
DirectoryLeadsToParts ==
    Complete =>
        LET end == archive[Len(archive)]
            records == {i \in DOMAIN archive : archive[i].is = "central"}
        IN /\ Cardinality(records) = end.entries /\ end.entries = Len(Parts(request.document))
           /\ FirstByte(Min(records)) = end.start
           /\ \A i \in records : \E h \in DOMAIN archive :
                /\ archive[h].is = "local" /\ archive[h].part = archive[i].part
                /\ FirstByte(h) = archive[i].offset

(* The end of the directory records its size, as that of a valid archive   *)
(* does: "Produces a valid ZIP archive" (zip_writer.hpp:4).                *)
DirectoryIsMeasured ==
    Complete =>
        LET end == archive[Len(archive)]
        IN end.start + end.size = FirstByte(Len(archive))

(* Whatever fails on the way, a manifest lists no table that the directory *)
(* lacks.                                                                  *)
ManifestedTablesExist == \A a \in manifest.files : directory[a] > 0

(* When an export has succeeded, the manifest and all it lists are its     *)
(* own, whatever the exports before it left.                               *)
SuccessIsWhole ==
    export.state = "succeeded" =>
        /\ manifest.revision = export.revision
        /\ \A a \in manifest.files : directory[a] = export.revision

(* The tables that a manifest lists are of the manifest's revision: an     *)
(* export that fails half way over an older package breaks this.           *)
PackageIsOfOneRevision == \A a \in manifest.files : directory[a] = manifest.revision
=============================================================================
