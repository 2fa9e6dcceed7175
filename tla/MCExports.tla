----------------------------- MODULE MCExports ------------------------------
(***************************************************************************)
(* The writers of files, each on its own instance: fixed and continuous    *)
(* pages (MCPageExport), the content of a PDF (MCPdfStream), CGM pictures  *)
(* (MCCgmPictures), raster tiles (MCRasterTiles), the background job that  *)
(* writes them (RasterExport) and table files (MCTableFiles). A behaviour  *)
(* belongs to one of them, its subject.                                    *)
(*                                                                         *)
(* The jobs are two of one process and one of another, all on one path.    *)
(***************************************************************************)
EXTENDS RasterExport, MCPageExport

CONSTANTS opaque, half, none, CrossSizes, j1, j2, j3, here, there, path, a, b, lost,
          null, plain, comma, metres, seconds

MCJobs == {j1, j2, j3}
MCPaths == {path}
MCProcesses == {here, there}
MCProcessOf == [j \in MCJobs |-> IF j = j3 THEN there ELSE here]

VARIABLES subject, clipped, layered, leaves, page, track, inside, layer, count,
          file, drawing, stage, options, at, commands, pictures, diag,
          request, tile, result, prev_row, archive, archive_offset, central,
          failed, sheets, manifest, export, exports

exports_vars ==
  <<subject, clipped, layered, leaves, page, track, inside, layer, count,
    file, drawing, stage, options, at, commands, pictures, diag, request,
    tile, result, prev_row, archive, archive_offset, central, failed,
    sheets, manifest, export, exports, pages_vars, vars>>

Pdf == INSTANCE MCPdfStream WITH pages <- leaves
Cgm == INSTANCE MCCgmPictures WITH scene <- drawing, phase <- stage
Image == INSTANCE MCRasterTiles
Tables == INSTANCE MCTableFiles WITH directory <- sheets

ASSUME /\ Pdf!PdfAssumption
       /\ Cgm!CgmAssumption
       /\ JobsAssumption

\* While one part is the subject, the variables of the others rest.
BesidePages ==
  <<clipped, layered, leaves, page, track, inside, layer, count, file,
    drawing, stage, options, at, commands, pictures, diag, request, tile,
    result, prev_row, archive, archive_offset, central, failed, sheets,
    manifest, export, exports, vars>>
BesidePdf ==
  <<drawing, stage, options, at, commands, pictures, diag, request, tile,
    result, prev_row, archive, archive_offset, central, failed, sheets,
    manifest, export, exports, pages_vars, vars>>
BesideCgm ==
  <<clipped, layered, leaves, page, track, inside, layer, count, file,
    request, tile, result, prev_row, archive, archive_offset, central,
    failed, sheets, manifest, export, exports, pages_vars, vars>>
BesideImage ==
  <<clipped, layered, leaves, page, track, inside, layer, count, file,
    drawing, stage, options, at, commands, pictures, diag, archive,
    archive_offset, central, failed, sheets, manifest, export, exports,
    pages_vars, vars>>
BesideJobs ==
  <<clipped, layered, leaves, page, track, inside, layer, count, file,
    drawing, stage, options, at, commands, pictures, diag, request, tile,
    result, prev_row, archive, archive_offset, central, failed, sheets,
    manifest, export, exports, pages_vars>>
BesideTables ==
  <<clipped, layered, leaves, page, track, inside, layer, count, file,
    drawing, stage, options, at, commands, pictures, diag, tile, result,
    prev_row, pages_vars, vars>>

\* The jobs at rest: none has started, and there is no file yet; the pages at
\* rest: no export has begun.
Quiet == Init /\ \A n \in Names : directory[n] = None
Unasked ==
  /\ scene = CHOOSE s \in Scenes : TRUE
  /\ spec = CHOOSE p \in PageSpecs : TRUE
  /\ resolved = {} /\ backend = "svg"
  /\ PagesInit

ExportsInit ==
  \/ /\ subject = "pages" /\ PagesInit
     /\ clipped = None /\ layered = None /\ leaves = None /\ page = None
     /\ track = None /\ inside = None /\ layer = None /\ count = None
     /\ file = None /\ drawing = None /\ stage = None /\ options = None
     /\ at = None /\ commands = None /\ pictures = None /\ diag = None
     /\ request = None /\ tile = None /\ result = None /\ prev_row = None
     /\ archive = None /\ archive_offset = None /\ central = None
     /\ failed = None /\ sheets = None /\ manifest = None /\ export = None
     /\ exports = None /\ Quiet
  \/ /\ subject = "pdf" /\ Pdf!Init
     /\ drawing = None /\ stage = None /\ options = None /\ at = None
     /\ commands = None /\ pictures = None /\ diag = None /\ request = None
     /\ tile = None /\ result = None /\ prev_row = None /\ archive = None
     /\ archive_offset = None /\ central = None /\ failed = None
     /\ sheets = None /\ manifest = None /\ export = None /\ exports = None
     /\ Quiet /\ Unasked
  \/ /\ subject = "cgm" /\ Cgm!Init
     /\ clipped = None /\ layered = None /\ leaves = None /\ page = None
     /\ track = None /\ inside = None /\ layer = None /\ count = None
     /\ file = None /\ request = None /\ tile = None /\ result = None
     /\ prev_row = None /\ archive = None /\ archive_offset = None
     /\ central = None /\ failed = None /\ sheets = None /\ manifest = None
     /\ export = None /\ exports = None /\ Quiet /\ Unasked
  \/ /\ subject = "tiles" /\ Image!Init
     /\ clipped = None /\ layered = None /\ leaves = None /\ page = None
     /\ track = None /\ inside = None /\ layer = None /\ count = None
     /\ file = None /\ drawing = None /\ stage = None /\ options = None
     /\ at = None /\ commands = None /\ pictures = None /\ diag = None
     /\ archive = None /\ archive_offset = None /\ central = None
     /\ failed = None /\ sheets = None /\ manifest = None /\ export = None
     /\ exports = None /\ Quiet /\ Unasked
  \/ /\ subject = "jobs" /\ Init
     /\ clipped = None /\ layered = None /\ leaves = None /\ page = None
     /\ track = None /\ inside = None /\ layer = None /\ count = None
     /\ file = None /\ drawing = None /\ stage = None /\ options = None
     /\ at = None /\ commands = None /\ pictures = None /\ diag = None
     /\ request = None /\ tile = None /\ result = None /\ prev_row = None
     /\ archive = None /\ archive_offset = None /\ central = None
     /\ failed = None /\ sheets = None /\ manifest = None /\ export = None
     /\ exports = None /\ Unasked
  \/ /\ subject = "tables" /\ Tables!Init
     /\ clipped = None /\ layered = None /\ leaves = None /\ page = None
     /\ track = None /\ inside = None /\ layer = None /\ count = None
     /\ file = None /\ drawing = None /\ stage = None /\ options = None
     /\ at = None /\ commands = None /\ pictures = None /\ diag = None
     /\ tile = None /\ result = None /\ prev_row = None /\ Quiet /\ Unasked

OfPages(Taken) == subject = "pages" /\ Taken /\ UNCHANGED <<subject, BesidePages>>
OfPdf(Taken) == subject = "pdf" /\ Taken /\ UNCHANGED <<subject, BesidePdf>>
OfCgm(Taken) == subject = "cgm" /\ Taken /\ UNCHANGED <<subject, BesideCgm>>
OfImage(Taken) == subject = "tiles" /\ Taken /\ UNCHANGED <<subject, BesideImage>>
OfJobs(Taken) == subject = "jobs" /\ Taken /\ UNCHANGED <<subject, BesideJobs>>
OfTables(Taken) == subject = "tables" /\ Taken /\ UNCHANGED <<subject, BesideTables>>

\* Two of the jobs start, and one of them fails for a cause of its own. The jobs
\* of a process are alike, and so are the processes: j1 is the first to start.
InTurn ==
  /\ (\E j \in Jobs : job[j].step # "unborn") => job[j1].step # "unborn"
  /\ Cardinality({j \in Jobs : job[j].cause}) <= 1

ExportsNext ==
  \/ OfPages(PagesNext)
  \/ OfPdf(Pdf!Next)
  \/ OfCgm(Cgm!Next)
  \/ OfImage(Image!Next)
  \/ OfJobs(Next /\ InTurn')
  \/ OfTables(Tables!Next)

ExportsSpec ==
  /\ ExportsInit /\ [][ExportsNext]_exports_vars
  /\ \A j \in Jobs : WF_exports_vars(OfJobs(Worker(j)))

-----------------------------------------------------------------------------
\* The names of a page's stream stand in the finished file for what the emitter
\* named with them; every mark is painted with its own item's colour, line or
\* pixels whatever was painted before it, a translucent one with its own alpha;
\* and no mark has the alpha of another track's (pdf_scene.cpp, pdf.cpp).
PdfPaintsEachItem ==
  subject = "pdf" =>
    /\ Pdf!NamesResolve
    /\ Pdf!OwnPaint
    /\ Pdf!AlphaStaysInTrack

\* A reader that follows the length fields of a metafile finds the commands
\* that were written; its curves have exactly the edges that lie on their page;
\* what is on a page fits 16-bit coordinates without clamping; hatches stay in
\* their box; every line has its own ink; headers do not overlap (cgm.cpp).
PicturesKeepTheScene ==
  subject = "cgm" =>
    /\ Cgm!MetafileReadsBack
    /\ Cgm!CurvesKeepTheirEdges
    /\ Cgm!PageFitsItsExtent
    /\ Cgm!HatchStaysInside
    /\ Cgm!InkIsOwn
    /\ Cgm!HeadersApart

\* However a page is cut into tiles the image is that of a single tile, but for
\* the ends of crosses that outgrow the margin they are culled by, and it reads
\* back from the filtered rows of a PNG and the packed strips of a TIFF
\* (raster_export.cpp).
RasterReadsBack ==
  subject = "tiles" =>
    /\ Image!TilesComposeTheImage
    /\ Image!PngReadsBack
    /\ Image!StripsReadBack

\* Slices of a table read back from CSV with their missing samples, every other
\* sample as itself unless its number is the null token; every row is on one
\* sheet of the workbook, the directory of the archive leads to every
\* part of it, a manifest lists no table that is not there, and after a success
\* all it lists is of that export (csv.cpp, xlsx.cpp, zip_writer.cpp).
TablesReadBack ==
  subject = "tables" =>
    /\ Tables!CsvReadsBack
    /\ Tables!SheetsHoldEveryRow
    /\ Tables!DirectoryLeadsToParts
    /\ Tables!ManifestedTablesExist
    /\ Tables!SuccessIsWhole
=============================================================================
