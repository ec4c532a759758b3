------------------------------ MODULE Prepare ------------------------------
(***************************************************************************)
(* Preparing one photograph on the owner's device (prepare.ts): decode it, *)
(* downscaled where the browser does that, draw and encode the asset and   *)
(* the thumbnail, keep of each JPEG what an image needs (jpeg-filter.ts),  *)
(* and confirm by its bytes that nothing else is left (jpeg-scan.ts).      *)
(*                                                                         *)
(* A JPEG is the sequence of its pieces after SOI: marker segments, and    *)
(* what stands between them.  A piece has a kind, what signature its bytes *)
(* hold, and for a frame its size.  Sizes are long edges, each with the    *)
(* orientation it is seen in.                                              *)
(***************************************************************************)
EXTENDS Integers, Sequences, SequencesExt

CONSTANT MaxPieces    \* of a JPEG the browser encoded

ASSUME PrepareAssumption == MaxPieces \in Nat

Absent == "none"
Nothing == <<>>       \* no JPEG

\* Markers: APP0 (JFIF or foreign), APP1 (Exif, XMP, other), APP2 (ICC or
\* foreign), other APPn, COM; tables; a frame; a frame no canvas writes; a
\* scan's header; a restart; bytes of no marker; a segment cut short.
Kinds == {"JFIF", "APP0", "Exif", "XMP", "APP1", "ICC", "APP2", "APPn", "COM",
          "tables", "frame", "oddFrame", "scan", "RST", "bytes", "cut", "EOI"}

Piece(kind, sig, size) == [kind |-> kind, sig |-> sig, size |-> size]

-----------------------------------------------------------------------------
(***************************************************************************)
(* jpeg-scan.ts and jpeg-filter.ts                                         *)
(***************************************************************************)
\* Entropy-coded data runs from a scan's header to the next marker that is
\* not a restart: bytes and restarts there belong to the scan.
InScan(b, i) ==
    /\ b[i].kind \in {"RST", "bytes"}
    /\ \E s \in 1..(i - 1) : b[s].kind = "scan" /\ \A j \in (s + 1)..i : b[j].kind \in {"RST", "bytes"}

\* Searched over the whole file, wherever it is.
SIGNATURES == {"exif", "xmp", "gps"}

Frames == {"frame"}

segmentFinding(kind) ==
    CASE kind \in {"JFIF", "ICC", "tables", "scan"} \cup Frames -> Absent
      [] kind = "Exif" -> "exif"
      [] kind = "XMP" -> "xmp"
      [] kind = "COM" -> "comment"
      [] kind \in {"APP0", "APP1", "APP2", "APPn", "oddFrame"} -> "app-segment"
      [] kind \in {"RST", "bytes", "cut"} -> "malformed"

FrameBefore(b, i) == {j \in 1..(i - 1) : b[j].kind \in Frames}

\* The first piece the walk stops at, and what it says there.
Stops(b, i) == ~InScan(b, i) /\ (b[i].kind = "EOI" \/ segmentFinding(b[i].kind) # Absent)

Scanned(ok, finding, size) == [ok |-> ok, finding |-> finding, size |-> size]

Walk(b) ==
    LET stops == {j \in DOMAIN b : Stops(b, j)}
        i == Min(stops) IN
    IF stops = {} THEN Scanned(FALSE, "malformed", 0)
    ELSE IF b[i].kind # "EOI" THEN Scanned(FALSE, segmentFinding(b[i].kind), 0)
    ELSE IF FrameBefore(b, i) = {} THEN Scanned(FALSE, "malformed", 0)
    ELSE IF i < Len(b) THEN Scanned(FALSE, "trailing-data", 0)
    ELSE Scanned(TRUE, Absent, b[CHOOSE j \in FrameBefore(b, i) : \A k \in FrameBefore(b, i) : k <= j].size)

scanJpeg_Mutant(b) == Walk(b)

scanJpeg(b) ==
    IF \E i \in DOMAIN b : b[i].sig \in SIGNATURES
    THEN Scanned(FALSE, b[CHOOSE i \in DOMAIN b : b[i].sig \in SIGNATURES].sig, 0)
    ELSE Walk(b)

Kept == {"tables", "JFIF", "scan"} \cup Frames
Dropped == {"APP0", "Exif", "XMP", "APP1", "ICC", "APP2", "APPn", "COM"}

Whole(b, j) == b[j].kind \in Kept \/ InScan(b, j)

\* What is kept of the first j pieces, for every j.
Keeping(b) ==
    LET kept[j \in 0..Len(b)] ==
            IF j = 0 THEN <<>> ELSE IF Whole(b, j) THEN Append(kept[j - 1], b[j]) ELSE kept[j - 1]
    IN kept

\* Null for a file it cannot take apart, or with a segment an image could need.
keepImageSegments(b) ==
    LET ends == {j \in DOMAIN b : b[j].kind = "EOI"}
        last == Min(ends) - 1 IN
    IF \/ ends = {}
       \/ FrameBefore(b, last + 1) = {}
       \/ \E j \in 1..last : ~Whole(b, j) /\ b[j].kind \notin Dropped
    THEN Nothing
    ELSE Append(Keeping(b)[last], Piece("EOI", Absent, 0))

-----------------------------------------------------------------------------
(***************************************************************************)
(* prepare.ts                                                              *)
(***************************************************************************)
\* ASSET_LONG_EDGE 1600 and THUMB_LONG_EDGE 480, to scale; shapes keep apart
\* a portrait from a landscape.
ASSET_LONG_EDGE == 2
THUMB_LONG_EDGE == 1
Shapes == {"landscape", "portrait"}
fitLongEdge(size, max) == IF size <= max THEN size ELSE max

VARIABLES
    file,       \* the original: [frame: its stored long edge or Absent, edge, shape]
    bitmaps,    \* the long edges of the bitmaps open
    at,         \* where prepare has got to
    made,       \* [asset, thumb]: the JPEGs in memory, or Absent
    result      \* Absent, ok, or the error

prepareVars == <<file, bitmaps, at, made, result>>

Frame == file.frame

\* A frame of the file's first bytes: absent when it is no JPEG, or when the
\* frame is not within them.
Files == {f \in [frame : {Absent, "read"}, edge : 1..3, shape : Shapes] : TRUE}

NoneMade == [asset |-> Nothing, thumb |-> Nothing]

NothingPrepared ==
    /\ file = Absent /\ bitmaps = {} /\ at = "off"
    /\ made = NoneMade
    /\ result = Absent

ChooseFile(f) ==
    /\ at = "off" /\ result = Absent
    /\ file' = f
    /\ at' = IF f.frame # Absent /\ f.edge > ASSET_LONG_EDGE THEN "width" ELSE "full"
    /\ UNCHANGED <<bitmaps, made, result>>

Finishes(how) ==
    /\ at' = "over" /\ result' = how

\* What the browser may give for a decode: the edge asked for or another, in
\* the file's shape or squashed; a decode may also throw.
Decoded(edges) == [edge : edges, right : BOOLEAN, shape : Shapes]

DecodeThrows ==
    /\ at \in {"width", "height", "full"}
    /\ Finishes("not-decoded")
    /\ UNCHANGED <<file, bitmaps, made>>

\* The width at the long edge's length; a portrait, once oriented, is asked
\* for again by its height. A bitmap not returned is closed.
DecodeWidth ==
    /\ at = "width"
    /\ \E b \in Decoded(1..3) :
           IF b.shape = "portrait" THEN at' = "height" /\ UNCHANGED <<bitmaps, file>>
           ELSE IF b.edge = ASSET_LONG_EDGE /\ b.right THEN at' = "size" /\ bitmaps' = {b.edge} /\ file' = Absent
           ELSE at' = "full" /\ UNCHANGED <<bitmaps, file>>
    /\ UNCHANGED <<made, result>>

DecodeHeight ==
    /\ at = "height"
    /\ \E b \in Decoded(1..3) :
           IF b.edge = ASSET_LONG_EDGE /\ b.right THEN at' = "size" /\ bitmaps' = {b.edge} /\ file' = Absent
           ELSE at' = "full" /\ UNCHANGED <<bitmaps, file>>
    /\ UNCHANGED <<made, result>>

\* Whole: held against the stored frame, where one was read.
DecodeFull ==
    /\ at = "full"
    /\ \E b \in Decoded(0..3) :
           IF (Frame # Absent /\ (b.edge # file.edge \/ ~b.right)) \/ b.edge = 0
           THEN Finishes("not-decoded") /\ UNCHANGED <<bitmaps, file>>
           ELSE at' = "size" /\ bitmaps' = {b.edge} /\ file' = Absent /\ UNCHANGED result
    /\ UNCHANGED made

Asked(which) ==
    LET asset == fitLongEdge(CHOOSE edge \in bitmaps : TRUE, ASSET_LONG_EDGE) IN
    IF which = "asset" THEN asset ELSE fitLongEdge(asset, THUMB_LONG_EDGE)

\* toBlob's answer, through the filter and the scan.
jpeg(blob, size) ==
    IF blob = Nothing \/ keepImageSegments(blob) = Nothing THEN [error |-> "not-encoded"]
    ELSE LET bytes == keepImageSegments(blob)
             scan == scanJpeg(bytes) IN
         IF ~scan.ok THEN [error |-> IF scan.finding = "malformed" THEN "not-encoded" ELSE "not-stripped"]
         ELSE IF scan.size # size THEN [error |-> "not-encoded"]
         ELSE [error |-> Absent, bytes |-> bytes]

\* What a browser's encoder may give: no JPEG at all, or any pieces in any
\* order, each perhaps with a signature inside it.
Pieces(size) ==
    {Piece(k, Absent, IF k = "frame" THEN size ELSE 0) : k \in Kinds}
        \cup {Piece("tables", "gps", 0), Piece("frame", Absent, 3)}
Encodings(size) == {Nothing} \cup UNION {[1..n -> Pieces(size)] : n \in 1..MaxPieces}

\* The thumbnail goes the same way; a few encoders stand for all.
Clean(size) == <<Piece("frame", Absent, size), Piece("scan", Absent, 0), Piece("EOI", Absent, 0)>>
ThumbEncodings(size) ==
    {Nothing, Clean(size), <<Piece("XMP", "xmp", 0)>> \o Clean(size), <<Piece("tables", "gps", 0)>> \o Clean(size)}

EncodeAsset ==
    /\ at = "size"
    /\ \E blob \in Encodings(Asked("asset")) :
           LET j == jpeg(blob, Asked("asset")) IN
           IF j.error = Absent
           THEN at' = "thumb" /\ made' = [made EXCEPT !.asset = j.bytes] /\ UNCHANGED <<bitmaps, result>>
           ELSE Finishes(j.error) /\ bitmaps' = {} /\ UNCHANGED made
    /\ UNCHANGED file

\* The bitmap is closed whatever came of it, and an error forgets the asset.
EncodeThumb ==
    /\ at = "thumb"
    /\ bitmaps' = {}
    /\ \E blob \in ThumbEncodings(Asked("thumb")) :
           LET j == jpeg(blob, Asked("thumb")) IN
           IF j.error = Absent
           THEN at' = "fits" /\ made' = [made EXCEPT !.thumb = j.bytes] /\ UNCHANGED result
           ELSE Finishes(j.error) /\ made' = NoneMade
    /\ UNCHANGED file

\* One chunk at most for the thumbnail, one body cap for the metadata.
WithinCaps ==
    /\ at = "fits"
    /\ \/ \E e \in {"thumb-too-large", "meta-too-large"} :
              Finishes(e) /\ made' = NoneMade
       \/ Finishes("ok") /\ UNCHANGED made
    /\ UNCHANGED <<file, bitmaps>>

PrepareNext ==
    \/ \E f \in Files : ChooseFile(f)
    \/ DecodeThrows \/ DecodeWidth \/ DecodeHeight \/ DecodeFull
    \/ EncodeAsset \/ EncodeThumb \/ WithinCaps

PrepareSpec == NothingPrepared /\ [][PrepareNext]_prepareVars

-----------------------------------------------------------------------------
(* What is checked *)

OnlyAnImage(b, size) ==
    /\ \A i \in DOMAIN b : b[i].sig = Absent
    /\ \A i \in DOMAIN b : b[i].kind \in {"JFIF", "tables", "frame", "scan", "EOI"} \/ InScan(b, i)
    /\ \A i \in DOMAIN b : b[i].kind = "EOI" <=> i = Len(b)
    /\ \E i \in DOMAIN b : b[i].kind = "frame" /\ b[i].size = size

\* What prepare hands on to be encrypted is an image and nothing more, at the
\* size it asked for, whatever the browser's encoder wrote into it; and what it
\* does not hand on it does not keep. (prepare.ts, "it is never uploaded
\* unstripped"; jpeg-filter.ts, "a bug here can only fail an item".)
PreparedIsStripped ==
    /\ made.asset # Nothing => \E size \in 1..ASSET_LONG_EDGE : OnlyAnImage(made.asset, size)
    /\ made.thumb # Nothing => OnlyAnImage(made.thumb, THUMB_LONG_EDGE)
    /\ result = "ok" => Nothing \notin {made.asset, made.thumb}
    /\ at = "over" => bitmaps = {}
    /\ at = "over" /\ result # "ok" => made = NoneMade
=============================================================================
