------------------------------ MODULE SourceLoc ------------------------------
(***************************************************************************)
(* SourceLocManager (smbase/srcloc.cc) and HashLineMap (hashline.cc): all  *)
(* files share one space of locations, decoded to line and column by an    *)
(* array of line lengths, an index of markers every few lines, and one     *)
(* marker per file that every lookup may move.                             *)
(***************************************************************************)
EXTENDS Integers, Sequences, FiniteSets, SequencesExt

CONSTANTS
    UCHAR_MAX,       \* the length of a fragment of a long line (255 in the code)
    MARKER_PERIOD,   \* lines between markers of the index (100 in the code)
    Settings,        \* <<the file system, the options>>: see Disk and Options
    Directives,      \* #line directives: [origLine, origFname]
    PPFiles,         \* the files that are lexed, which may have directives
    MaxDirectives    \* bound on the directives of a file

\* the files that can be opened: the lengths of their lines, by name
Disk(d) == \A n \in DOMAIN d : d[n] \in Seq(Nat) /\ d[n] # <<>>
Options == [mayOpenFiles : BOOLEAN, tolerateHashlineErrors : BOOLEAN, useOriginalOffset : BOOLEAN]

ASSUME SettingsAssumption == \A x \in Settings : Disk(x[1]) /\ x[2] \in Options
ASSUME SizesAssumption == UCHAR_MAX \in Nat \ {0} /\ MARKER_PERIOD \in Nat \ {0}

VARIABLES
    disk, options,   \* fixed by Init
    files,           \* sequence of File
    recent,          \* the name of the file used last, or NoName
    nextLoc          \* the next location to assign

vars == <<disk, options, files, recent, nextLoc>>

NoName == "NULL"

\* The code's arrays start at 0
Nth(s, i) == s[i + 1]

-----------------------------------------------------------------------------
(* Reading a file *)

Texts == UNION {Range(x[1]) : x \in Settings}

SumTo(text) == LET sum[k \in Nat] == IF k = 0 THEN 0 ELSE sum[k - 1] + text[k] IN sum
LineStart == [text \in Texts |-> [line \in DOMAIN text |-> SumTo(text)[line - 1] + line - 1]]
numCharsOf(text) == LineStart[text][Len(text)] + text[Len(text)]

\* addLineLength
Fragments(len) == [k \in 1..(len \div UCHAR_MAX) |-> UCHAR_MAX] \o <<len % UCHAR_MAX>>
lineLengthsOf == [text \in Texts |-> FlattenSeq([i \in DOMAIN text |-> Fragments(text[i])])]

Marker(char, line, arr, col) == [char |-> char, line |-> line, arr |-> arr, col |-> col]
FirstMarker == Marker(0, 1, 0, 1)

\* File(char const*): after every MARKER_PERIOD newlines, where the next line starts
IndexRead ==
    [text \in Texts |->
        [k \in 1..((Len(text) - 1) \div MARKER_PERIOD + 1) |->
            LET line == (k - 1) * MARKER_PERIOD + 1
                fragments == FlattenSeq([i \in 1..(line - 1) |-> Fragments(text[i])])
            IN  Marker(LineStart[text][line], line, Len(fragments), 1)]]

EndsLine(len) == len # UCHAR_MAX

\* File(FileData*): the same from the array of line lengths
IndexLoaded ==
    [text \in Texts |->
        LET lens == lineLengthsOf[text]
            Read(s, i) ==
                LET n == [s EXCEPT !.char = @ + lens[i] + 1, !.line = @ + 1, !.delay = @ - 1] IN
                IF ~EndsLine(lens[i]) THEN [s EXCEPT !.char = @ + lens[i]]
                ELSE IF n.delay = 0 /\ i < Len(lens)
                THEN [n EXCEPT !.index = Append(@, Marker(n.char, n.line, i, 1)), !.delay = MARKER_PERIOD]
                ELSE n
        IN  FoldLeft(Read, [char |-> 0, line |-> 1, delay |-> MARKER_PERIOD, index |-> <<FirstMarker>>],
                     [i \in DOMAIN lens |-> i]).index]

File(name, index) ==
    LET text == disk[name] IN
    [name |-> name, startLoc |-> nextLoc, numChars |-> numCharsOf(text), numLines |-> Len(text),
     lineLengths |-> lineLengthsOf[text], index |-> index[text], marker |-> FirstMarker,
     erroredNumLines |-> FALSE, hashLines |-> <<>>]

\* (variation: a file does not own the position equal to its length)
After_noEnd(f) == f.startLoc + f.numChars
After(f) == f.startLoc + f.numChars + 1

-----------------------------------------------------------------------------
(* Lookups in a file: each returns the file with its marker moved *)

\* the binary searches of srcloc.cc and hashline.cc: the last place from 0 to n-1
\* that is not too high
Search(n, TooHigh(_)) ==
    LET find[r \in (0..n) \X (0..n)] ==
            LET mid == (r[1] + r[2] + 1) \div 2 IN
            IF r[1] >= r[2] THEN r[1]
            ELSE IF TooHigh(mid) THEN find[<<r[1], mid - 1>>] ELSE find[<<mid, r[2]>>]
    IN  find[<<0, n - 1>>]

\* advanceMarker
Advanced(f, m) ==
    LET len == Nth(f.lineLengths, m.arr) IN
    IF len < UCHAR_MAX THEN Marker(m.char + len + 1, m.line + 1, m.arr + 1, 1)
    ELSE Marker(m.char + UCHAR_MAX, m.line, m.arr + 1, m.col + UCHAR_MAX)

\* the marker advanced while it is before what is sought
MovedOn(f, from, Before(_)) ==
    LET at[k \in Nat] == IF k = 0 THEN from
                         ELSE LET m == at[k - 1] IN IF Before(m) THEN Advanced(f, m) ELSE m
    IN  at[Len(f.lineLengths)]

\* (variation: the marker's column stays what it was)
FromIndex_sameCol(f, i) == [Nth(f.index, i) EXCEPT !.col = f.marker.col]
FromIndex(f, i) == Nth(f.index, i)

LineIsNear(f, line) == f.marker.line <= line /\ line < f.marker.line + MARKER_PERIOD

\* lineToChar
lineToChar(f, line) ==
    IF f.erroredNumLines THEN [file |-> f, offset |-> 0, threw |-> FALSE]
    ELSE IF line > f.numLines
    THEN [file |-> [f EXCEPT !.erroredNumLines = options.tolerateHashlineErrors], offset |-> 0,
          threw |-> ~options.tolerateHashlineErrors]
    ELSE LET from == IF LineIsNear(f, line) THEN f.marker
                     ELSE FromIndex(f, Search(Len(f.index), LAMBDA i : Nth(f.index, i).line > line))
             m == MovedOn(f, from, LAMBDA x : x.line < line)
         IN  [file |-> [f EXCEPT !.marker = m], offset |-> m.char - (m.col - 1), threw |-> FALSE]

Lower(a, b) == IF a < b THEN a ELSE b
\* (variation: a column beyond the end of the line is not truncated)
Within_any(col, len) == col
Within(col, len) == Lower(col, len)

\* lineColToChar: the marker is on the line, unless an error has been tolerated
lineColToChar(f, line, col) ==
    LET r == lineToChar(f, line)
        m == r.file.marker
        colAt(i) == col - m.col - UCHAR_MAX * (i - m.arr)
        lenAt(i) == Nth(f.lineLengths, i)
        ends(i) == colAt(i) <= lenAt(i) \/ lenAt(i) < UCHAR_MAX
        last == CHOOSE i \in m.arr..(Len(f.lineLengths) - 1) :
                    ends(i) /\ \A k \in m.arr..(i - 1) : ~ends(k)
    IN  IF r.threw \/ col <= m.col THEN [r EXCEPT !.offset = @ + col - 1]
        ELSE [r EXCEPT !.offset = m.char + UCHAR_MAX * (last - m.arr) + Within(colAt(last), lenAt(last))]

CharIsNear(f, offset) ==
    /\ f.marker.char <= offset
    /\ offset < f.marker.char + MARKER_PERIOD * (f.numChars \div f.numLines)

\* charToLineCol
charToLineCol(f, offset) ==
    LET from == IF CharIsNear(f, offset) THEN f.marker
                ELSE FromIndex(f, Search(Len(f.index), LAMBDA i : Nth(f.index, i).char > offset))
        m == MovedOn(f, from, LAMBDA x : x.char + Nth(f.lineLengths, x.arr) < offset)
    IN  [file |-> [f EXCEPT !.marker = m], line |-> m.line, col |-> m.col + (offset - m.char)]

\* HashLineMap::map
Mapped(f, line) ==
    LET d == f.hashLines IN
    IF d = <<>> \/ line < d[1].ppLine THEN [line |-> line, name |-> f.name]
    ELSE LET hl == Nth(d, Search(Len(d), LAMBDA i : Nth(d, i).ppLine > line))
         IN  [line |-> hl.origLine + (line - hl.ppLine - 1), name |-> hl.origFname]

-----------------------------------------------------------------------------
(* The manager *)

Place(fs, name) == CHOOSE i \in DOMAIN fs : fs[i].name = name
IsKnown(fs, name) == \E i \in DOMAIN fs : fs[i].name = name
\* findFile
Found(name) == recent = name \/ IsKnown(files, name)
CanGet(name) == Found(name) \/ (options.mayOpenFiles /\ name \in DOMAIN disk)

\* getFile
AddFile(fs, f) == Append(fs, f)
GetFile(fs, name) == IF Found(name) THEN fs ELSE AddFile(fs, File(name, IndexRead))
Bump(fs) == nextLoc' = IF Len(fs) = Len(files) THEN nextLoc ELSE After(Last(fs))

Init ==
    /\ \E x \in Settings : disk = x[1] /\ options = x[2]
    /\ files = <<>> /\ recent = NoName
    /\ nextLoc = 1

\* encodeOffset, getInternalFile: that the offset is in the file is asserted afterwards
EncodeOffset(name) ==
    /\ CanGet(name)
    /\ files' = GetFile(files, name) /\ Bump(files') /\ recent' = name
    /\ UNCHANGED <<disk, options>>

\* encodeLineCol; it throws where lineToChar does
EncodeLineCol(name, line) ==
    /\ CanGet(name)
    /\ LET fs == GetFile(files, name)
           i == Place(fs, name)
       IN  files' = [fs EXCEPT ![i] = lineToChar(@, line).file]
    /\ Bump(files') /\ recent' = name
    /\ UNCHANGED <<disk, options>>

\* findFileWithLoc; 0 if no file has it
FileWithLoc(fs, loc) ==
    LET find[r \in (1..(Len(fs) + 1)) \X (0..Len(fs))] ==
            LET mid == (r[2] - r[1]) \div 2 + r[1] IN
            IF r[1] > r[2] THEN 0
            ELSE IF fs[mid].startLoc > loc THEN find[<<r[1], mid - 1>>]
            ELSE IF fs[mid].startLoc + fs[mid].numChars < loc THEN find[<<mid + 1, r[2]>>]
            ELSE mid
    IN  find[<<1, Len(fs)>>]

LineColAt(fs, loc) == LET i == FileWithLoc(fs, loc) IN charToLineCol(fs[i], loc - fs[i].startLoc)

\* decodeLineCol
DecodeLineCol(loc) ==
    /\ files' = [files EXCEPT ![FileWithLoc(files, loc)] = LineColAt(files, loc).file]
    /\ UNCHANGED <<disk, options, recent, nextLoc>>

\* decodeOffset through the #line map: the original file is opened, and may be missing;
\* line 0, that of a "#line 1" itself, is refused by lineToChar's assertion
DecodeOffset(loc) ==
    LET i == FileWithLoc(files, loc)
        pp == LineColAt(files, loc)
        orig == Mapped(files[i], pp.line)
        fs == [files EXCEPT ![i] = pp.file]
    IN
    /\ files[i].hashLines # <<>> /\ options.useOriginalOffset
    /\ IF CanGet(orig.name)
       THEN /\ LET gs == GetFile(fs, orig.name)
                   k == Place(gs, orig.name)
               IN  files' = IF orig.line < 1 THEN gs ELSE [gs EXCEPT ![k] = lineToChar(@, orig.line).file]
            /\ Bump(files') /\ recent' = orig.name
       ELSE files' = fs /\ UNCHANGED <<nextLoc, recent>>
    /\ UNCHANGED <<disk, options>>

\* (variation: the order of the directives is not checked)
InOrder_any(f, ppLine) == TRUE
InOrder(f, ppLine) == f.hashLines # <<>> => ppLine > Last(f.hashLines).ppLine

HashLine(ppLine, d) == [ppLine |-> ppLine, origLine |-> d.origLine, origFname |-> d.origFname]

\* File::addHashLine, called by the lexer when it comes to the directive
AddHashLine(name, ppLine, d) ==
    /\ IsKnown(files, name)
    /\ LET i == Place(files, name) IN
       /\ ppLine \in 1..files[i].numLines /\ Len(files[i].hashLines) < MaxDirectives
       /\ InOrder(files[i], ppLine)
       /\ files' = [files EXCEPT ![i].hashLines = Append(@, HashLine(ppLine, d))]
    /\ UNCHANGED <<disk, options, recent, nextLoc>>

\* loadFile: what another run has written of the file, perhaps with directives
LoadFile(name, lines) ==
    /\ ~Found(name) /\ name \in DOMAIN disk
    /\ files' = AddFile(files, [File(name, IndexLoaded) EXCEPT !.hashLines = lines])
    /\ Bump(files')
    /\ UNCHANGED <<disk, options, recent>>

Reset ==
    /\ files' = <<>> /\ recent' = NoName /\ nextLoc' = 1
    /\ UNCHANGED <<disk, options>>

Locs == 1..(nextLoc - 1)
MaxLines == Max({Len(disk[n]) : n \in DOMAIN disk})
Exported(name) == IF name \in PPFiles THEN {<<>>} \cup {<<HashLine(1, d)>> : d \in Directives} ELSE {<<>>}

Next ==
    \/ \E name \in DOMAIN disk :
          \/ EncodeOffset(name)
          \/ \E line \in 1..(MaxLines + 1) : EncodeLineCol(name, line)
          \/ \E lines \in Exported(name) : LoadFile(name, lines)
    \/ \E loc \in Locs : DecodeLineCol(loc) \/ DecodeOffset(loc)
    \/ \E name \in PPFiles, d \in Directives : \E ppLine \in 1..MaxLines : AddHashLine(name, ppLine, d)
    \/ Reset

Spec == Init /\ [][Next]_vars

-----------------------------------------------------------------------------
(* Properties *)

\* the same from the text alone
LineOf(text, offset) ==
    CHOOSE n \in DOMAIN text : offset \in LineStart[text][n]..(LineStart[text][n] + text[n])

Longest == [text \in Texts |-> Max(Range(text))]
Columns(f) == 1..(Longest[disk[f.name]] + 2)

\* Wherever earlier lookups have left the marker, in the middle of a long line too, and
\* whichever constructor has made the index, an offset is decoded to its line and column
\* in the text, and a line and column are encoded as their offset, at most the line's end.
LookupsExact ==
    \A i \in DOMAIN files :
        LET f == files[i]
            text == disk[f.name]
        IN  /\ \A o \in 0..f.numChars :
                LET r == charToLineCol(f, o) IN
                /\ r.line = LineOf(text, o) /\ r.col = o - LineStart[text][r.line] + 1
            /\ ~f.erroredNumLines =>
                \A line \in 1..f.numLines, col \in Columns(f) :
                    lineColToChar(f, line, col).offset
                        = LineStart[text][line] + Lower(col - 1, text[line])

\* Also when the line does not exist and the error is tolerated, now or earlier, and the
\* column is taken from wherever the marker is, the location that is encoded lies in the
\* file.
StaysInFile ==
    \A i \in DOMAIN files : \A col \in Columns(files[i]) :
        LET r == lineColToChar(files[i], files[i].numLines + 1, col)
        IN  r.threw \/ r.offset \in 0..files[i].numChars

\* Each location that was handed out is in exactly one file, which the search finds,
\* and files are known by one name; a file that is remembered is there.
OneFilePerLoc ==
    /\ \A loc \in Locs :
        LET owners == {i \in DOMAIN files : loc \in files[i].startLoc..(files[i].startLoc + files[i].numChars)}
        IN  owners = {FileWithLoc(files, loc)}
    /\ \A i, k \in DOMAIN files : files[i].name = files[k].name => i = k
    /\ recent # NoName => IsKnown(files, recent)

\* what decodeLineCol says of a location, by LookupsExact
PPLine(f, loc) == LineOf(disk[f.name], loc - f.startLoc)
Meaning(fs, loc) ==
    LET f == fs[FileWithLoc(fs, loc)]
    IN  <<Mapped(f, PPLine(f, loc)), loc - f.startLoc - LineStart[disk[f.name]][PPLine(f, loc)]>>

Directed(fs) == [i \in DOMAIN fs |-> <<fs[i].startLoc, fs[i].hashLines>>]

\* The meaning of a location is settled when it is made: lookups, new files and new
\* #line directives never change it, except that a directive says of all that lies below
\* it, already located or not, which line of which file it is.
EarlierKeepMeaning ==
    [][\A fs \in {files'} : fs = <<>> \/ Directed(fs) = Directed(files) \/ \A loc \in Locs :
         LET i    == FileWithLoc(files, loc)
             line == PPLine(files[i], loc)
             d    == Last(fs[i].hashLines)
         IN  IF Len(fs[i].hashLines) > Len(files[i].hashLines) /\ line >= d.ppLine
             THEN line > d.ppLine => Mapped(fs[i], line) =
                    [line |-> d.origLine + (line - d.ppLine - 1), name |-> d.origFname]
             ELSE Meaning(fs, loc) = Meaning(files, loc)]_vars
=============================================================================
