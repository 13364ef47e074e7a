-------------------------- MODULE FileTailerProofs --------------------------
(* What the follower of a file keeps true for every number of files, lines, *)
(* accidents and starts.                                                   *)
EXTENDS FileTailer, SequenceTheorems, TLAPS

Parts == {"whole", "head", "rest"}
Pieces == [line : 1 .. MaxLines, part : Parts]
Reports == [file : Files, line : 1 .. MaxLines, part : Parts,
            parser : {"iis_access", "auto"}]

LEMMA Sizes ==
  MaxFiles \in Nat /\ MaxLines \in Nat /\ MaxAccidents \in Nat /\ MaxStarts \in Nat
BY TailerAssumption

(* The type invariant, with the shapes that an update in place needs, and  *)
(* what makes it inductive: the listed files are distinct because a new    *)
(* one has a number that none has, and a path reads an open file.          *)
FilesTyped ==
    /\ kind \in Kinds
    /\ listing \in Seq(Files) /\ IsInjective(listing)
    /\ \A i \in DOMAIN listing : listing[i] <= created
    /\ content \in [Files -> Seq(Pieces)]
    /\ created \in Nat /\ created <= MaxFiles
    /\ written \in Nat /\ written <= MaxLines
    /\ accidents \in Nat /\ accidents <= MaxAccidents
ReaderTyped ==
    /\ starts \in Nat /\ starts <= MaxStarts
    /\ stage \in {"off", "open", "read", "check", "drain", "ended"}
    /\ handle \in Files \cup {None}
    /\ current \in Files \cup {None} /\ target \in Files \cup {None}
    /\ pos \in Nat /\ fromEnd \in BOOLEAN /\ stopping \in BOOLEAN
    /\ delivered \in Seq(Reports)
    /\ stage = "check" => Path
    /\ stage = "drain" => ~Path
    /\ (Path /\ stage = "read") \/ stage \in {"check", "drain"} => handle # None
Typed == FilesTyped /\ ReaderTyped

LEMMA TypedIsTypeOK == Typed => TypeOK
<1> SUFFICES ASSUME Typed PROVE TypeOK
  OBVIOUS
<1>1. ASSUME NEW i \in DOMAIN delivered
      PROVE  delivered[i].file \in Files /\ delivered[i].line \in 1 .. MaxLines
  <2>1. delivered[i] \in Reports
    BY <1>1, LenProperties, ElementOfSeq DEF Typed, ReaderTyped
  <2> QED
    BY <2>1 DEF Reports
<1>2. /\ created \in 0 .. MaxFiles /\ written \in 0 .. MaxLines
      /\ accidents \in 0 .. MaxAccidents /\ starts \in 0 .. MaxStarts
  BY Sizes DEF Typed, FilesTyped, ReaderTyped
<1>3. \A f \in Files : content[f] \in Seq([line : 1 .. MaxLines,
                                           part : {"whole", "head", "rest"}])
  BY DEF Typed, FilesTyped, Pieces, Parts
<1> QED
  BY <1>1, <1>2, <1>3 DEF Typed, FilesTyped, ReaderTyped, TypeOK

-----------------------------------------------------------------------------
(* The listing.                                                            *)
LEMMA NamedIsFile ==
  ASSUME FilesTyped, listing # <<>>
  PROVE  Named \in Files /\ Named \in Range(listing)
<1>1. listing \in Seq(Files) /\ Len(listing) \in DOMAIN listing
  BY LenProperties, EmptySeq DEF FilesTyped
<1> QED
  BY <1>1, ElementOfSeq, LenProperties DEF Named, Last, Range

LEMMA OthersOfListing ==
  ASSUME NEW f \in Range(listing), FilesTyped
  PROVE  /\ Others(f) \in Seq(Files) /\ IsInjective(Others(f))
         /\ \A i \in DOMAIN Others(f) :
               Others(f)[i] # f /\ \E j \in DOMAIN listing : Others(f)[i] = listing[j]
<1> DEFINE p == CHOOSE i \in DOMAIN listing : listing[i] = f
           n == Len(listing)
           front == SubSeq(listing, 1, p - 1)
           back == SubSeq(listing, p + 1, n)
<1>1. listing \in Seq(Files) /\ n \in Nat /\ DOMAIN listing = 1 .. n
  BY LenProperties DEF FilesTyped
<1>2. p \in 1 .. n /\ listing[p] = f
  BY <1>1 DEF Range
<1>3. Others(f) = front \o back
  BY DEF Others, RemoveAt
<1> HIDE DEF p, n
<1>4. p \in Int /\ p - 1 \in Int /\ p + 1 \in Int /\ n \in Int
  BY <1>1, <1>2
<1>5. /\ front \in Seq(Files) /\ Len(front) = p - 1
      /\ \A i \in 1 .. p - 1 : front[i] = listing[i]
  <2>1. \A i \in 1 .. p - 1 : listing[i] \in Files
    BY <1>1, <1>2, <1>4, ElementOfSeq DEF n
  <2>2. /\ front \in Seq(Files)
        /\ Len(front) = IF 1 <= p - 1 THEN p - 1 - 1 + 1 ELSE 0
        /\ \A i \in 1 .. p - 1 - 1 + 1 : front[i] = listing[1 + i - 1]
    BY <1>4, <2>1, SubSeqProperties
  <2> QED
    BY <1>2, <1>4, <2>2
<1>6. /\ back \in Seq(Files) /\ Len(back) = n - p
      /\ \A i \in 1 .. n - p : back[i] = listing[p + i]
  <2>1. \A i \in p + 1 .. n : listing[i] \in Files
    BY <1>1, <1>2, <1>4, ElementOfSeq DEF n
  <2>2. /\ back \in Seq(Files)
        /\ Len(back) = IF p + 1 <= n THEN n - (p + 1) + 1 ELSE 0
        /\ \A i \in 1 .. n - (p + 1) + 1 : back[i] = listing[p + 1 + i - 1]
    BY <1>4, <2>1, SubSeqProperties
  <2> QED
    BY <1>1, <1>2, <1>4, <2>2
<1> HIDE DEF front, back
<1>7. /\ Others(f) \in Seq(Files) /\ Len(Others(f)) = n - 1
      /\ \A i \in 1 .. n - 1 : Others(f)[i] = IF i <= p - 1 THEN front[i] ELSE back[i - (p - 1)]
  <2>1. Len(front) + Len(back) = n - 1
    BY <1>1, <1>2, <1>4, <1>5, <1>6
  <2>2. /\ front \o back \in Seq(Files)
        /\ Len(front \o back) = Len(front) + Len(back)
        /\ \A i \in 1 .. Len(front) + Len(back) :
              (front \o back)[i] = IF i <= Len(front) THEN front[i] ELSE back[i - Len(front)]
    BY <1>5, <1>6, ConcatProperties
  <2> QED
    BY <1>3, <1>5, <2>1, <2>2
<1>8. \A i \in 1 .. n - 1 :
         Others(f)[i] = IF i <= p - 1 THEN listing[i] ELSE listing[i + 1]
  <2> SUFFICES ASSUME NEW i \in 1 .. n - 1
               PROVE  Others(f)[i] = IF i <= p - 1 THEN listing[i] ELSE listing[i + 1]
    OBVIOUS
  <2>1. CASE i <= p - 1
    BY <1>2, <1>4, <1>5, <1>7, <2>1
  <2>2. CASE ~(i <= p - 1)
    <3>1. i - (p - 1) \in 1 .. n - p /\ p + (i - (p - 1)) = i + 1
      BY <1>1, <1>2, <1>4, <2>2
    <3>2. back[i - (p - 1)] = listing[i + 1]
      BY <1>6, <3>1
    <3> QED
      BY <1>7, <2>2, <3>2
  <2> QED
    BY <2>1, <2>2
<1>9. DOMAIN Others(f) = 1 .. n - 1
  BY <1>7, LenProperties
<1>10. \A i, j \in 1 .. n : listing[i] = listing[j] => i = j
  BY <1>1 DEF FilesTyped, IsInjective
<1>11. ASSUME NEW i \in 1 .. n - 1
       PROVE  Others(f)[i] # f /\ \E j \in 1 .. n : Others(f)[i] = listing[j]
  <2>1. i \in 1 .. n /\ i + 1 \in 1 .. n /\ (i <= p - 1 => i # p) /\ (~(i <= p - 1) => i + 1 # p)
    BY <1>1, <1>2, <1>4
  <2> QED
    BY <1>2, <1>8, <1>10, <2>1
<1>12. ASSUME NEW i \in 1 .. n - 1, NEW j \in 1 .. n - 1, Others(f)[i] = Others(f)[j]
       PROVE  i = j
  <2>1. /\ i \in 1 .. n /\ j \in 1 .. n /\ i + 1 \in 1 .. n /\ j + 1 \in 1 .. n
    BY <1>1
  <2>2. CASE i <= p - 1 /\ j <= p - 1
    BY <1>8, <1>10, <1>12, <2>1, <2>2
  <2>3. CASE ~(i <= p - 1) /\ ~(j <= p - 1)
    BY <1>8, <1>10, <1>12, <2>1, <2>3
  <2>4. CASE i <= p - 1 /\ ~(j <= p - 1)
    BY <1>4, <1>8, <1>10, <1>12, <2>1, <2>4
  <2>5. CASE ~(i <= p - 1) /\ j <= p - 1
    BY <1>4, <1>8, <1>10, <1>12, <2>1, <2>5
  <2> QED
    BY <2>2, <2>3, <2>4, <2>5
<1> QED
  BY <1>1, <1>7, <1>9, <1>11, <1>12 DEF IsInjective

LEMMA AppendKeepsInjective ==
  ASSUME NEW S, NEW s \in Seq(S), IsInjective(s), NEW x \in S,
         \A i \in DOMAIN s : s[i] # x
  PROVE  /\ Append(s, x) \in Seq(S) /\ IsInjective(Append(s, x))
         /\ \A i \in DOMAIN Append(s, x) : Append(s, x)[i] = x
                                          \/ \E j \in DOMAIN s : Append(s, x)[i] = s[j]
<1>1. /\ Append(s, x) \in Seq(S) /\ Len(Append(s, x)) = Len(s) + 1
      /\ \A i \in 1 .. Len(s) : Append(s, x)[i] = s[i]
      /\ Append(s, x)[Len(s) + 1] = x
  BY AppendProperties
<1>2. /\ Len(s) \in Nat /\ DOMAIN s = 1 .. Len(s)
      /\ DOMAIN Append(s, x) = 1 .. Len(s) + 1
  BY <1>1, LenProperties
<1>3. \A i \in DOMAIN Append(s, x) : i \in DOMAIN s \/ i = Len(s) + 1
  BY <1>2
<1> QED
  BY <1>1, <1>2, <1>3 DEF IsInjective

-----------------------------------------------------------------------------
(* The files and their types.                                              *)

(* What is written next to a file: its last line is finished, or a new     *)
(* line begun, and nothing else of the file changes.                       *)
LEMMA WriteAppends ==
  ASSUME FilesTyped, NEW f \in Files, Write(f)
  PROVE  \E piece \in Pieces :
            /\ piece \in Piece(f) /\ piece.line <= MaxLines
            /\ content' = [content EXCEPT ![f] = Append(content[f], piece)]
            /\ written' = IF piece.line > written THEN piece.line ELSE written
<1>1. PICK piece \in Piece(f) :
         /\ piece.line <= MaxLines
         /\ content' = [content EXCEPT ![f] = Append(@, piece)]
         /\ written' = IF piece.line > written THEN piece.line ELSE written
  BY DEF Write
<1>2. piece \in Pieces
  <2>1. CASE Unfinished(f)
    <3>1. content[f] \in Seq(Pieces) /\ content[f] # <<>>
      BY <2>1 DEF Unfinished, FilesTyped
    <3>2. Last(content[f]) \in Pieces
      BY <3>1, EmptySeq, ElementOfSeq, LenProperties DEF Last
    <3>3. piece = [line |-> Last(content[f]).line, part |-> "rest"]
      BY <1>1, <2>1 DEF Piece
    <3> QED
      BY <3>2, <3>3 DEF Pieces, Parts
  <2>2. CASE ~Unfinished(f)
    <3>1. \E p \in {"whole", "head"} : piece = [line |-> written + 1, part |-> p]
      BY <1>1, <2>2 DEF Piece
    <3>2. written \in Nat /\ MaxLines \in Nat
      BY Sizes DEF FilesTyped
    <3>3. written + 1 \in 1 .. MaxLines
      BY <1>1, <3>1, <3>2
    <3> QED
      BY <3>1, <3>3 DEF Pieces, Parts
  <2> QED
    BY <2>1, <2>2
<1>3. [content EXCEPT ![f] = Append(@, piece)] = [content EXCEPT ![f] = Append(content[f], piece)]
  BY DEF FilesTyped
<1> QED
  BY <1>1, <1>2, <1>3

LEMMA WriteTyped ==
  ASSUME FilesTyped, NEW f \in Files, Write(f)
  PROVE  FilesTyped'
<1>1. PICK piece \in Pieces :
         /\ piece \in Piece(f) /\ piece.line <= MaxLines
         /\ content' = [content EXCEPT ![f] = Append(content[f], piece)]
         /\ written' = IF piece.line > written THEN piece.line ELSE written
  BY WriteAppends
<1>2. content' \in [Files -> Seq(Pieces)]
  <2>1. Append(content[f], piece) \in Seq(Pieces)
    BY AppendProperties DEF FilesTyped
  <2> QED
    BY <1>1, <2>1 DEF FilesTyped
<1>3. written' \in Nat /\ written' <= MaxLines
  BY <1>1, Sizes DEF FilesTyped, Pieces
<1>4. /\ listing' \in Seq(Files) /\ IsInjective(listing')
      /\ \A i \in DOMAIN listing' : listing'[i] <= created
  <2>1. CASE f \in Range(listing)
    <3>1. listing' = Append(Others(f), f)
      BY <2>1 DEF Write
    <3>2. f <= created
      BY <2>1 DEF FilesTyped, Range
    <3>3. /\ Others(f) \in Seq(Files) /\ IsInjective(Others(f))
          /\ \A i \in DOMAIN Others(f) : Others(f)[i] # f /\ Others(f)[i] <= created
      BY <2>1, OthersOfListing DEF FilesTyped
    <3> QED
      BY <3>1, <3>2, <3>3, AppendKeepsInjective
  <2>2. CASE f \notin Range(listing)
    BY <2>2 DEF Write, FilesTyped
  <2> QED
    BY <2>1, <2>2
<1>5. UNCHANGED <<kind, created, accidents>>
  BY DEF Write
<1> QED
  BY <1>2, <1>3, <1>4, <1>5 DEF FilesTyped

LEMMA CreateTyped ==
  ASSUME FilesTyped, Create
  PROVE  FilesTyped'
<1>1. /\ created' = created + 1 /\ created + 1 \in Files
      /\ created' \in Nat /\ created' <= MaxFiles
  <2>1. created \in Nat /\ created < MaxFiles /\ created' = created + 1
    BY DEF Create, FilesTyped
  <2>2. created + 1 \in Nat /\ created + 1 <= MaxFiles /\ created + 1 \in 1 .. MaxFiles
    BY <2>1, Sizes
  <2> QED
    BY <2>1, <2>2 DEF Files
<1>2. \A i \in DOMAIN listing : listing[i] \in Nat /\ listing[i] <= created
  <2>1. listing \in Seq(Files) /\ DOMAIN listing = 1 .. Len(listing)
    BY LenProperties DEF FilesTyped
  <2>2. \A i \in DOMAIN listing : listing[i] \in Files
    BY <2>1, ElementOfSeq
  <2> QED
    BY <2>2, Sizes DEF FilesTyped, Files
<1>3. /\ listing' \in Seq(Files) /\ IsInjective(listing')
      /\ \A i \in DOMAIN listing' : listing'[i] <= created'
  <2>1. CASE kind = "pattern"
    <3>1. listing' = Append(listing, created + 1)
      BY <2>1 DEF Create
    <3>2. \A i \in DOMAIN listing : listing[i] # created + 1 /\ listing[i] <= created + 1
      BY <1>2 DEF FilesTyped
    <3> QED
      BY <1>1, <3>1, <3>2, AppendKeepsInjective DEF FilesTyped
  <2>2. CASE kind # "pattern"
    <3>1. listing' = <<created + 1>>
      BY <2>2 DEF Create
    <3>2. listing' \in Seq(Files) /\ DOMAIN listing' = {1} /\ listing'[1] = created + 1
      BY <1>1, <3>1
    <3> QED
      BY <1>1, <3>2 DEF IsInjective
  <2> QED
    BY <2>1, <2>2
<1>4. UNCHANGED <<kind, content, written, accidents>>
  BY DEF Create
<1> QED
  BY <1>1, <1>3, <1>4 DEF FilesTyped

LEMMA AccidentTyped ==
  ASSUME FilesTyped, Accident
  PROVE  accidents' \in Nat /\ accidents' <= MaxAccidents /\ accidents' # 0
BY Sizes DEF FilesTyped, Accident

LEMMA TruncateTyped ==
  ASSUME FilesTyped, Truncate
  PROVE  FilesTyped'
<1>1. content' \in [Files -> Seq(Pieces)]
  <2>1. content' = [content EXCEPT ![Named] = <<>>] /\ <<>> \in Seq(Pieces)
    BY EmptySeq DEF Truncate
  <2> QED
    BY <2>1 DEF FilesTyped
<1>2. accidents' \in Nat /\ accidents' <= MaxAccidents
  BY AccidentTyped DEF Truncate
<1>3. UNCHANGED <<kind, listing, created, written>>
  BY DEF Truncate
<1> QED
  BY <1>1, <1>2, <1>3 DEF FilesTyped

LEMMA LeaveListingTyped ==
  ASSUME FilesTyped, NEW f \in Files, Disappear(f) \/ RescanRaises(f)
  PROVE  FilesTyped'
<1>1. /\ f \in Range(listing) /\ Accident /\ listing' = Others(f)
      /\ UNCHANGED <<kind, content, created, written>>
  BY DEF Disappear, RescanRaises
<1>2. /\ Others(f) \in Seq(Files) /\ IsInjective(Others(f))
      /\ \A i \in DOMAIN Others(f) : Others(f)[i] <= created
  BY <1>1, OthersOfListing DEF FilesTyped
<1>3. accidents' \in Nat /\ accidents' <= MaxAccidents
  BY <1>1, AccidentTyped
<1> QED
  BY <1>1, <1>2, <1>3 DEF FilesTyped

-----------------------------------------------------------------------------
(* A delivery: the piece that follows, or the two parts of a line at once. *)
LEMMA DeliverAppends ==
  ASSUME Typed, ToRead, Deliver
  PROVE  /\ handle \in Files /\ content[handle] \in Seq(Pieces)
         /\ pos + 1 \in DOMAIN content[handle] /\ content[handle][pos + 1] \in Pieces
         /\ pos' \in Nat /\ pos' > pos /\ pos' <= Len(content[handle])
         /\ \E report \in Reports :
               /\ delivered' = Append(delivered, report)
               /\ report.file = handle /\ report.line = content[handle][pos + 1].line
               /\ \/ report.part = content[handle][pos + 1].part /\ pos' = pos + 1
                  \/ /\ content[handle][pos + 1].part = "head" /\ report.part = "whole"
                     /\ pos' = pos + 2
<1>1. handle \in Files /\ content[handle] \in Seq(Pieces) /\ pos \in Nat
  BY DEF ToRead, Typed, FilesTyped, ReaderTyped
<1>2. Len(content[handle]) \in Nat /\ pos < Len(content[handle])
  BY <1>1, LenProperties DEF ToRead
<1>3. pos + 1 \in DOMAIN content[handle] /\ content[handle][pos + 1] \in Pieces
  BY <1>1, <1>2, LenProperties, ElementOfSeq
<1>4. /\ pos' \in Nat /\ pos' > pos /\ pos' <= Len(content[handle])
      /\ (Complete /\ pos' = pos + 2) \/ (~Complete /\ pos' = pos + 1)
  BY <1>1, <1>2 DEF Deliver, Complete
<1> DEFINE piece == content[handle][pos + 1]
           report == [file |-> handle, line |-> piece.line,
                      part |-> IF Complete THEN "whole" ELSE piece.part,
                      parser |-> Route(Reported)]
<1>5. delivered' = Append(delivered, report)
  BY DEF Deliver
<1>6. Route(Reported) \in {"iis_access", "auto"}
  BY DEF Route
<1>7. report \in Reports
  BY <1>1, <1>3, <1>6 DEF Reports, Pieces, Parts
<1>8. Complete => piece.part = "head"
  BY DEF Complete
<1> QED
  BY <1>1, <1>3, <1>4, <1>5, <1>7, <1>8

LEMMA DeliverTyped ==
  ASSUME Typed, ToRead, Deliver, UNCHANGED <<stage, handle, current, target, fromEnd>>,
         UNCHANGED <<kind, starts, stopping>>
  PROVE  ReaderTyped'
<1>1. pos' \in Nat
  BY DeliverAppends
<1>2. delivered' \in Seq(Reports)
  BY DeliverAppends, AppendProperties DEF Typed, ReaderTyped
<1> QED
  BY <1>1, <1>2 DEF Typed, ReaderTyped, Path

LEMMA InitTyped == Init => Typed
<1> SUFFICES ASSUME Init PROVE Typed
  OBVIOUS
<1>1. <<>> \in Seq(Files) /\ <<>> \in Seq(Pieces) /\ <<>> \in Seq(Reports) /\ DOMAIN <<>> = {}
  BY EmptySeq, LenProperties
<1>2. FilesTyped
  <2>1. listing = <<>> /\ IsInjective(listing) /\ DOMAIN listing = {}
    BY <1>1 DEF Init, IsInjective
  <2>2. content \in [Files -> Seq(Pieces)]
    BY <1>1 DEF Init
  <2> QED
    BY <1>1, <2>1, <2>2, Sizes DEF Init, FilesTyped
<1>3. ReaderTyped
  <2>1. starts \in Nat /\ starts <= MaxStarts /\ pos \in Nat
    BY Sizes DEF Init
  <2>2. stage = "off" /\ handle = None /\ current = None /\ target = None /\ delivered = <<>>
    BY DEF Init
  <2>3. fromEnd \in BOOLEAN /\ stopping \in BOOLEAN
    BY Zenon DEF Init
  <2> QED
    BY <1>1, <2>1, <2>2, <2>3 DEF ReaderTyped
<1> QED
  BY <1>2, <1>3 DEF Typed

(* The steps of the programs that write, and those of the thread.          *)
Writes == Create \/ Truncate \/ \E f \in Files : Write(f) \/ Disappear(f)
Opens == OpenPath \/ OpenTarget \/ TargetFails \/ DeniedPath
Reads == ReadLine \/ Drain
Moves == EndOfPath \/ CheckPath \/ StopPath \/ Rescan \/ Drained

LEMMA NextIs ==
  Next => Writes \/ Opens \/ Reads \/ Moves \/ Start \/ Stop \/ Exit
          \/ \E f \in Files : RescanRaises(f)
BY DEF Next, Thread, Writes, Opens, Reads, Moves

LEMMA WritesTyped == ASSUME Typed, Writes PROVE Typed'
<1>1. FilesTyped'
  BY CreateTyped, TruncateTyped, WriteTyped, LeaveListingTyped DEF Writes, Typed
<1>2. UNCHANGED <<kind, starts, stage, handle, pos, current, target, fromEnd, delivered, stopping>>
  BY DEF Writes, Create, Truncate, Write, Disappear, reader
<1>3. ReaderTyped'
  BY <1>2 DEF Typed, ReaderTyped, Path
<1> QED
  BY <1>1, <1>3 DEF Typed

LEMMA OpensTyped == ASSUME Typed, Opens PROVE Typed'
<1>1. FilesTyped'
  <2>1. UNCHANGED <<kind, listing, content, created, written>>
        /\ (accidents' = accidents \/ Accident)
    BY DEF Opens, OpenPath, OpenTarget, TargetFails, DeniedPath, files
  <2>2. accidents' \in Nat /\ accidents' <= MaxAccidents
    BY <2>1, AccidentTyped DEF Typed, FilesTyped
  <2> QED
    BY <2>1, <2>2 DEF Typed, FilesTyped
<1>2. ReaderTyped'
  <2>1. CASE OpenPath
    <3>1. Named \in Files /\ pos' \in Nat
      BY <2>1, NamedIsFile, LenProperties DEF OpenPath, Typed, FilesTyped
    <3> QED
      BY <2>1, <3>1 DEF OpenPath, Typed, ReaderTyped, Path, None, Files
  <2>2. CASE OpenTarget
    <3>1. target \in Files
      BY <2>2, RangeOfSeq DEF OpenTarget, Typed, FilesTyped
    <3>2. Len(content[target]) \in Nat
      BY <3>1, LenProperties DEF Typed, FilesTyped
    <3>3. pos' \in Nat
      BY <2>2, <3>2 DEF OpenTarget
    <3> QED
      BY <2>2, <3>1, <3>3 DEF OpenTarget, Typed, ReaderTyped, Path, None, Files
  <2>3. CASE TargetFails
    BY <2>3 DEF TargetFails, Typed, ReaderTyped, Path
  <2>4. CASE DeniedPath
    BY <2>4 DEF DeniedPath, Typed, ReaderTyped, Path
  <2> QED
    BY <2>1, <2>2, <2>3, <2>4 DEF Opens
<1> QED
  BY <1>1, <1>2 DEF Typed

LEMMA ReadsTyped == ASSUME Typed, Reads PROVE Typed'
<1>1. /\ ToRead /\ Deliver
      /\ UNCHANGED <<kind, listing, content, created, written, accidents, starts, stage, handle,
                     current, target, fromEnd, stopping>>
  BY DEF Reads, ReadLine, Drain, files
<1>2. ReaderTyped'
  BY <1>1, DeliverTyped
<1> QED
  BY <1>1, <1>2 DEF Typed, FilesTyped

LEMMA MovesTyped == ASSUME Typed, Moves PROVE Typed'
<1>1. /\ UNCHANGED <<kind, listing, content, created, written, accidents, starts, current,
                     fromEnd, stopping, delivered>>
  BY DEF Moves, EndOfPath, CheckPath, StopPath, Rescan, Drained, files
<1>2. FilesTyped'
  BY <1>1 DEF Typed, FilesTyped
<1>3. target' \in Files \cup {None}
  BY NamedIsFile DEF Moves, EndOfPath, CheckPath, StopPath, Rescan, Drained, Typed,
     ReaderTyped
<1>4. ReaderTyped'
  <2>1. CASE EndOfPath
    BY <1>1, <1>3, <2>1 DEF EndOfPath, Typed, ReaderTyped, Path
  <2>2. CASE CheckPath
    BY <1>1, <1>3, <2>2 DEF CheckPath, Typed, ReaderTyped, Path
  <2>3. CASE StopPath
    BY <1>1, <1>3, <2>3 DEF StopPath, Typed, ReaderTyped, Path
  <2>4. CASE Rescan
    BY <1>1, <1>3, <2>4 DEF Rescan, Typed, ReaderTyped, Path
  <2>5. CASE Drained
    BY <1>1, <1>3, <2>5 DEF Drained, Typed, ReaderTyped, Path
  <2> QED
    BY <2>1, <2>2, <2>3, <2>4, <2>5 DEF Moves
<1> QED
  BY <1>2, <1>4 DEF Typed

LEMMA StepTyped == Typed /\ [Next]_vars => Typed'
<1> SUFFICES ASSUME Typed, [Next]_vars PROVE Typed'
  OBVIOUS
<1>1. CASE Writes \/ Opens \/ Reads \/ Moves
  BY <1>1, WritesTyped, OpensTyped, ReadsTyped, MovesTyped
<1>2. CASE Start \/ Stop \/ Exit
  <2>1. UNCHANGED <<kind, listing, content, created, written, accidents, delivered>>
    BY <1>2 DEF Start, Stop, Exit, files, reader
  <2>2. FilesTyped'
    BY <2>1 DEF Typed, FilesTyped
  <2>3. starts' \in Nat /\ starts' <= MaxStarts
    BY <1>2, Sizes DEF Start, Stop, Exit, Typed, ReaderTyped
  <2>4. ReaderTyped'
    <3>1. CASE Start
      BY <2>1, <2>3, <3>1 DEF Start, Typed, ReaderTyped, Path
    <3>2. CASE Stop
      BY <2>1, <2>3, <3>2 DEF Stop, reader, Typed, ReaderTyped, Path
    <3>3. CASE Exit
      BY <2>1, <2>3, <3>3 DEF Exit, Typed, ReaderTyped, Path
    <3> QED
      BY <1>2, <3>1, <3>2, <3>3
  <2> QED
    BY <2>2, <2>4 DEF Typed
<1>3. CASE \E f \in Files : RescanRaises(f)
  <2>1. PICK f \in Files : RescanRaises(f)
    BY <1>3
  <2>2. FilesTyped'
    BY <2>1, LeaveListingTyped DEF Typed
  <2> QED
    BY <2>1, <2>2 DEF RescanRaises, Typed, ReaderTyped, Path
<1>4. CASE UNCHANGED vars
  BY <1>4 DEF vars, files, reader, Typed, FilesTyped, ReaderTyped, Path
<1> QED
  BY <1>1, <1>2, <1>3, <1>4, NextIs

(* Every variable keeps its type: the listed files stay distinct, the lines *)
(* of a file are lines that were written, and a file is open whenever its  *)
(* end is compared with the path or its rest is drained.                   *)
THEOREM TypeCorrect == Spec => []TypeOK
BY InitTyped, StepTyped, TypedIsTypeOK, PTL DEF Spec

-----------------------------------------------------------------------------
(* Once and in order.  The pieces of a file follow each other: lines grow, *)
(* and a line in two parts is its head, then its rest.  What was delivered *)
(* of a file comes before what will be written next to it, and, on a path, *)
(* before every piece that the open file still holds unread: that is what  *)
(* opening at the end gives.                                               *)
Before(d, p) == \/ d.line < p.line
                \/ d.line = p.line /\ d.part = "head" /\ p.part = "rest"
RestOf(f) == [line |-> Last(content[f]).line, part |-> "rest"]

Sorted == \A f \in Files : \A a, b \in DOMAIN content[f] :
             a < b => Before(content[f][a], content[f][b])
WrittenInv ==
    /\ \A f \in Files : \A a \in DOMAIN content[f] : content[f][a].line <= written
    /\ \A i \in DOMAIN delivered : delivered[i].line <= written
RestInv == \A i \in DOMAIN delivered :
    Unfinished(delivered[i].file) => Before(delivered[i], RestOf(delivered[i].file))
AheadInv ==
    Path /\ handle # None =>
        \A i \in DOMAIN delivered : delivered[i].file = handle =>
            \A k \in DOMAIN content[handle] :
                k > pos => Before(delivered[i], content[handle][k])
Ordered == Sorted /\ WrittenInv /\ RestInv /\ AheadInv /\ PathDeliversOnce

(* The types of the parts, for the provers.                                *)
LEMMA ContentTypes ==
  ASSUME Typed, NEW f \in Files
  PROVE  /\ content[f] \in Seq(Pieces) /\ Len(content[f]) \in Nat
         /\ DOMAIN content[f] = 1 .. Len(content[f])
         /\ \A a \in DOMAIN content[f] : content[f][a] \in Pieces /\ content[f][a].line \in Nat
<1>1. content[f] \in Seq(Pieces)
  BY DEF Typed, FilesTyped
<1>2. \A a \in DOMAIN content[f] : content[f][a] \in Pieces
  BY <1>1, LenProperties, ElementOfSeq
<1>3. \A p \in Pieces : p.line \in Nat
  BY Sizes DEF Pieces
<1> QED
  BY <1>1, <1>2, <1>3, LenProperties

LEMMA DeliveredTypes ==
  ASSUME Typed
  PROVE  /\ delivered \in Seq(Reports) /\ Len(delivered) \in Nat
         /\ DOMAIN delivered = 1 .. Len(delivered)
         /\ \A i \in DOMAIN delivered : delivered[i].file \in Files /\ delivered[i].line \in Nat
<1>1. delivered \in Seq(Reports)
  BY DEF Typed, ReaderTyped
<1>2. \A i \in DOMAIN delivered : delivered[i] \in Reports
  BY <1>1, LenProperties, ElementOfSeq
<1>3. \A r \in Reports : r.file \in Files /\ r.line \in Nat
  BY Sizes DEF Reports
<1> QED
  BY <1>1, <1>2, <1>3, LenProperties

(* What is written next to a file comes after all that it holds, and after *)
(* all that was delivered of it.                                           *)
LEMMA PieceComesAfter ==
  ASSUME Typed, Ordered, NEW f \in Files, NEW piece \in Piece(f)
  PROVE  /\ piece.line \in Nat /\ piece.part \in Parts
         /\ \A a \in DOMAIN content[f] : Before(content[f][a], piece)
         /\ \A i \in DOMAIN delivered : delivered[i].file = f => Before(delivered[i], piece)
         /\ piece.part = "head" => piece.line = written + 1
<1>1. written \in Nat
  BY DEF Typed, FilesTyped
<1>2. CASE Unfinished(f)
  <2>1. piece = RestOf(f) /\ piece.part = "rest" /\ piece.line = Last(content[f]).line
    BY <1>2 DEF Piece, RestOf
  <2>2. /\ Len(content[f]) \in DOMAIN content[f] /\ Last(content[f]) = content[f][Len(content[f])]
        /\ Last(content[f]).part = "head"
    BY <1>2, ContentTypes, EmptySeq DEF Unfinished, Last
  <2>3. ASSUME NEW a \in DOMAIN content[f] PROVE Before(content[f][a], piece)
    <3>1. CASE a = Len(content[f])
      BY <2>1, <2>2, <3>1 DEF Before
    <3>2. CASE a # Len(content[f])
      <4>1. a < Len(content[f])
        BY <3>2, ContentTypes
      <4>2. Before(content[f][a], Last(content[f]))
        BY <2>2, <4>1 DEF Ordered, Sorted
      <4>3. content[f][a].line < Last(content[f]).line
        BY <2>2, <4>2 DEF Before
      <4> QED
        BY <2>1, <4>3 DEF Before
    <3> QED
      BY <3>1, <3>2
  <2>4. \A i \in DOMAIN delivered : delivered[i].file = f => Before(delivered[i], piece)
    BY <1>2, <2>1 DEF Ordered, RestInv
  <2>5. piece.line \in Nat
    BY <2>1, <2>2, ContentTypes
  <2> QED
    BY <2>1, <2>3, <2>4, <2>5 DEF Parts
<1>3. CASE ~Unfinished(f)
  <2>1. piece.line = written + 1 /\ piece.part \in {"whole", "head"}
    BY <1>3 DEF Piece
  <2>2. \A a \in DOMAIN content[f] : content[f][a].line <= written /\ content[f][a].line \in Nat
    BY ContentTypes DEF Ordered, WrittenInv
  <2>3. \A i \in DOMAIN delivered : delivered[i].line <= written /\ delivered[i].line \in Nat
    BY DeliveredTypes DEF Ordered, WrittenInv
  <2>4. \A a \in DOMAIN content[f] : Before(content[f][a], piece)
    BY <1>1, <2>1, <2>2 DEF Before
  <2>5. \A i \in DOMAIN delivered : Before(delivered[i], piece)
    BY <1>1, <2>1, <2>3 DEF Before
  <2> QED
    BY <1>1, <2>1, <2>4, <2>5 DEF Parts
<1> QED
  BY <1>2, <1>3

(* The content of the files after a write.                                 *)
LEMMA WrittenContent ==
  ASSUME Typed, NEW f \in Files, NEW piece \in Pieces,
         content' = [content EXCEPT ![f] = Append(content[f], piece)]
  PROVE  /\ DOMAIN content'[f] = 1 .. Len(content[f]) + 1
         /\ Len(content'[f]) = Len(content[f]) + 1 /\ content'[f] # <<>>
         /\ content'[f][Len(content[f]) + 1] = piece /\ Last(content'[f]) = piece
         /\ \A a \in DOMAIN content[f] : content'[f][a] = content[f][a]
         /\ \A a \in DOMAIN content'[f] : a \in DOMAIN content[f] \/ a = Len(content[f]) + 1
         /\ \A g \in Files : g # f => content'[g] = content[g]
<1>1. content'[f] = Append(content[f], piece) /\ \A g \in Files : g # f => content'[g] = content[g]
  BY DEF Typed, FilesTyped
<1>2. content[f] \in Seq(Pieces)
  BY ContentTypes
<1>3. /\ Append(content[f], piece) \in Seq(Pieces) /\ Append(content[f], piece) # <<>>
      /\ Len(Append(content[f], piece)) = Len(content[f]) + 1
      /\ \A a \in 1 .. Len(content[f]) : Append(content[f], piece)[a] = content[f][a]
      /\ Append(content[f], piece)[Len(content[f]) + 1] = piece
  BY <1>2, AppendProperties
<1>4. DOMAIN Append(content[f], piece) = 1 .. Len(content[f]) + 1
  BY <1>3, LenProperties
<1>5. /\ Len(content[f]) \in Nat /\ DOMAIN content[f] = 1 .. Len(content[f])
  BY ContentTypes
<1> QED
  BY <1>1, <1>3, <1>4, <1>5 DEF Last

LEMMA WriteOrdered ==
  ASSUME Typed, Ordered, NEW f \in Files, Write(f)
  PROVE  Ordered'
<1>1. PICK piece \in Pieces :
         /\ piece \in Piece(f) /\ piece.line <= MaxLines
         /\ content' = [content EXCEPT ![f] = Append(content[f], piece)]
         /\ written' = IF piece.line > written THEN piece.line ELSE written
  BY WriteAppends DEF Typed
<1>2. UNCHANGED <<kind, handle, pos, delivered>>
  BY DEF Write, reader
<1>3. /\ piece.line \in Nat /\ written \in Nat
      /\ \A a \in DOMAIN content[f] : Before(content[f][a], piece)
      /\ \A i \in DOMAIN delivered : delivered[i].file = f => Before(delivered[i], piece)
      /\ piece.part = "head" => piece.line = written + 1
  BY <1>1, PieceComesAfter DEF Typed, FilesTyped
<1>4. written' \in Nat /\ piece.line <= written' /\ written <= written'
  BY <1>1, <1>3
<1> DEFINE n == Len(content[f]) + 1
<1>5. /\ n \in Nat /\ DOMAIN content[f] = 1 .. n - 1
      /\ content'[f][n] = piece /\ Last(content'[f]) = piece
      /\ \A a \in DOMAIN content[f] : a < n /\ content'[f][a] = content[f][a]
      /\ \A a \in DOMAIN content'[f] : a \in DOMAIN content[f] \/ a = n
      /\ \A g \in Files : g # f => content'[g] = content[g]
  <2>1. /\ DOMAIN content'[f] = 1 .. n
        /\ content'[f][n] = piece /\ Last(content'[f]) = piece
        /\ \A a \in DOMAIN content[f] : content'[f][a] = content[f][a]
        /\ \A a \in DOMAIN content'[f] : a \in DOMAIN content[f] \/ a = n
        /\ \A g \in Files : g # f => content'[g] = content[g]
    BY <1>1, WrittenContent
  <2>2. Len(content[f]) \in Nat /\ DOMAIN content[f] = 1 .. Len(content[f])
    BY ContentTypes
  <2>3. n \in Nat /\ DOMAIN content[f] = 1 .. n - 1 /\ \A a \in DOMAIN content[f] : a < n
    BY <2>2
  <2> QED
    BY <2>1, <2>3
<1> HIDE DEF n
<1>6. Sorted'
  <2>1. ASSUME NEW a \in DOMAIN content'[f], NEW b \in DOMAIN content'[f], a < b
        PROVE  Before(content'[f][a], content'[f][b])
    <3>1. a \in DOMAIN content[f]
      BY <1>5, <2>1
    <3>2. CASE b \in DOMAIN content[f]
      BY <1>5, <2>1, <3>1, <3>2 DEF Ordered, Sorted
    <3>3. CASE b = n
      BY <1>3, <1>5, <3>1, <3>3
    <3> QED
      BY <1>5, <3>2, <3>3
  <2> QED
    BY <1>5, <2>1 DEF Ordered, Sorted
<1>7. WrittenInv'
  <2>1. ASSUME NEW g \in Files, NEW a \in DOMAIN content'[g]
        PROVE  content'[g][a].line <= written'
    <3>1. CASE g \in Files /\ a \in DOMAIN content[g] /\ content'[g][a] = content[g][a]
      <4>1. content[g][a].line <= written /\ content[g][a].line \in Nat
        BY <3>1, ContentTypes DEF Ordered, WrittenInv
      <4> QED
        BY <1>3, <1>4, <3>1, <4>1
    <3>2. CASE g = f /\ a = n
      BY <1>4, <1>5, <3>2
    <3> QED
      BY <1>5, <3>1, <3>2
  <2>2. ASSUME NEW i \in DOMAIN delivered' PROVE delivered'[i].line <= written'
    <3>1. i \in DOMAIN delivered /\ delivered'[i] = delivered[i]
      BY <1>2
    <3>2. delivered[i].line <= written /\ delivered[i].line \in Nat
      BY <3>1, DeliveredTypes DEF Ordered, WrittenInv
    <3> QED
      BY <1>3, <1>4, <3>1, <3>2
  <2> QED
    BY <2>1, <2>2 DEF WrittenInv
<1>8. RestInv'
  <2> SUFFICES ASSUME NEW i \in DOMAIN delivered, Unfinished(delivered[i].file)'
               PROVE  Before(delivered[i], RestOf(delivered[i].file)')
    BY <1>2 DEF RestInv
  <2>1. delivered[i].file \in Files /\ delivered[i].line \in Nat
    BY DeliveredTypes
  <2>2. CASE delivered[i].file = f
    <3>1. piece.part = "head" /\ RestOf(delivered[i].file)' = [line |-> piece.line, part |-> "rest"]
      BY <1>2, <1>5, <2>2 DEF Unfinished, RestOf
    <3>2. delivered[i].line < piece.line
      BY <1>3, <2>1, <3>1 DEF Ordered, WrittenInv
    <3> QED
      BY <3>1, <3>2 DEF Before
  <2>3. CASE delivered[i].file # f
    <3>1. content'[delivered'[i].file] = content[delivered[i].file]
      BY <1>2, <1>5, <2>1, <2>3
    <3> QED
      BY <1>2, <3>1 DEF Ordered, RestInv, Unfinished, RestOf
  <2> QED
    BY <2>2, <2>3
<1>9. AheadInv'
  <2> SUFFICES ASSUME Path, handle # None, NEW i \in DOMAIN delivered, delivered[i].file = handle,
                      NEW k \in DOMAIN content'[handle], k > pos
               PROVE  Before(delivered[i], content'[handle][k])
    BY <1>2 DEF AheadInv, Path
  <2>1. handle \in Files
    BY DEF Typed, ReaderTyped
  <2>2. CASE k \in DOMAIN content[handle] /\ content'[handle][k] = content[handle][k]
    BY <2>2 DEF Ordered, AheadInv
  <2>3. CASE handle = f /\ k = n
    BY <1>3, <1>5, <2>3
  <2> QED
    BY <1>5, <2>1, <2>2, <2>3
<1>10. PathDeliversOnce'
  BY <1>2 DEF Ordered, PathDeliversOnce, Path
<1> QED
  BY <1>6, <1>7, <1>8, <1>9, <1>10 DEF Ordered

(* The list of deliveries after one more.                                  *)
LEMMA DeliveredAppended ==
  ASSUME Typed, NEW report \in Reports, delivered' = Append(delivered, report)
  PROVE  /\ DOMAIN delivered' = 1 .. Len(delivered) + 1
         /\ delivered'[Len(delivered) + 1] = report
         /\ \A i \in DOMAIN delivered : i \in DOMAIN delivered' /\ delivered'[i] = delivered[i]
         /\ \A i \in DOMAIN delivered' : i \in DOMAIN delivered \/ i = Len(delivered) + 1
         /\ Len(delivered) + 1 \in DOMAIN delivered'
<1>1. delivered \in Seq(Reports) /\ Len(delivered) \in Nat /\ DOMAIN delivered = 1 .. Len(delivered)
  BY DeliveredTypes
<1>2. /\ delivered' \in Seq(Reports) /\ Len(delivered') = Len(delivered) + 1
      /\ \A i \in 1 .. Len(delivered) : delivered'[i] = delivered[i]
      /\ delivered'[Len(delivered) + 1] = report
  BY <1>1, AppendProperties
<1>3. DOMAIN delivered' = 1 .. Len(delivered) + 1
  BY <1>2, LenProperties
<1> QED
  BY <1>1, <1>2, <1>3

(* A line delivered in one piece of its two comes before what follows the  *)
(* second.                                                                 *)
LEMMA PastBoth ==
  ASSUME Typed, Sorted, NEW f \in Files, NEW a \in Nat, a >= 1, NEW k \in DOMAIN content[f],
         a + 1 < k
  PROVE  content[f][a].line < content[f][k].line
<1>1. /\ DOMAIN content[f] = 1 .. Len(content[f]) /\ Len(content[f]) \in Nat
      /\ \A b \in DOMAIN content[f] : content[f][b].line \in Nat
  BY ContentTypes
<1>2. a \in DOMAIN content[f] /\ a + 1 \in DOMAIN content[f] /\ a < a + 1
  BY <1>1
<1>3. Before(content[f][a], content[f][a + 1]) /\ Before(content[f][a + 1], content[f][k])
  BY <1>2 DEF Sorted
<1> QED
  BY <1>1, <1>2, <1>3 DEF Before

LEMMA ReadsOrdered ==
  ASSUME Typed, Ordered, Reads
  PROVE  Ordered'
<1>1. ToRead /\ Deliver /\ UNCHANGED <<kind, content, written, handle>>
  BY DEF Reads, ReadLine, Drain, files
<1> DEFINE piece == content[handle][pos + 1]
           m == Len(delivered) + 1
<1>2. /\ handle \in Files /\ pos + 1 \in DOMAIN content[handle] /\ piece \in Pieces
      /\ pos \in Nat /\ pos' \in Nat /\ pos' > pos /\ pos' <= Len(content[handle])
  BY <1>1, DeliverAppends DEF Typed, ReaderTyped
<1>3. PICK report \in Reports :
         /\ delivered' = Append(delivered, report)
         /\ report.file = handle /\ report.line = piece.line
         /\ \/ report.part = piece.part /\ pos' = pos + 1
            \/ piece.part = "head" /\ report.part = "whole" /\ pos' = pos + 2
  BY <1>1, DeliverAppends
<1>4. /\ DOMAIN content[handle] = 1 .. Len(content[handle]) /\ Len(content[handle]) \in Nat
      /\ piece.line \in Nat
      /\ \A k \in DOMAIN content[handle] : content[handle][k].line \in Nat
  BY <1>2, ContentTypes
<1>5. \A k \in DOMAIN content[handle] : k > pos + 1 => Before(piece, content[handle][k])
  BY <1>2, <1>4 DEF Ordered, Sorted
<1>6. ASSUME NEW k \in DOMAIN content[handle], k > pos'
      PROVE  Before(report, content[handle][k])
  <2>1. CASE report.part = piece.part /\ pos' = pos + 1
    <3>1. Before(piece, content[handle][k])
      BY <1>5, <1>6, <2>1
    <3> QED
      BY <1>3, <2>1, <3>1 DEF Before
  <2>2. CASE piece.part = "head" /\ report.part = "whole" /\ pos' = pos + 2
    <3>1. pos + 1 \in Nat /\ pos + 1 >= 1 /\ pos + 1 + 1 < k
      BY <1>2, <1>6, <2>2
    <3>2. piece.line < content[handle][k].line
      BY <1>2, <3>1, PastBoth DEF Ordered
    <3> QED
      BY <1>3, <3>2 DEF Before
  <2> QED
    BY <1>3, <2>1, <2>2
<1>7. ASSUME Path, NEW i \in DOMAIN delivered, delivered[i].file = handle
      PROVE  Before(delivered[i], report)
  <2>1. handle # None /\ pos + 1 > pos
    BY <1>1, <1>2 DEF ToRead
  <2>2. Before(delivered[i], piece)
    BY <1>2, <1>7, <2>1 DEF Ordered, AheadInv
  <2> QED
    BY <1>3, <2>2 DEF Before
<1>8. Unfinished(handle) => Before(report, RestOf(handle))
  <2> SUFFICES ASSUME Unfinished(handle) PROVE Before(report, RestOf(handle))
    OBVIOUS
  <2> DEFINE n == Len(content[handle])
  <2>1. Last(content[handle]).part = "head" /\ Last(content[handle]) = content[handle][n]
    BY DEF Unfinished, Last
  <2>2. n \in DOMAIN content[handle] /\ (pos + 1 = n \/ pos + 1 < n)
    BY <1>2, <1>4
  <2>3. CASE pos + 1 = n
    <3>1. report.part = piece.part /\ piece = Last(content[handle])
      BY <1>2, <1>3, <2>1, <2>3
    <3> QED
      BY <1>3, <2>1, <3>1 DEF Before, RestOf
  <2>4. CASE pos + 1 < n
    <3>1. Before(piece, Last(content[handle]))
      BY <1>5, <2>1, <2>2, <2>4
    <3>2. piece.line < Last(content[handle]).line
      BY <2>1, <3>1 DEF Before
    <3> QED
      BY <1>3, <3>2 DEF Before, RestOf
  <2> QED
    BY <2>2, <2>3, <2>4
<1>9. report.line <= written
  BY <1>2, <1>3 DEF Ordered, WrittenInv
<1>10. /\ \A i \in DOMAIN delivered : delivered'[i] = delivered[i]
       /\ delivered'[m] = report
       /\ \A i \in DOMAIN delivered' : i \in DOMAIN delivered \/ i = m
       /\ m \notin DOMAIN delivered /\ \A i \in DOMAIN delivered : i < m
  <2>1. Len(delivered) \in Nat /\ DOMAIN delivered = 1 .. Len(delivered)
    BY DeliveredTypes
  <2>2. m \notin DOMAIN delivered /\ \A i \in DOMAIN delivered : i < m
    BY <2>1
  <2> QED
    BY <1>3, <2>2, DeliveredAppended
<1> HIDE DEF piece, m
<1>11. Sorted'
  BY <1>1 DEF Ordered, Sorted
<1>12. WrittenInv'
  BY <1>1, <1>9, <1>10 DEF Ordered, WrittenInv
<1>13. RestInv'
  <2> SUFFICES ASSUME NEW i \in DOMAIN delivered', Unfinished(delivered'[i].file)
               PROVE  Before(delivered'[i], RestOf(delivered'[i].file))
    BY <1>1 DEF RestInv, Unfinished, RestOf
  <2>1. CASE i \in DOMAIN delivered
    BY <1>10, <2>1 DEF Ordered, RestInv
  <2>2. CASE i = m
    BY <1>3, <1>8, <1>10, <2>2
  <2> QED
    BY <1>10, <2>1, <2>2
<1>14. AheadInv'
  <2> SUFFICES ASSUME Path, handle # None,
                      NEW i \in DOMAIN delivered', delivered'[i].file = handle,
                      NEW k \in DOMAIN content[handle], k > pos'
               PROVE  Before(delivered'[i], content[handle][k])
    BY <1>1 DEF AheadInv, Path
  <2>1. k > pos
    BY <1>2, <1>4
  <2>2. CASE i \in DOMAIN delivered
    BY <1>10, <2>1, <2>2 DEF Ordered, AheadInv
  <2>3. CASE i = m
    BY <1>6, <1>10, <2>3
  <2> QED
    BY <1>10, <2>2, <2>3
<1>15. PathDeliversOnce'
  <2> SUFFICES ASSUME Path, NEW i \in DOMAIN delivered', NEW j \in DOMAIN delivered', i < j,
                      delivered'[i].file = delivered'[j].file
               PROVE  Before(delivered'[i], delivered'[j])
    BY <1>1 DEF PathDeliversOnce, Path, Before
  <2>1. i \in DOMAIN delivered
    <3>1. ~(m < j)
      <4>1. j \in Nat /\ m \in Nat /\ (j \in DOMAIN delivered => j < m)
        BY <1>10, DeliveredTypes DEF m
      <4> QED
        BY <1>10, <4>1
    <3> QED
      BY <1>10, <3>1
  <2>2. CASE j \in DOMAIN delivered
    BY <1>10, <2>1, <2>2 DEF Ordered, PathDeliversOnce, Before
  <2>3. CASE j = m
    BY <1>3, <1>7, <1>10, <2>1, <2>3
  <2> QED
    BY <1>10, <2>2, <2>3
<1> QED
  BY <1>11, <1>12, <1>13, <1>14, <1>15 DEF Ordered

(* A step that neither writes nor delivers: the file is the same, or none, *)
(* or one that is opened at its end.                                       *)
LEMMA NothingRead ==
  ASSUME Typed, Ordered, UNCHANGED <<kind, content, written, delivered>>,
         \/ handle' = None \/ UNCHANGED <<handle, pos>> \/ ~Path
         \/ handle' \in Files /\ pos' = Len(content[handle'])
  PROVE  Ordered'
<1>1. Sorted' /\ WrittenInv' /\ RestInv' /\ PathDeliversOnce'
  BY DEF Ordered, Sorted, WrittenInv, RestInv, Unfinished, RestOf, PathDeliversOnce, Path
<1>2. AheadInv'
  <2>1. CASE handle' = None \/ UNCHANGED <<handle, pos>> \/ ~Path
    BY <2>1 DEF Ordered, AheadInv, Path
  <2>2. CASE handle' \in Files /\ pos' = Len(content[handle'])
    <3>1. \A k \in DOMAIN content[handle'] : ~(k > pos')
      BY <2>2, ContentTypes
    <3> QED
      BY <3>1 DEF AheadInv
  <2> QED
    BY <2>1, <2>2
<1> QED
  BY <1>1, <1>2 DEF Ordered

LEMMA TruncateOrdered ==
  ASSUME Typed, Ordered, Truncate
  PROVE  Ordered'
<1>1. /\ Named \in Files /\ UNCHANGED <<kind, written, handle, pos, delivered>>
      /\ content' = [content EXCEPT ![Named] = <<>>]
  BY NamedIsFile DEF Truncate, Typed, reader
<1>2. /\ content'[Named] = <<>> /\ DOMAIN content'[Named] = {}
      /\ \A g \in Files : g # Named => content'[g] = content[g]
  BY <1>1 DEF Typed, FilesTyped
<1>3. Sorted'
  BY <1>2 DEF Ordered, Sorted
<1>4. WrittenInv'
  BY <1>1, <1>2 DEF Ordered, WrittenInv
<1>5. RestInv'
  <2> SUFFICES ASSUME NEW i \in DOMAIN delivered, Unfinished(delivered[i].file)'
               PROVE  Before(delivered[i], RestOf(delivered[i].file)')
    BY <1>1 DEF RestInv
  <2>1. delivered[i].file \in Files /\ delivered[i].file # Named
    BY <1>1, <1>2, DeliveredTypes DEF Unfinished
  <2> QED
    BY <1>1, <1>2, <2>1 DEF Ordered, RestInv, Unfinished, RestOf
<1>6. AheadInv'
  <2>1. handle \in Files \cup {None}
    BY DEF Typed, ReaderTyped
  <2> QED
    BY <1>1, <1>2, <2>1 DEF Ordered, AheadInv, Path
<1>7. PathDeliversOnce'
  BY <1>1 DEF Ordered, PathDeliversOnce, Path
<1> QED
  BY <1>3, <1>4, <1>5, <1>6, <1>7 DEF Ordered

LEMMA InitOrdered == Init => Ordered
<1> SUFFICES ASSUME Init PROVE Ordered
  OBVIOUS
<1>1. DOMAIN delivered = {} /\ handle = None /\ \A f \in Files : DOMAIN content[f] = {}
  BY DEF Init
<1> QED
  BY <1>1 DEF Ordered, Sorted, WrittenInv, RestInv, AheadInv, PathDeliversOnce

LEMMA StepOrdered == Typed /\ Ordered /\ [Next]_vars => Ordered'
<1> SUFFICES ASSUME Typed, Ordered, [Next]_vars PROVE Ordered'
  OBVIOUS
<1>1. CASE Writes
  <2>1. CASE Create \/ \E f \in Files : Disappear(f)
    <3>1. UNCHANGED <<kind, content, written, delivered, handle, pos>>
      BY <2>1 DEF Create, Disappear, reader
    <3> QED
      BY <3>1, NothingRead
  <2> QED
    BY <1>1, <2>1, WriteOrdered, TruncateOrdered DEF Writes
<1>2. CASE Reads
  BY <1>2, ReadsOrdered
<1>3. CASE Opens
  <2>1. UNCHANGED <<kind, content, written, delivered>>
    BY <1>3 DEF Opens, OpenPath, OpenTarget, TargetFails, DeniedPath, files
  <2>2. \/ UNCHANGED <<handle, pos>> \/ ~Path
        \/ handle' \in Files /\ pos' = Len(content[handle'])
    BY <1>3, NamedIsFile
    DEF Opens, OpenPath, OpenTarget, TargetFails, DeniedPath, Path, Typed
  <2> QED
    BY <2>1, <2>2, NothingRead
<1>4. CASE Moves \/ Start \/ Exit \/ Stop \/ (\E f \in Files : RescanRaises(f)) \/ UNCHANGED vars
  <2>1. UNCHANGED <<kind, content, written, delivered>>
    BY <1>4 DEF Moves, EndOfPath, CheckPath, StopPath, Rescan, Drained, Start, Exit, Stop,
       RescanRaises, vars, files, reader
  <2>2. handle' = None \/ UNCHANGED <<handle, pos>>
    BY <1>4 DEF Moves, EndOfPath, CheckPath, StopPath, Rescan, Drained, Start, Exit, Stop,
       RescanRaises, vars, files, reader
  <2> QED
    BY <2>1, <2>2, NothingRead
<1> QED
  BY <1>1, <1>2, <1>3, <1>4, NextIs

(* A path never gives a line twice, nor the lines of a file out of order,  *)
(* over any number of rotations, truncations, removals and restarts, and   *)
(* though a program may still write to the file that was rotated.          *)
THEOREM PathDeliversOnceHolds == Spec => []PathDeliversOnce
<1>1. Init => Typed /\ Ordered
  BY InitTyped, InitOrdered
<1>2. Typed /\ Ordered /\ [Next]_vars => (Typed /\ Ordered)'
  BY StepTyped, StepOrdered
<1>3. Ordered => PathDeliversOnce
  BY DEF Ordered
<1> QED
  BY <1>1, <1>2, <1>3, PTL DEF Spec

-----------------------------------------------------------------------------
(* No hole.  In a run without accident, a path names the file that was     *)
(* created last and is opened once for each; the pattern mode has read     *)
(* nothing when it opens its first file at the end, and begins the others  *)
(* at their start.                                                         *)
Once == starts <= 1 /\ accidents = 0
PathNames ==
    /\ \A i \in DOMAIN listing : listing[i] = created
    /\ listing = <<>> => created = 0
    /\ kind = "fixed" => created <= 1
    /\ handle <= created
    /\ \A i \in DOMAIN delivered : delivered[i].file <= created
    /\ handle # None => \A i \in DOMAIN delivered : delivered[i].file <= handle
    /\ stage = "open" => \A i \in DOMAIN delivered : delivered[i].file < created
NamesInv ==
    /\ starts = 0 => stage = "off" /\ delivered = <<>>
    /\ Once /\ Path => PathNames
    /\ Once /\ ~Path /\ fromEnd => handle = None /\ delivered = <<>>

(* Of the open file, every line at or before `pos` that is not before one  *)
(* that was given was given.                                               *)
Was(n) == \E g \in DOMAIN delivered : delivered[g].line = n
ReadInv ==
    Once /\ handle # None =>
        /\ pos <= Len(content[handle])
        /\ \A i \in DOMAIN delivered : delivered[i].file = handle =>
              \A k \in DOMAIN content[handle] :
                 k <= pos /\ delivered[i].line <= content[handle][k].line
                 => Was(content[handle][k].line)

(* A line in two parts is finished before another is begun.                *)
HeadInv == \A f \in Files : \A a \in DOMAIN content[f] :
    a + 1 \in DOMAIN content[f] /\ content[f][a].part = "head"
    => content[f][a + 1].line = content[f][a].line

(* What NoHole says, also before the first start.                          *)
Between(i, j) == {content[delivered[i].file][k].line :
                     k \in {k \in DOMAIN content[delivered[i].file] :
                              /\ delivered[i].line <= content[delivered[i].file][k].line
                              /\ content[delivered[i].file][k].line <= delivered[j].line}}
HoleInv ==
    Once => \A i, j \in DOMAIN delivered :
        i < j /\ delivered[i].file = delivered[j].file =>
            \A n \in Between(i, j) : \E g \in 1 .. j : delivered[g].line = n

Whole == HeadInv /\ NamesInv /\ ReadInv /\ HoleInv

LEMMA HoleIsNoHole == Typed /\ HoleInv => NoHole
<1> SUFFICES ASSUME Typed, HoleInv, starts = 1, accidents = 0,
                    NEW i \in DOMAIN delivered, NEW j \in DOMAIN delivered,
                    i < j, delivered[i].file = delivered[j].file,
                    NEW k \in DOMAIN content[delivered[i].file],
                    content[delivered[i].file][k].line \in delivered[i].line .. delivered[j].line
             PROVE  \E g \in 1 .. j : delivered[g].line = content[delivered[i].file][k].line
  BY DEF NoHole
<1>1. Once
  BY DEF Once
<1>2. delivered[i].line \in Nat /\ delivered[j].line \in Nat
  BY DeliveredTypes
<1>3. content[delivered[i].file][k].line \in Between(i, j)
  BY <1>2 DEF Between
<1> QED
  BY <1>1, <1>3 DEF HoleInv

LEMMA InitWhole == Init => Whole
<1> SUFFICES ASSUME Init PROVE Whole
  OBVIOUS
<1>1. /\ DOMAIN delivered = {} /\ DOMAIN listing = {} /\ delivered = <<>> /\ stage = "off"
      /\ handle = None /\ created = 0 /\ \A f \in Files : DOMAIN content[f] = {}
  BY DEF Init
<1>2. NamesInv
  BY <1>1 DEF NamesInv, PathNames, None
<1> QED
  BY <1>1, <1>2 DEF Whole, HeadInv, ReadInv, HoleInv

(* Starts and accidents only grow: what held without one more holds after. *)
LEMMA StillOnce ==
  ASSUME Typed, [Next]_vars, Once'
  PROVE  /\ Once /\ accidents' = accidents
         /\ (Start /\ starts = 0) \/ starts' = starts
<1>1. accidents \in Nat /\ starts \in Nat
  BY DEF Typed, FilesTyped, ReaderTyped
<1>2. accidents' = accidents \/ accidents' = accidents + 1
  BY DEF Next, Thread, OpenPath, ReadLine, EndOfPath, CheckPath, StopPath, Rescan, Drain,
     Drained, OpenTarget, DeniedPath, TargetFails, Start, Stop, Exit, Create, Truncate,
     Write, Disappear, RescanRaises, Accident, vars, files
<1>3. starts' = starts \/ (Start /\ starts' = starts + 1)
  BY DEF Next, Thread, OpenPath, ReadLine, EndOfPath, CheckPath, StopPath, Rescan, Drain,
     Drained, OpenTarget, DeniedPath, TargetFails, Start, Stop, Exit, Create, Truncate,
     Write, Disappear, RescanRaises, vars, files
<1> QED
  BY <1>1, <1>2, <1>3 DEF Once

(* What each step does when there was neither accident nor restart.        *)
LEMMA NoAccident ==
  ASSUME Typed, accidents' = accidents
  PROVE  /\ ~Truncate /\ ~DeniedPath
         /\ \A f \in Files : ~Disappear(f) /\ ~RescanRaises(f)
<1>1. ~Accident
  BY DEF Accident, Typed, FilesTyped
<1> QED
  BY <1>1 DEF Truncate, DeniedPath, Disappear, RescanRaises

LEMMA NotStarted ==
  ASSUME Typed, NamesInv, [Next]_vars, starts' = 0
  PROVE  stage' = "off" /\ delivered' = <<>>
<1>1. starts = 0
  <2>1. starts \in Nat /\ (starts' = starts \/ starts' = starts + 1)
    BY DEF Typed, ReaderTyped, Next, Thread, OpenPath, ReadLine, EndOfPath, CheckPath, StopPath,
       Rescan, Drain, Drained, OpenTarget, DeniedPath, TargetFails, Start, Stop, Exit, Create,
       Truncate, Write, Disappear, RescanRaises, vars
  <2> QED
    BY <2>1
<1>2. stage = "off" /\ delivered = <<>>
  BY <1>1 DEF NamesInv
<1>3. ~Start
  BY <1>1 DEF Start
<1>4. ~Reads /\ ~Opens /\ ~Moves /\ ~Stop /\ ~Exit /\ \A f \in Files : ~RescanRaises(f)
  BY <1>2 DEF Reads, ReadLine, Drain, Opens, OpenPath, OpenTarget, TargetFails, DeniedPath,
     Moves, EndOfPath, CheckPath, StopPath, Rescan, Drained, Stop, Exit, RescanRaises
<1>5. Writes \/ UNCHANGED vars
  BY <1>3, <1>4, NextIs
<1> QED
  BY <1>2, <1>5 DEF Writes, Create, Truncate, Write, Disappear, vars, reader

LEMMA WritesNames ==
  ASSUME Typed, Once, Path, PathNames, Writes, accidents' = accidents
  PROVE  PathNames'
<1>1. UNCHANGED <<kind, stage, handle, delivered>>
  BY DEF Writes, Create, Truncate, Write, Disappear, reader
<1>2. created \in Nat /\ handle \in Nat /\ \A i \in DOMAIN delivered : delivered[i].file \in Nat
  BY DeliveredTypes DEF Typed, FilesTyped, ReaderTyped, Files, None
<1>3. CASE Create
  <2>1. created' = created + 1 /\ listing' = <<created + 1>>
        /\ (kind = "fixed" => listing = <<>>)
    BY <1>3 DEF Create, Path
  <2>2. listing' # <<>> /\ \A i \in DOMAIN listing' : listing'[i] = created'
    BY <1>2, <2>1
  <2>3. kind' = "fixed" => created' <= 1
    BY <1>1, <2>1 DEF PathNames
  <2>4. /\ handle' <= created'
        /\ \A i \in DOMAIN delivered' : delivered'[i].file < created' /\ delivered'[i].file <= created'
    <3>1. handle <= created /\ \A i \in DOMAIN delivered : delivered[i].file <= created
      BY DEF PathNames
    <3> QED
      BY <1>1, <1>2, <2>1, <3>1
  <2> QED
    BY <1>1, <2>2, <2>3, <2>4 DEF PathNames
<1>4. ASSUME NEW f \in Files, Write(f) PROVE PathNames'
  <2>1. created' = created
    BY <1>4 DEF Write
  <2>2. /\ \A i \in DOMAIN listing' : listing'[i] = created
        /\ listing' = <<>> => created = 0
    <3>1. CASE f \in Range(listing)
      <4>1. listing' = Append(Others(f), f) /\ f = created
        BY <1>4, <3>1 DEF Write, PathNames, Range
      <4>2. /\ Others(f) \in Seq(Files) /\ IsInjective(Others(f))
            /\ \A i \in DOMAIN Others(f) : Others(f)[i] # f /\ Others(f)[i] = created
        BY <3>1, OthersOfListing DEF Typed, PathNames
      <4>3. \A i \in DOMAIN listing' : listing'[i] = created
        BY <4>1, <4>2, AppendKeepsInjective
      <4>4. listing' # <<>>
        BY <4>1, <4>2, AppendProperties
      <4> QED
        BY <4>3, <4>4
    <3>2. CASE f \notin Range(listing)
      BY <1>4, <3>2 DEF Write, PathNames
    <3> QED
      BY <3>1, <3>2
  <2> QED
    BY <1>1, <2>1, <2>2 DEF PathNames
<1> QED
  BY <1>3, <1>4, NoAccident DEF Writes

LEMMA PathStep ==
  ASSUME Typed, NamesInv, ReadInv, [Next]_vars, Once', Path'
  PROVE  PathNames'
<1>1. Once /\ accidents' = accidents /\ ((Start /\ starts = 0) \/ starts' = starts)
  BY StillOnce
<1>2. kind' = kind /\ Path
  <2>1. kind' = kind
    BY DEF Next, Thread, OpenPath, ReadLine, EndOfPath, CheckPath, StopPath,
       Rescan, Drain, Drained, OpenTarget, DeniedPath, TargetFails, Start, Stop, Exit, Create,
       Truncate, Write, Disappear, RescanRaises, vars
  <2> QED
    BY <2>1 DEF Path
<1>3. PathNames
  BY <1>1, <1>2 DEF NamesInv
<1>4. created \in Nat /\ handle \in Nat /\ None \in Nat /\ None <= created
  BY DEF Typed, FilesTyped, ReaderTyped, Files, None
<1>5. listing # <<>> => Named = created /\ Named \in Files
  BY <1>3, NamedIsFile DEF Typed, PathNames, Range
<1>6. CASE Writes
  BY <1>1, <1>2, <1>3, <1>6, WritesNames
<1>7. CASE Reads
  <2>1. /\ ToRead /\ Deliver /\ handle # None
        /\ UNCHANGED <<listing, created, handle, stage>> /\ stage \in {"read", "drain"}
    BY <1>7 DEF Reads, ReadLine, Drain, files, ToRead
  <2>2. PICK report \in Reports : delivered' = Append(delivered, report) /\ report.file = handle
    BY <2>1, DeliverAppends
  <2>3. \A i \in DOMAIN delivered' : delivered'[i].file <= handle
    BY <1>3, <1>4, <2>1, <2>2, DeliveredAppended DEF PathNames
  <2>4. \A i \in DOMAIN delivered' : delivered'[i].file <= created
    BY <1>3, <1>4, <2>1, <2>2, DeliveredAppended DEF PathNames
  <2> QED
    BY <1>2, <1>3, <2>1, <2>3, <2>4 DEF PathNames
<1>8. CASE Opens
  <2>1. OpenPath
    BY <1>1, <1>2, <1>8, NoAccident DEF Opens, OpenTarget, TargetFails, Path
  <2>2. /\ listing # <<>> /\ handle' = created /\ stage' = "read"
        /\ UNCHANGED <<listing, created, delivered>>
    BY <1>5, <2>1 DEF OpenPath, files
  <2> QED
    BY <1>2, <1>3, <1>4, <2>2 DEF PathNames
<1>9. CASE Moves
  <2>1. UNCHANGED <<listing, created, delivered>> /\ (handle' = handle \/ handle' = None)
    BY <1>9 DEF Moves, EndOfPath, CheckPath, StopPath, Rescan, Drained, files
  <2>2. CASE stage' # "open"
    BY <1>2, <1>3, <1>4, <2>1, <2>2 DEF PathNames
  <2>3. CASE stage' = "open"
    <3>1. CheckPath /\ Rotated /\ stage = "check" /\ handle # None
      BY <1>2, <1>9, <2>3 DEF Moves, EndOfPath, CheckPath, StopPath, Rescan, Drained, Path,
         Typed, ReaderTyped
    <3>2. /\ handle \in Files /\ handle >= 1 /\ handle <= created /\ pos \in Nat
          /\ pos <= Len(content[handle])
      BY <1>1, <1>3, <1>4, <3>1 DEF Typed, ReaderTyped, ReadInv, PathNames, Files
    <3>3. listing # <<>>
      BY <1>3, <1>4, <3>2 DEF PathNames
    <3>4. Len(content[handle]) \in Nat
      BY <3>2, ContentTypes
    <3>5. kind = "linux" /\ Named # handle
      <4>1. CASE kind = "linux"
        BY <3>1, <3>2, <3>3, <3>4, <4>1 DEF Rotated
      <4>2. CASE kind = "fixed"
        <5>1. Named = handle
          BY <1>3, <1>4, <1>5, <3>2, <3>3, <4>2 DEF PathNames
        <5> QED
          BY <3>1, <3>2, <3>3, <3>4, <4>2, <5>1 DEF Rotated
      <4> QED
        BY <3>1, <3>3, <4>1, <4>2 DEF Rotated
    <3>6. handle < created
      BY <1>4, <1>5, <3>2, <3>3, <3>5
    <3>7. \A i \in DOMAIN delivered : delivered[i].file < created
      BY <1>3, <1>4, <3>1, <3>6, DeliveredTypes DEF PathNames, Files
    <3> QED
      BY <1>2, <1>3, <1>4, <2>1, <3>7, <3>1 DEF PathNames, CheckPath
  <2> QED
    BY <2>2, <2>3
<1>10. CASE Start
  <2>1. delivered = <<>> /\ starts = 0
    BY <1>1, <1>10 DEF NamesInv, Start, Typed, ReaderTyped
  <2>2. DOMAIN delivered = {}
    BY <2>1
  <2> QED
    BY <1>2, <1>3, <1>4, <1>10, <2>2 DEF Start, files, PathNames
<1>11. CASE Stop \/ Exit
  BY <1>2, <1>3, <1>4, <1>11 DEF Stop, Exit, files, reader, PathNames
<1>12. CASE UNCHANGED vars
  BY <1>2, <1>3, <1>12 DEF vars, files, reader, PathNames
<1> QED
  BY <1>1, <1>6, <1>7, <1>8, <1>9, <1>10, <1>11, <1>12, NextIs, NoAccident

LEMMA PatternStep ==
  ASSUME Typed, NamesInv, [Next]_vars, Once', ~Path', fromEnd'
  PROVE  handle' = None /\ delivered' = <<>>
<1>1. Once /\ accidents' = accidents /\ ((Start /\ starts = 0) \/ starts' = starts)
  BY StillOnce
<1>2. ~Path
  BY DEF Path, Next, Thread, OpenPath, ReadLine, EndOfPath, CheckPath, StopPath,
     Rescan, Drain, Drained, OpenTarget, DeniedPath, TargetFails, Start, Stop, Exit, Create,
     Truncate, Write, Disappear, RescanRaises, vars
<1>3. CASE Start
  <2>1. delivered = <<>>
    BY <1>1, <1>3 DEF NamesInv, Start, Typed, ReaderTyped
  <2> QED
    BY <1>3, <2>1 DEF Start
<1>4. CASE Writes \/ Stop \/ UNCHANGED vars
  <2>1. UNCHANGED <<handle, delivered, fromEnd>>
    BY <1>4 DEF Writes, Create, Truncate, Write, Disappear, Stop, vars, reader
  <2> QED
    BY <1>1, <1>2, <2>1 DEF NamesInv
<1>5. CASE Reads
  <2>1. handle # None /\ fromEnd
    BY <1>5 DEF Reads, ReadLine, Drain, ToRead
  <2> QED
    BY <1>1, <1>2, <2>1 DEF NamesInv
<1>6. CASE Opens
  <2>1. TargetFails
    BY <1>1, <1>2, <1>6, NoAccident DEF Opens, OpenPath, OpenTarget
  <2> QED
    BY <1>1, <1>2, <2>1 DEF TargetFails, NamesInv
<1>7. CASE Moves \/ Exit
  <2>1. UNCHANGED <<delivered, fromEnd>> /\ (handle' = handle \/ handle' = None)
    BY <1>7 DEF Moves, EndOfPath, CheckPath, StopPath, Rescan, Drained, Exit, files
  <2> QED
    BY <1>1, <1>2, <2>1 DEF NamesInv
<1> QED
  BY <1>1, <1>3, <1>4, <1>5, <1>6, <1>7, NextIs, NoAccident

LEMMA StepNames == Typed /\ NamesInv /\ ReadInv /\ [Next]_vars => NamesInv'
BY NotStarted, PathStep, PatternStep DEF NamesInv

-----------------------------------------------------------------------------
(* The pieces, what was read of them and what was given.                   *)
LEMMA WriteWhole ==
  ASSUME Typed, Ordered, HeadInv, Once => ReadInv /\ HoleInv, NEW f \in Files, Write(f)
  PROVE  HeadInv' /\ (Once => ReadInv' /\ HoleInv')
<1>1. PICK piece \in Pieces :
         /\ piece \in Piece(f) /\ piece.line <= MaxLines
         /\ content' = [content EXCEPT ![f] = Append(content[f], piece)]
         /\ written' = IF piece.line > written THEN piece.line ELSE written
  BY WriteAppends DEF Typed
<1>2. UNCHANGED <<handle, pos, delivered, starts, accidents>>
  BY DEF Write, reader
<1> DEFINE n == Len(content[f]) + 1
<1>3. /\ n \in Nat /\ DOMAIN content[f] = 1 .. n - 1 /\ Len(content'[f]) = n
      /\ content'[f][n] = piece
      /\ \A a \in DOMAIN content[f] : a < n /\ content'[f][a] = content[f][a]
      /\ \A a \in DOMAIN content'[f] : a \in DOMAIN content[f] \/ a = n
      /\ \A g \in Files : g # f => content'[g] = content[g]
  <2>1. /\ DOMAIN content'[f] = 1 .. n /\ Len(content'[f]) = n
        /\ content'[f][n] = piece
        /\ \A a \in DOMAIN content[f] : content'[f][a] = content[f][a]
        /\ \A a \in DOMAIN content'[f] : a \in DOMAIN content[f] \/ a = n
        /\ \A g \in Files : g # f => content'[g] = content[g]
    BY <1>1, WrittenContent
  <2>2. Len(content[f]) \in Nat /\ DOMAIN content[f] = 1 .. Len(content[f])
    BY ContentTypes
  <2>3. n \in Nat /\ DOMAIN content[f] = 1 .. n - 1 /\ \A a \in DOMAIN content[f] : a < n
    BY <2>2
  <2> QED
    BY <2>1, <2>3
<1> HIDE DEF n
(* The new piece is the rest of the last line, or a line not given yet.    *)
<1>4. \/ /\ n - 1 \in DOMAIN content[f] /\ content[f][n - 1].part = "head"
         /\ piece.line = content[f][n - 1].line
      \/ /\ piece.line = written + 1 /\ written \in Nat
         /\ n - 1 \in DOMAIN content[f] => content[f][n - 1].part # "head"
  <2>1. Last(content[f]) = content[f][n - 1] /\ (content[f] # <<>> => n - 1 \in DOMAIN content[f])
    <3>1. Len(content[f]) = n - 1 /\ Len(content[f]) \in Nat /\ content[f] \in Seq(Pieces)
      BY <1>3, ContentTypes DEF n
    <3> QED
      BY <1>3, <3>1, EmptySeq DEF Last
  <2>2. CASE Unfinished(f)
    BY <1>1, <2>1, <2>2 DEF Unfinished, Piece
  <2>3. CASE ~Unfinished(f)
    <3>1. piece.line = written + 1 /\ written \in Nat
      BY <1>1, <2>3 DEF Piece, Typed, FilesTyped
    <3>2. n - 1 \in DOMAIN content[f] => content[f] # <<>>
      BY <1>3, ContentTypes, EmptySeq
    <3> QED
      BY <2>1, <2>3, <3>1, <3>2 DEF Unfinished
  <2> QED
    BY <2>2, <2>3
<1>5. HeadInv'
  <2> SUFFICES ASSUME NEW g \in Files, NEW a \in DOMAIN content'[g], a + 1 \in DOMAIN content'[g],
                      content'[g][a].part = "head"
               PROVE  content'[g][a + 1].line = content'[g][a].line
    BY DEF HeadInv
  <2>1. CASE g # f
    BY <1>3, <2>1 DEF HeadInv
  <2>2. CASE g = f /\ a + 1 \in DOMAIN content[f]
    <3>1. a \in DOMAIN content[f]
      BY <1>3, <2>2
    <3> QED
      BY <1>3, <2>2, <3>1 DEF HeadInv
  <2>3. CASE g = f /\ a + 1 = n
    <3>1. a = n - 1 /\ a \in DOMAIN content[f]
      BY <1>3, <2>3
    <3> QED
      BY <1>3, <1>4, <2>3, <3>1
  <2> QED
    BY <1>3, <2>1, <2>2, <2>3
<1>6. ASSUME Once PROVE ReadInv'
  <2> SUFFICES ASSUME handle # None
               PROVE  /\ pos <= Len(content'[handle])
                      /\ \A i \in DOMAIN delivered : delivered[i].file = handle =>
                            \A k \in DOMAIN content'[handle] :
                               k <= pos /\ delivered[i].line <= content'[handle][k].line
                               => Was(content'[handle][k].line)
    BY <1>2 DEF ReadInv, Was
  <2>1. handle \in Files /\ pos \in Nat
    BY DEF Typed, ReaderTyped
  <2>2. /\ pos <= Len(content[handle]) /\ Len(content[handle]) \in Nat
    BY <1>6, <2>1, ContentTypes DEF ReadInv
  <2>3. Len(content'[handle]) = Len(content[handle]) \/ Len(content'[handle]) = Len(content[handle]) + 1
    BY <1>3, <2>1 DEF n
  <2>4. pos <= Len(content'[handle])
    BY <2>1, <2>2, <2>3
  <2>5. ASSUME NEW k \in DOMAIN content'[handle], k <= pos
        PROVE  k \in DOMAIN content[handle] /\ content'[handle][k] = content[handle][k]
    <3>1. CASE handle = f
      <4>1. k # n
        BY <1>3, <2>1, <2>2, <2>5, <3>1 DEF n
      <4> QED
        BY <1>3, <3>1, <4>1
    <3>2. CASE handle # f
      BY <1>3, <2>1, <3>2
    <3> QED
      BY <3>1, <3>2
  <2> QED
    BY <1>6, <2>4, <2>5 DEF ReadInv
<1>7. ASSUME Once PROVE HoleInv'
  <2> SUFFICES ASSUME NEW i \in DOMAIN delivered, NEW j \in DOMAIN delivered,
                      i < j, delivered[i].file = delivered[j].file,
                      NEW k \in DOMAIN content'[delivered[i].file],
                      delivered[i].line <= content'[delivered[i].file][k].line,
                      content'[delivered[i].file][k].line <= delivered[j].line
               PROVE  \E g \in 1 .. j : delivered[g].line = content'[delivered[i].file][k].line
    BY <1>2 DEF HoleInv, Between
  <2> DEFINE d == delivered[i].file
  <2>1. d \in Files /\ delivered[j].line \in Nat /\ delivered[j].line <= written
    BY DeliveredTypes DEF Ordered, WrittenInv
  <2>2. ASSUME NEW b \in DOMAIN content[d], content[d][b].line = content'[d][k].line
        PROVE  \E g \in 1 .. j : delivered[g].line = content'[d][k].line
    <3>1. content[d][b].line \in Between(i, j)
      BY <2>2 DEF Between
    <3> QED
      BY <1>7, <2>2, <3>1 DEF HoleInv
  <2> HIDE DEF d
  <2>3. CASE k \in DOMAIN content[d] /\ content'[d][k] = content[d][k]
    BY <2>2, <2>3 DEF d
  <2>4. CASE d = f /\ k = n
    <3>1. CASE n - 1 \in DOMAIN content[f] /\ piece.line = content[f][n - 1].line
      BY <1>3, <2>2, <2>4, <3>1 DEF d
    <3>2. CASE piece.line = written + 1 /\ written \in Nat
      BY <1>3, <2>1, <2>4, <3>2 DEF d
    <3> QED
      BY <1>4, <3>1, <3>2
  <2>5. k \in DOMAIN content'[d]
    BY DEF d
  <2> QED
    BY <1>3, <2>1, <2>3, <2>4, <2>5
<1> QED
  BY <1>5, <1>6, <1>7

LEMMA ReadsWhole ==
  ASSUME Typed, Sorted, HeadInv, Once => ReadInv /\ HoleInv, Reads
  PROVE  HeadInv' /\ (Once => ReadInv' /\ HoleInv')
<1>1. ToRead /\ Deliver /\ UNCHANGED <<content, handle, starts, accidents>>
  BY DEF Reads, ReadLine, Drain, files
<1> DEFINE file == content[handle]
           piece == file[pos + 1]
           m == Len(delivered) + 1
           Given(n) == \E g \in DOMAIN delivered' : delivered'[g].line = n
<1>2. /\ handle \in Files /\ pos + 1 \in DOMAIN file /\ piece \in Pieces
      /\ pos \in Nat /\ pos' \in Nat /\ pos' > pos /\ pos' <= Len(file)
  BY <1>1, DeliverAppends DEF Typed, ReaderTyped
<1>3. PICK report \in Reports :
         /\ delivered' = Append(delivered, report)
         /\ report.file = handle /\ report.line = piece.line
         /\ \/ report.part = piece.part /\ pos' = pos + 1
            \/ piece.part = "head" /\ report.part = "whole" /\ pos' = pos + 2
  BY <1>1, DeliverAppends
<1>4. /\ DOMAIN file = 1 .. Len(file) /\ Len(file) \in Nat
      /\ \A k \in DOMAIN file : file[k].line \in Nat
  BY <1>2, ContentTypes
<1>5. /\ \A i \in DOMAIN delivered : delivered'[i] = delivered[i]
      /\ delivered'[m] = report
      /\ \A i \in DOMAIN delivered' : i \in DOMAIN delivered \/ i = m
      /\ m \in DOMAIN delivered' /\ \A i \in DOMAIN delivered : i \in DOMAIN delivered'
      /\ m \in Nat /\ DOMAIN delivered = 1 .. m - 1
  <2>1. Len(delivered) \in Nat /\ DOMAIN delivered = 1 .. Len(delivered)
    BY DeliveredTypes
  <2>2. m \in Nat /\ DOMAIN delivered = 1 .. m - 1
    BY <2>1
  <2> QED
    BY <1>3, <2>2, DeliveredAppended
<1>6. \A n : Was(n) => Given(n)
  BY <1>5 DEF Was
<1>7. Given(piece.line)
  BY <1>3, <1>5
(* Where a line of the file stands: before the piece, at it, or after.     *)
<1>8. ASSUME NEW k \in DOMAIN file
      PROVE  /\ k < pos + 1 => file[k].line <= piece.line
             /\ k > pos + 1 => piece.line <= file[k].line
  <2>1. k < pos + 1 => Before(file[k], piece)
    BY <1>2 DEF Sorted
  <2>2. k > pos + 1 => Before(piece, file[k])
    BY <1>2 DEF Sorted
  <2>3. file[k].line \in Nat /\ piece.line \in Nat
    BY <1>2, <1>4
  <2> HIDE DEF file, piece
  <2> QED
    BY <2>1, <2>2, <2>3 DEF Before
<1>9. ASSUME NEW k \in DOMAIN file, k <= pos', k > pos PROVE file[k].line = piece.line
  <2>1. CASE k = pos + 1
    BY <2>1
  <2>2. CASE k = pos + 1 + 1 /\ piece.part = "head"
    BY <1>2, <2>2 DEF HeadInv
  <2>3. k = pos + 1 \/ (k = pos + 1 + 1 /\ piece.part = "head")
    BY <1>2, <1>3, <1>4, <1>9
  <2> QED
    BY <2>1, <2>2, <2>3
<1>10. handle # None
  BY <1>1 DEF ToRead
<1>11. HeadInv'
  BY <1>1 DEF HeadInv
<1>12. ASSUME Once PROVE ReadInv'
  <2> SUFFICES ASSUME NEW i \in DOMAIN delivered', delivered'[i].file = handle,
                      NEW k \in DOMAIN file, k <= pos', delivered'[i].line <= file[k].line
               PROVE  Given(file[k].line)
    BY <1>1, <1>2 DEF ReadInv, Was
  <2>1. CASE k > pos
    BY <1>7, <1>9, <2>1
  <2>2. CASE ~(k > pos)
    <3>1. k <= pos /\ k < pos + 1 /\ file[k].line \in Nat /\ piece.line \in Nat
      BY <1>2, <1>4, <2>2
    <3>2. CASE i \in DOMAIN delivered
      BY <1>5, <1>6, <1>10, <1>12, <3>1, <3>2 DEF ReadInv
    <3>3. CASE i = m
      <4>1. file[k].line <= piece.line /\ piece.line <= file[k].line
        BY <1>3, <1>5, <1>8, <3>1, <3>3
      <4>2. file[k].line = piece.line
        BY <3>1, <4>1
      <4> QED
        BY <1>7, <4>2
    <3> QED
      BY <1>5, <3>2, <3>3
  <2> QED
    BY <2>1, <2>2
<1>13. ASSUME Once PROVE HoleInv'
  <2> SUFFICES ASSUME NEW i \in DOMAIN delivered', NEW j \in DOMAIN delivered',
                      i < j, delivered'[i].file = delivered'[j].file,
                      NEW k \in DOMAIN content[delivered'[i].file],
                      delivered'[i].line <= content[delivered'[i].file][k].line,
                      content[delivered'[i].file][k].line <= delivered'[j].line
               PROVE  \E g \in 1 .. j : delivered'[g].line = content[delivered'[i].file][k].line
    BY <1>1 DEF HoleInv, Between
  <2>1. i \in DOMAIN delivered
    BY <1>5
  <2>2. CASE j \in DOMAIN delivered
    <3>1. content[delivered[i].file][k].line \in Between(i, j)
      BY <1>5, <2>1, <2>2 DEF Between
    <3>2. PICK g \in 1 .. j : delivered[g].line = content[delivered[i].file][k].line
      BY <1>5, <1>13, <2>1, <2>2, <3>1 DEF HoleInv
    <3>3. g \in DOMAIN delivered
      BY <1>5, <2>2
    <3> QED
      BY <1>5, <2>1, <3>2, <3>3
  <2>3. CASE j = m
    <3>1. /\ delivered[i].file = handle /\ k \in DOMAIN file
          /\ delivered[i].line <= file[k].line /\ file[k].line <= piece.line
      BY <1>3, <1>5, <2>1, <2>3
    <3>2. file[k].line \in Nat /\ piece.line \in Nat
      BY <1>2, <1>4, <3>1
    <3>3. CASE file[k].line = piece.line
      <4>1. j \in 1 .. j
        BY <1>5, <2>3
      <4> QED
        BY <1>3, <1>5, <2>1, <2>3, <3>1, <3>3, <4>1
    <3>4. CASE file[k].line # piece.line
      <4>1. ~(piece.line <= file[k].line)
        BY <3>1, <3>2, <3>4
      <4>2. k <= pos
        BY <1>2, <1>4, <1>8, <3>1, <3>4, <4>1
      <4>3. Was(file[k].line)
        BY <1>10, <1>13, <2>1, <3>1, <4>2 DEF ReadInv
      <4>4. PICK g \in DOMAIN delivered : delivered[g].line = file[k].line
        BY <4>3 DEF Was
      <4>5. g \in 1 .. j
        BY <1>5, <2>3
      <4> QED
        BY <1>5, <2>1, <3>1, <4>4, <4>5
    <3> QED
      BY <3>3, <3>4
  <2> QED
    BY <1>5, <2>2, <2>3
<1> QED
  BY <1>11, <1>12, <1>13

(* A step that neither writes nor delivers leaves what was given; the open *)
(* file is the same or none, or nothing was given of it or read of it.     *)
LEMMA NothingGiven ==
  ASSUME Typed, HeadInv, ReadInv, HoleInv, Once, UNCHANGED <<content, delivered>>,
         \/ handle' = None \/ UNCHANGED <<handle, pos>>
         \/ /\ handle' \in Files /\ pos' \in Nat /\ pos' <= Len(content[handle'])
            /\ pos' = 0 \/ \A i \in DOMAIN delivered : delivered[i].file # handle'
  PROVE  HeadInv' /\ ReadInv' /\ HoleInv'
<1>1. HeadInv' /\ HoleInv'
  BY DEF HeadInv, HoleInv, Between
<1>2. CASE handle' = None \/ UNCHANGED <<handle, pos>>
  BY <1>1, <1>2 DEF ReadInv, Was
<1>3. CASE /\ handle' \in Files /\ pos' \in Nat /\ pos' <= Len(content[handle'])
           /\ pos' = 0 \/ \A i \in DOMAIN delivered : delivered[i].file # handle'
  <2>1. \A k \in DOMAIN content[handle'] : ~(k <= 0)
    BY <1>3, ContentTypes
  <2> QED
    BY <1>1, <1>3, <2>1 DEF ReadInv, Was
<1> QED
  BY <1>2, <1>3

LEMMA OpensWhole ==
  ASSUME Typed, Whole, Once, Opens, accidents' = accidents
  PROVE  HeadInv' /\ ReadInv' /\ HoleInv'
<1>1. UNCHANGED <<content, delivered>>
  BY DEF Opens, OpenPath, OpenTarget, TargetFails, DeniedPath, files
<1>2. CASE OpenPath
  <2>1. PathNames /\ Named \in Files /\ Named \in Range(listing) /\ handle' = Named
        /\ pos' = Len(content[Named]) /\ stage = "open"
    BY <1>2, NamedIsFile DEF OpenPath, Typed, Whole, NamesInv
  <2>2. Named = created /\ created \in Nat
    BY <2>1 DEF PathNames, Range, Typed, FilesTyped
  <2>3. \A i \in DOMAIN delivered : delivered[i].file # Named
    BY <2>1, <2>2, DeliveredTypes DEF PathNames, Files
  <2>4. pos' \in Nat /\ pos' <= Len(content[handle'])
    BY <2>1, ContentTypes
  <2> QED
    BY <1>1, <2>1, <2>3, <2>4, NothingGiven DEF Whole
<1>3. CASE OpenTarget
  <2>1. handle' = target /\ target \in Files /\ ~Path
    BY <1>3, RangeOfSeq DEF OpenTarget, Typed, FilesTyped, Path
  <2>2. Len(content[target]) \in Nat
    BY <2>1, ContentTypes
  <2>3. CASE fromEnd
    <3>1. pos' = Len(content[target]) /\ DOMAIN delivered = {}
      BY <1>3, <2>1, <2>3 DEF OpenTarget, Whole, NamesInv
    <3> QED
      BY <1>1, <2>1, <2>2, <3>1, NothingGiven DEF Whole
  <2>4. CASE ~fromEnd
    <3>1. pos' = 0
      BY <1>3, <2>4 DEF OpenTarget
    <3> QED
      BY <1>1, <2>1, <2>2, <3>1, NothingGiven DEF Whole
  <2> QED
    BY <2>3, <2>4
<1>4. CASE TargetFails
  BY <1>1, <1>4, NothingGiven DEF TargetFails, Whole
<1> QED
  BY <1>2, <1>3, <1>4, NoAccident DEF Opens

LEMMA StepWhole == Typed /\ Ordered /\ Whole /\ [Next]_vars => Whole'
<1> SUFFICES ASSUME Typed, Ordered, Whole, [Next]_vars PROVE Whole'
  OBVIOUS
<1>1. NamesInv'
  BY StepNames DEF Whole
<1>2. HeadInv'
  <2>1. CASE \E f \in Files : Write(f)
    BY <2>1, WriteWhole DEF Whole
  <2>2. CASE Reads
    BY <2>2, ReadsWhole DEF Whole, Ordered
  <2>3. CASE Truncate
    <3>1. Named \in Files /\ content' = [content EXCEPT ![Named] = <<>>]
      BY <2>3, NamedIsFile DEF Truncate, Typed
    <3>2. /\ DOMAIN content'[Named] = {}
          /\ \A g \in Files : g # Named => content'[g] = content[g]
      BY <3>1 DEF Typed, FilesTyped
    <3> QED
      BY <3>2 DEF Whole, HeadInv
  <2>4. CASE ~Reads /\ ~Truncate /\ ~(\E f \in Files : Write(f))
    <3>1. content' = content
      BY <2>4, NextIs DEF Writes, Create, Disappear, Opens, OpenPath, OpenTarget, TargetFails,
         DeniedPath, Moves, EndOfPath, CheckPath, StopPath, Rescan, Drained, Start, Stop, Exit,
         RescanRaises, vars, files
    <3> QED
      BY <3>1 DEF Whole, HeadInv
  <2> QED
    BY <2>1, <2>2, <2>3, <2>4
<1>3. CASE ~Once'
  BY <1>1, <1>2, <1>3 DEF Whole, ReadInv, HoleInv
<1>4. CASE Once'
  <2>1. Once /\ accidents' = accidents
    BY <1>4, StillOnce
  <2>2. CASE Reads
    BY <1>1, <2>1, <2>2, ReadsWhole DEF Whole, Ordered
  <2>3. CASE \E f \in Files : Write(f)
    BY <1>1, <2>1, <2>3, WriteWhole DEF Whole
  <2>4. CASE Opens
    BY <1>1, <2>1, <2>4, OpensWhole DEF Whole
  <2>5. CASE Create \/ Moves \/ Start \/ Stop \/ Exit \/ UNCHANGED vars
    <3>1. UNCHANGED <<content, delivered>>
      BY <2>5 DEF Create, Moves, EndOfPath, CheckPath, StopPath, Rescan, Drained, Start, Stop,
         Exit, vars, files, reader
    <3>2. handle' = None \/ UNCHANGED <<handle, pos>>
      BY <2>5 DEF Create, Moves, EndOfPath, CheckPath, StopPath, Rescan, Drained, Start, Stop,
         Exit, vars, files, reader
    <3> QED
      BY <1>1, <2>1, <3>1, <3>2, NothingGiven DEF Whole
  <2> QED
    BY <2>1, <2>2, <2>3, <2>4, <2>5, NextIs, NoAccident DEF Writes
<1> QED
  BY <1>3, <1>4

(* Without accident nor restart, what is given of a file has no hole, over *)
(* any number of rotations and switches of the pattern mode: neither the   *)
(* drain of the old file nor a return to a file that was read before skips *)
(* a line between two that are given.                                      *)
THEOREM NoHoleHolds == Spec => []NoHole
<1>1. Init => Typed /\ Ordered /\ Whole
  BY InitTyped, InitOrdered, InitWhole
<1>2. Typed /\ Ordered /\ Whole /\ [Next]_vars => (Typed /\ Ordered /\ Whole)'
  BY StepTyped, StepOrdered, StepWhole
<1>3. Typed /\ Whole => NoHole
  BY HoleIsNoHole DEF Whole
<1> QED
  BY <1>1, <1>2, <1>3, PTL DEF Spec
=============================================================================
