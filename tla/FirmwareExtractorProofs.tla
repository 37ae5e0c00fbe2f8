----------------------- MODULE FirmwareExtractorProofs -----------------------
(***************************************************************************)
(* What the extraction leaves behind for every driver file, size of record *)
(* and failure: nothing that is held, and no file that is part of an       *)
(* array.                                                                  *)
(***************************************************************************)
EXTENDS FirmwareExtractor, FiniteSetTheorems, TLAPS

USE DriverAssumption

Places == {"open", "section", "scan", "read", "create", "write", "close",
           "release", "ended"}

Entry == (Names \cup {"old", "torn"}) \X Nat
Content == [present : BOOLEAN, records : Seq(Entry)]

TypeOK ==
    /\ pc \in Places
    /\ driver \in Drivers /\ removable \in BOOLEAN
    /\ before \in [Names -> {Absent, Old}]
    /\ file \in [Names -> Content]
    /\ symbols \in BOOLEAN /\ data \in BOOLEAN
    /\ index \in 0 .. Len(driver.symbols)
    /\ found \in [Names -> BOOLEAN] /\ offsets \in [Names -> Nat]
    /\ output \in {1, 2} /\ offset \in Nat
    /\ eofFound \in BOOLEAN /\ result \in BOOLEAN
    /\ exit \in {"success", "failure"}

HeldOK == NothingHeld /\ (pc = "open" => ~data)

\* Among the first n symbols, the last one of name is in the section, and
\* start is the offset it stands for.
FoundAt(name, n, start) ==
    \E i \in 1 .. n : /\ driver.symbols[i].name = name
                      /\ IsOffset(driver.symbols[i].value)
                      /\ start = SectionOffset(driver.symbols[i].value)
                      /\ \A j \in 1 .. n :
                            driver.symbols[j].name = name => j <= i

ScanOK ==
    /\ pc \in {"open", "section"} => \A name \in Names : ~found[name]
    /\ \A name \in Names : found[name] => FoundAt(name, index, offsets[name])
    /\ pc \in {"read", "create", "write", "close"} =>
          Located /\ index = Len(driver.symbols)

\* The records of the array from start that are before limit, and the copy
\* of them in records.
Kept(start, limit) == {i \in start .. limit : /\ (i - start) % RecordSize = 0
                                              /\ driver.record[i] # "empty"}

IsCopy(name, records, kept) ==
    /\ Len(records) = Cardinality(kept)
    /\ \A n \in 1 .. Len(records) :
          \E i \in kept : /\ records[n] = <<name, i>>
                          /\ Cardinality({j \in kept : j <= i}) = n

\* The record that writeHexFile looked at last.
Latest == Start + offset - RecordSize

WriteOK ==
    /\ pc \in {"write", "close"} => file[Name].present
    /\ pc \in {"write", "close"} /\ result =>
          /\ Length > 0 /\ offset < Length + RecordSize
          /\ offset % RecordSize = 0
          /\ IsCopy(Name, file[Name].records, Kept(Start, Latest))
          /\ eofFound => offset > 0 /\ driver.record[Latest] = "eof"
          /\ \A i \in Kept(Start, Latest) :
                driver.record[i] = "data" \/ (eofFound /\ i = Latest)
    /\ pc = "close" /\ result => eofFound

Whole(name) == IsWhole(name, file[name])

LeftOver ==
    /\ exit = "success" => Whole("firmware") /\ Whole("loader")
    /\ removable => \A name \in Names :
          file[name] \in {before[name], Absent} \/ Whole(name)
    /\ file["loader"] # before["loader"] => Whole("firmware")

FilesOK ==
    /\ pc \in {"open", "section", "scan", "read"} => output = 1
    /\ pc \notin {"write", "close", "release", "ended"} /\ output = 1 =>
          file = before
    /\ pc \in {"write", "close"} /\ output = 1 =>
          file["loader"] = before["loader"]
    /\ output = 2 => Whole("firmware")
    /\ pc = "create" /\ output = 2 => file["loader"] = before["loader"]
    /\ pc \notin {"release", "ended"} => exit = "failure"
    /\ pc \in {"release", "ended"} => LeftOver

IInv == TypeOK /\ HeldOK /\ ScanOK /\ WriteOK /\ FilesOK

-----------------------------------------------------------------------------
(***************************************************************************)
(* Multiples of the size of a record.                                      *)
(***************************************************************************)
LEMMA Quotient ==
    ASSUME NEW r \in Nat \ {0}, NEW a \in Nat
    PROVE  \E k \in Nat : \E m \in 0 .. r - 1 : a = r * k + m /\ m = a % r
<1>1. a \div r \in Nat /\ a % r \in 0 .. r - 1
  OBVIOUS
<1>2. a = r * (a \div r) + (a % r)
  OBVIOUS
<1> QED BY <1>1, <1>2

LEMMA Multiple ==
    ASSUME NEW r \in Nat \ {0}, NEW k \in Nat
    PROVE  (r * k) % r = 0
<1>1. r * k \in Nat
  OBVIOUS
<1>2. PICK q \in Nat, m \in 0 .. r - 1 : r * k = r * q + m /\ m = (r * k) % r
  BY <1>1, Quotient
<1>3. r * (k - q) = m
  BY <1>2
<1>4. CASE k - q >= 1
  <2>1. r * (k - q) >= r
    BY <1>4
  <2> QED BY <2>1, <1>3
<1>5. CASE k - q <= -1
  <2>1. r * (k - q) < 0
    BY <1>5
  <2> QED BY <2>1, <1>3
<1>6. CASE k - q = 0
  BY <1>6, <1>3, <1>2
<1> QED BY <1>4, <1>5, <1>6

LEMMA AsMultiple ==
    ASSUME NEW r \in Nat \ {0}, NEW a \in Nat, a % r = 0
    PROVE  \E k \in Nat : a = r * k
<1>1. PICK k \in Nat, m \in 0 .. r - 1 : a = r * k + m /\ m = a % r
  BY Quotient
<1>2. a = r * k
  BY <1>1
<1> QED BY <1>2

LEMMA NextMultiple ==
    ASSUME NEW r \in Nat \ {0}, NEW a \in Nat, a % r = 0
    PROVE  (a + r) % r = 0
<1>1. PICK k \in Nat : a = r * k
  BY AsMultiple
<1>2. a + r = r * (k + 1)
  BY <1>1
<1>3. (r * (k + 1)) % r = 0
  BY Multiple, k + 1 \in Nat
<1> QED BY <1>2, <1>3, Zenon

\* Between two neighbouring multiples there is none.
LEMMA MultiplesApart ==
    ASSUME NEW r \in Nat \ {0}, NEW a \in Nat, NEW b \in Nat,
           a % r = 0, b % r = 0, a <= b, b < a + r
    PROVE  a = b
<1>1. PICK k \in Nat : a = r * k
  BY AsMultiple
<1>2. PICK m \in Nat : b = r * m
  BY AsMultiple
<1>3. b - a = r * (m - k)
  BY <1>1, <1>2
<1>4. CASE m - k <= -1
  <2>1. r * (m - k) < 0
    BY <1>4
  <2> QED BY <2>1, <1>3
<1>5. CASE m - k >= 1
  <2>1. r * (m - k) >= r
    BY <1>5
  <2> QED BY <2>1, <1>3
<1>6. CASE m - k = 0
  BY <1>6, <1>3
<1> QED BY <1>4, <1>5, <1>6
-----------------------------------------------------------------------------
(***************************************************************************)
(* The search and the copy.                                                *)
(***************************************************************************)

\* Once all symbols were looked at, the last one found is the one that counts.
LEMMA FoundIsLast ==
    ASSUME driver \in Drivers, NEW name, NEW start,
           FoundAt(name, Len(driver.symbols), start)
    PROVE  /\ start = SymbolOffset(name)
           /\ \E i \in DOMAIN driver.symbols : driver.symbols[i].name = name
<1> DEFINE S == driver.symbols
           IsLast(i) == /\ S[i].name = name
                        /\ \A j \in DOMAIN S : S[j].name = name => j <= i
<1>1. DOMAIN S = 1 .. Len(S) /\ Len(S) \in Nat
  OBVIOUS
<1>2. PICK i \in DOMAIN S : IsLast(i) /\ start = SectionOffset(S[i].value)
  BY <1>1 DEF FoundAt
<1>3. ASSUME NEW j \in DOMAIN S, IsLast(j)
      PROVE  j = i
  <2>1. i <= j /\ j <= i
    BY <1>2, <1>3
  <2> QED BY <2>1, <1>1
<1>4. i = CHOOSE k \in DOMAIN S : IsLast(k)
  BY <1>2, <1>3, Zenon
<1>5. SymbolOffset(name) =
        SectionOffset(S[CHOOSE k \in DOMAIN S : IsLast(k)].value)
  BY DEF SymbolOffset
<1> QED BY <1>2, <1>4, <1>5, Zenon

LEMMA SymbolType ==
    ASSUME driver \in Drivers, NEW i \in 1 .. Len(driver.symbols)
    PROVE  /\ i \in DOMAIN driver.symbols
           /\ driver.symbols[i].value \in Nat
<1>1. driver.symbols \in Seq([name : STRING, value : Nat])
  OBVIOUS
<1>2. ASSUME NEW S, NEW s \in Seq(S), NEW n \in 1 .. Len(s)
      PROVE  n \in DOMAIN s /\ s[n] \in S
  OBVIOUS
<1>3. driver.symbols[i] \in [name : STRING, value : Nat]
  BY <1>1, <1>2, Zenon
<1> QED BY <1>1, <1>2, <1>3

LEMMA OffsetInSection ==
    ASSUME driver \in Drivers, NEW value \in Nat, IsOffset(value)
    PROVE  SectionOffset(value) \in Nat /\ SectionOffset(value) < driver.size
BY DEF SectionOffset, IsOffset, IsFileOffset

LEMMA KeptFinite ==
    ASSUME NEW start \in Int, NEW limit \in Int
    PROVE  /\ Kept(start, limit) \subseteq start .. limit
           /\ IsFiniteSet(Kept(start, limit))
<1>1. Kept(start, limit) \in SUBSET (start .. limit)
  BY DEF Kept
<1> QED BY <1>1, FS_Interval, FS_Subset

\* One more record adds itself, or nothing when it is empty.
LEMMA KeptGrows ==
    ASSUME driver \in Drivers, NEW start \in Nat, NEW length \in Nat,
           length % RecordSize = 0
    PROVE  Kept(start, start + length)
             = Kept(start, start + length - RecordSize)
               \cup (IF driver.record[start + length] = "empty"
                     THEN {} ELSE {start + length})
<1> DEFINE x == start + length
<1>1. (x - start) % RecordSize = 0
  BY x - start = length
<1>2. ASSUME NEW i \in start .. x, (i - start) % RecordSize = 0,
             i > x - RecordSize
      PROVE  i = x
  <2>1. /\ i - start \in Nat /\ RecordSize \in Nat \ {0}
        /\ i - start <= length /\ length < (i - start) + RecordSize
    BY <1>2
  <2>2. i - start = length
    BY <2>1, <1>2, MultiplesApart, Zenon
  <2> QED BY <2>2
<1>3. ASSUME NEW i
      PROVE  i \in Kept(start, x) <=>
               \/ i \in Kept(start, x - RecordSize)
               \/ i = x /\ driver.record[x] # "empty"
  <2>1. i \in start .. x <=> i \in start .. x - RecordSize
                             \/ (i \in start .. x /\ i > x - RecordSize)
    OBVIOUS
  <2>2. x \in start .. x
    OBVIOUS
  <2> HIDE DEF x
  <2> QED BY <2>1, <2>2, <1>1, <1>2 DEF Kept
<1> HIDE DEF x
<1>4. Kept(start, x) = Kept(start, x - RecordSize)
               \cup (IF driver.record[x] = "empty" THEN {} ELSE {x})
  BY <1>3
<1> QED BY <1>4 DEF x

LEMMA CopyStarts ==
    ASSUME NEW name
    PROVE  IsCopy(name, <<>>, {})
BY FS_EmptySet DEF IsCopy

\* A record behind those that were copied is the last one of the copy.
LEMMA CopyGrows ==
    ASSUME NEW name \in Names, NEW records \in Seq(Entry),
           NEW kept \in SUBSET Nat, IsFiniteSet(kept),
           NEW x \in Nat, \A i \in kept : i < x,
           IsCopy(name, records, kept)
    PROVE  IsCopy(name, Append(records, <<name, x>>), kept \cup {x})
<1> DEFINE more == Append(records, <<name, x>>)
           UpTo(s, i) == {j \in s : j <= i}
<1>1. x \notin kept
  OBVIOUS
<1>2. Cardinality(kept \cup {x}) = Cardinality(kept) + 1
  BY <1>1, FS_AddElement
<1>3. /\ Len(more) = Len(records) + 1
      /\ \A n \in 1 .. Len(records) : more[n] = records[n]
      /\ more[Len(records) + 1] = <<name, x>>
  OBVIOUS
<1>4. Len(records) = Cardinality(kept) /\ Len(records) \in Nat
  BY DEF IsCopy
<1>5. ASSUME NEW n \in 1 .. Len(more)
      PROVE  \E i \in kept \cup {x} :
                /\ more[n] = <<name, i>>
                /\ Cardinality(UpTo(kept \cup {x}, i)) = n
  <2>1. CASE n \in 1 .. Len(records)
    <3>1. PICK i \in kept : /\ records[n] = <<name, i>>
                            /\ Cardinality(UpTo(kept, i)) = n
      BY <2>1 DEF IsCopy
    <3>2. UpTo(kept \cup {x}, i) = UpTo(kept, i)
      OBVIOUS
    <3> HIDE DEF UpTo, more
    <3> QED BY <3>1, <3>2, <1>3, <2>1
  <2>2. CASE n = Len(records) + 1
    <3>1. \A j \in kept \cup {x} : j <= x
      OBVIOUS
    <3>2. UpTo(kept \cup {x}, x) = kept \cup {x}
      BY <3>1, Zenon
    <3> HIDE DEF UpTo, more
    <3>3. more[n] = <<name, x>>
      BY <1>3, <2>2
    <3>4. Cardinality(UpTo(kept \cup {x}, x)) = n
      BY <3>2, <1>2, <1>4, <2>2
    <3> WITNESS x \in kept \cup {x}
    <3> QED BY <3>3, <3>4
  <2> HIDE DEF UpTo, more
  <2>3. n \in 1 .. Len(records) \/ n = Len(records) + 1
    BY <1>3, <1>4
  <2> QED BY <2>1, <2>2, <2>3, Zenon
<1> HIDE DEF more
<1>6. Len(more) = Cardinality(kept \cup {x})
  BY <1>2, <1>3, <1>4
<1>7. IsCopy(name, more, kept \cup {x})
  BY <1>5, <1>6 DEF IsCopy
<1> QED BY <1>7 DEF more
-----------------------------------------------------------------------------
(***************************************************************************)
(* The invariant holds at the start and after each step.                   *)
(***************************************************************************)
LEMMA Array ==
    ASSUME TypeOK, ScanOK, pc \in {"read", "create", "write", "close"}
    PROVE  /\ Name \in Names
           /\ Start \in Nat /\ Start = SymbolOffset(Name)
           /\ Length \in Nat \ {0} /\ Start + Length <= driver.size
           /\ Name = "firmware" => Start + Length = SymbolOffset("loader")
           /\ \E i \in DOMAIN driver.symbols : driver.symbols[i].name = Name
<1>1. Located /\ index = Len(driver.symbols)
  BY DEF ScanOK
<1>2. ASSUME NEW name \in Names
      PROVE  /\ offsets[name] \in Nat /\ offsets[name] = SymbolOffset(name)
             /\ \E i \in DOMAIN driver.symbols :
                   driver.symbols[i].name = name
  <2>1. found[name]
    BY <1>1 DEF Located, Names
  <2>2. FoundAt(name, Len(driver.symbols), offsets[name])
    BY <1>1, <2>1 DEF ScanOK
  <2> QED BY <2>2, FoundIsLast DEF TypeOK
<1>3. Name \in Names
  BY DEF TypeOK, Name, Outputs, Names
<1>4. Start = offsets[Name]
  BY <1>3 DEF Start, Names
<1>5. driver.size \in Nat
  BY DEF TypeOK
<1>6. offsets["firmware"] \in Nat /\ offsets["loader"] \in Nat
  BY <1>2 DEF Names
<1>7. Length \in Nat \ {0} /\ Start + Length <= driver.size
  BY <1>1, <1>3, <1>4, <1>5, <1>6 DEF Length, Located, Names
<1>8. Name = "firmware" => Start + Length = SymbolOffset("loader")
  BY <1>2, <1>4, <1>6 DEF Length, Names
<1> QED BY <1>2, <1>3, <1>4, <1>7, <1>8

LEMMA FileTypes ==
    /\ Absent \in Content /\ Old \in Content
    /\ [present |-> TRUE, records |-> <<>>] \in Content
    /\ Torn \in Entry
<1>1. <<>> \in Seq(Entry)
  OBVIOUS
<1>2. ASSUME NEW S, NEW e \in S
      PROVE  <<e>> \in Seq(S)
  <2>1. <<e>> = Append(<<>>, e)
    OBVIOUS
  <2> QED BY ONLY <2>1, e \in S
<1>3. <<"old", 0>> \in Entry /\ <<"torn", 0>> \in Entry
  BY DEF Entry
<1>4. <<<<"old", 0>>>> \in Seq(Entry)
  BY <1>2, <1>3, Zenon
<1> QED BY <1>1, <1>3, <1>4 DEF Absent, Old, Content, Torn

LEMMA AppendType ==
    ASSUME TypeOK, NEW kind \in Entry
    PROVE  /\ Append1(kind) \in [Names -> Content]
           /\ Append1(kind)[Name].present = file[Name].present
           /\ Append1(kind)[Name].records = Append(file[Name].records, kind)
           /\ \A name \in Names \ {Name} : Append1(kind)[name] = file[name]
<1>1. Name \in Names /\ file \in [Names -> Content]
  BY DEF TypeOK, Name, Outputs, Names
<1>2. file[Name] \in Content /\ file[Name].records \in Seq(Entry)
  BY <1>1 DEF Content
<1>3. Append(file[Name].records, kind) \in Seq(Entry)
  BY <1>2
<1> HIDE DEF Name
<1> QED BY <1>1, <1>2, <1>3 DEF Append1, Content

LEMMA InitInv == Init => IInv
<1> SUFFICES ASSUME Init PROVE IInv
  OBVIOUS
<1>1. TypeOK
  <2>1. file \in [Names -> Content]
    BY FileTypes DEF Init, Names
  <2>2. Len(driver.symbols) \in Nat
    BY DEF Init
  <2>3. index \in 0 .. Len(driver.symbols)
    BY <2>2 DEF Init
  <2>4. found \in [Names -> BOOLEAN] /\ offsets \in [Names -> Nat]
    BY DEF Init, Names
  <2> QED BY <2>1, <2>3, <2>4 DEF Init, TypeOK, Names, Places
<1>2. HeldOK
  BY DEF Init, HeldOK, NothingHeld
<1>3. ScanOK
  BY DEF Init, ScanOK, Names
<1>4. WriteOK
  BY DEF Init, WriteOK
<1>5. FilesOK
  BY DEF Init, FilesOK
<1> QED BY <1>1, <1>2, <1>3, <1>4, <1>5 DEF IInv

LEMMA StepHeld ==
    ASSUME TypeOK, HeldOK, [Next]_vars
    PROVE  HeldOK'
<1> USE DEF HeldOK, NothingHeld
<1>1. CASE TryNextTarget \/ OpenDriver \/ NoDriver
  BY <1>1 DEF TryNextTarget, OpenDriver, NoDriver, search, writing
<1>2. CASE NoDataSection \/ ReadSymbols
  BY <1>2 DEF NoDataSection, ReadSymbols, search, writing
<1>3. CASE ScanSymbol \/ FinishScan
  BY <1>3 DEF ScanSymbol, FinishScan, writing
<1>4. CASE ReadFails \/ ReadData
  BY <1>4 DEF ReadFails, ReadData, search, writing
<1>5. CASE CannotCreate \/ Create
  BY <1>5 DEF CannotCreate, Create, search, writing
<1>6. CASE WriteRecord \/ FinishRecords
  BY <1>6 DEF WriteRecord, FinishRecords, search
<1>7. CASE Close \/ Release
  BY <1>7 DEF Close, Release, search, writing
<1>8. CASE Ended \/ UNCHANGED vars
  BY <1>8 DEF Ended, vars, search, writing
<1> QED BY <1>1, <1>2, <1>3, <1>4, <1>5, <1>6, <1>7, <1>8 DEF Next

LEMMA StepScan ==
    ASSUME TypeOK, ScanOK, [Next]_vars
    PROVE  ScanOK'
<1>1. CASE UNCHANGED <<driver, index, found, offsets>>
  <2>1. /\ pc' \in {"open", "section"} => pc \in {"open", "section"}
        /\ pc' \in {"read", "create", "write", "close"} =>
              \/ pc \in {"read", "create", "write", "close"}
              \/ Located /\ index = Len(driver.symbols)
    BY <1>1 DEF Next, TryNextTarget, OpenDriver, NoDriver, NoDataSection,
       ReadSymbols, ScanSymbol, FinishScan, ReadFails, ReadData,
       CannotCreate, Create, WriteRecord, FinishRecords, Close, Release, Ended,
       vars
  <2> QED BY <1>1, <2>1 DEF ScanOK, FoundAt, Located, IsOffset,
          IsFileOffset, SectionOffset
<1>2. CASE ReadSymbols
  BY <1>2 DEF ReadSymbols, ScanOK, inputs
<1>3. CASE ScanSymbol
  <2> DEFINE symbol == driver.symbols[index + 1]
  <2>1. /\ index \in Nat /\ index + 1 \in 1 .. Len(driver.symbols)
        /\ index + 1 \in DOMAIN driver.symbols /\ symbol.value \in Nat
    BY <1>3, SymbolType DEF ScanSymbol, TypeOK
  <2>2. /\ pc' = "scan" /\ driver' = driver /\ index' = index + 1
    BY <1>3 DEF ScanSymbol, inputs
  <2>3. ASSUME NEW name \in Names, found'[name]
        PROVE  FoundAt(name, index', offsets'[name])
    <3>1. CASE symbol.name = name
      <4>1. /\ IsOffset(symbol.value)
            /\ offsets'[name] = SectionOffset(symbol.value)
        BY <1>3, <2>3, <2>2, <3>1 DEF ScanSymbol, TypeOK, Names
      <4> QED BY <2>1, <2>2, <3>1, <4>1 DEF FoundAt
    <3>2. CASE symbol.name # name
      <4>1. found'[name] = found[name] /\ offsets'[name] = offsets[name]
        BY <1>3, <2>2, <3>2 DEF ScanSymbol, TypeOK, Names
      <4>2. FoundAt(name, index, offsets[name])
        BY <2>3, <4>1 DEF ScanOK
      <4> QED BY <2>1, <2>2, <3>2, <4>1, <4>2 DEF FoundAt
    <3> QED BY <3>1, <3>2
  <2> QED BY <2>2, <2>3 DEF ScanOK, FoundAt, IsOffset, IsFileOffset,
          SectionOffset
<1> QED BY <1>1, <1>2, <1>3 DEF Next, TryNextTarget, OpenDriver, NoDriver,
        NoDataSection, FinishScan, ReadFails, ReadData, CannotCreate, Create,
        WriteRecord, FinishRecords, Close, Release, Ended, vars, inputs, search
LEMMA StepType ==
    ASSUME TypeOK, ScanOK, WriteOK, [Next]_vars
    PROVE  TypeOK'
<1>1. CASE TryNextTarget \/ OpenDriver \/ NoDriver
  BY <1>1 DEF TypeOK, Places, TryNextTarget, OpenDriver, NoDriver, inputs,
     search, writing
<1>2. CASE NoDataSection
  BY <1>2 DEF TypeOK, Places, NoDataSection, inputs, search, writing
<1>10. CASE ReadSymbols
  <2>1. Len(driver.symbols) \in Nat
    BY DEF TypeOK
  <2>2. index' \in 0 .. Len(driver.symbols)
    BY <1>10, <2>1 DEF ReadSymbols
  <2>4. symbols' \in BOOLEAN
    BY <1>10 DEF ReadSymbols
  <2>3. /\ pc' = "scan"
        /\ UNCHANGED <<driver, removable, before, found, offsets, data,
                       output, offset, eofFound, result, file, exit>>
    BY <1>10 DEF ReadSymbols, inputs, writing
  <2> QED BY <2>2, <2>3, <2>4 DEF TypeOK, Places
<1>3. CASE ScanSymbol
  <2> DEFINE symbol == driver.symbols[index + 1]
  <2>1. /\ pc' = "scan" /\ index' \in 0 .. Len(driver.symbols)
        /\ UNCHANGED <<driver, removable, before, symbols, data, output,
                       offset, eofFound, result, file, exit>>
    BY <1>3 DEF TypeOK, ScanSymbol, inputs, writing
  <2>2. symbol.value \in Nat
    BY <1>3, SymbolType DEF ScanSymbol, TypeOK
  <2>3. found' \in [Names -> BOOLEAN]
    BY <1>3 DEF ScanSymbol, TypeOK, IsOffset, IsFileOffset
  <2>4. offsets' \in [Names -> Nat]
    <3>1. IsOffset(symbol.value) => SectionOffset(symbol.value) \in Nat
      BY <2>2, OffsetInSection DEF TypeOK
    <3> QED BY <1>3, <3>1 DEF ScanSymbol, TypeOK
  <2> QED BY <2>1, <2>3, <2>4 DEF TypeOK, Places
<1>4. CASE FinishScan \/ ReadFails \/ ReadData
  BY <1>4 DEF TypeOK, Places, FinishScan, ReadFails, ReadData, inputs,
     search, writing
<1>5. CASE CannotCreate
  BY <1>5 DEF TypeOK, Places, CannotCreate, inputs, search, writing
<1>11. CASE Create
  <2>1. Name \in Names
    BY DEF TypeOK, Name, Outputs, Names
  <2>2. file' \in [Names -> Content]
    BY <1>11, <2>1, FileTypes DEF TypeOK, Create
  <2>3. result' = (Length > 0 /\ Length % RecordSize = 0)
    BY <1>11 DEF Create
  <2>4. result' \in BOOLEAN
    BY <2>3, Zenon
  <2>5. /\ pc' \in {"write", "close"} /\ offset' = 0 /\ eofFound' = FALSE
        /\ UNCHANGED <<driver, removable, before, index, symbols, found,
                       offsets, data, output, exit>>
    BY <1>11 DEF Create, inputs, search
  <2> QED BY <2>2, <2>4, <2>5 DEF TypeOK, Places
<1>6. CASE WriteRecord
  <2>1. <<Name, Start + offset>> \in Entry
    BY <1>6, Array DEF WriteRecord, TypeOK, Entry
  <2>2. file' \in [Names -> Content]
    BY <1>6, <2>1, FileTypes, AppendType DEF TypeOK, WriteRecord
  <2>3. /\ eofFound' \in BOOLEAN
        /\ result' \in BOOLEAN
    <3>1. eofFound' = (Record \in {"eof", "badEof"})
      BY <1>6 DEF WriteRecord
    <3>2. eofFound' \in BOOLEAN
      <4>1. CASE Record \in {"eof", "badEof"}
        BY <3>1, <4>1
      <4>2. CASE Record \notin {"eof", "badEof"}
        BY <3>1, <4>2
      <4> QED BY <4>1, <4>2
    <3>3. result' \in BOOLEAN
      BY <1>6 DEF WriteRecord, TypeOK
    <3> QED BY <3>2, <3>3
  <2>4. offset' \in Nat
    BY <1>6 DEF WriteRecord, TypeOK
  <2> QED BY <1>6, <2>2, <2>3, <2>4 DEF TypeOK, Places, WriteRecord, inputs,
          search
<1>7. CASE FinishRecords
  BY <1>7 DEF TypeOK, Places, FinishRecords, inputs, search
<1>8. CASE Close
  <2>1. Name \in Names
    BY DEF TypeOK, Name, Outputs, Names
  <2>2. file' \in [Names -> Content]
    BY <1>8, <2>1, FileTypes, AppendType DEF TypeOK, Close
  <2>3. result' \in BOOLEAN /\ output' \in {1, 2}
    BY <1>8 DEF TypeOK, Close
  <2> QED BY <1>8, <2>2, <2>3 DEF TypeOK, Places, Close, inputs, search
<1>9. CASE Release \/ Ended \/ UNCHANGED vars
  <2>1. /\ pc' \in {"ended", pc} /\ data' \in {FALSE, data}
        /\ UNCHANGED <<driver, removable, before, file, symbols, index, found,
                       offsets, output, offset, eofFound, result, exit>>
    <3>1. CASE Release
      BY <3>1 DEF Release, inputs, search, writing
    <3>2. CASE Ended \/ UNCHANGED vars
      BY <3>2 DEF Ended, vars, inputs, search, writing
    <3> QED BY <1>9, <3>1, <3>2
  <2>2. pc' \in Places /\ data' \in BOOLEAN
    BY <2>1 DEF TypeOK, Places
  <2> QED BY <2>1, <2>2 DEF TypeOK
<1> QED BY <1>1, <1>2, <1>3, <1>4, <1>5, <1>6, <1>7, <1>8, <1>9,
        <1>10, <1>11 DEF Next

\* The array does not move while it is written.
LEMMA ArrayStays ==
    ASSUME UNCHANGED <<driver, offsets, output>>
    PROVE  Name' = Name /\ Start' = Start /\ Length' = Length
BY DEF Name, Start, Length, Outputs

LEMMA StepCreate ==
    ASSUME TypeOK, ScanOK, Create
    PROVE  WriteOK'
<1>1. Name' = Name /\ Start' = Start /\ Length' = Length
  BY ArrayStays DEF Create, inputs, search
<1>2. Name \in Names /\ Start \in Nat
  BY Array DEF Create
<1>3. file'[Name] = [present |-> TRUE, records |-> <<>>]
  BY <1>2 DEF Create, TypeOK
<1>4. offset' = 0 /\ eofFound' = FALSE /\ (pc' = "close" => ~result')
  BY DEF Create
<1>5. result' => Length > 0 /\ Length % RecordSize = 0
  BY DEF Create
<1>6. RecordSize \in Nat \ {0} /\ 0 % RecordSize = 0
  OBVIOUS
<1>7. Latest' = Start - RecordSize
  BY <1>1, <1>2, <1>4 DEF Latest
<1>8. Kept(Start, Latest)' = {}
  BY <1>1, <1>2, <1>6, <1>7 DEF Kept
<1>9. IsCopy(Name, file[Name].records, Kept(Start, Latest))'
  <2>1. IsCopy(Name, <<>>, {})
    BY CopyStarts
  <2>2. Kept(Start, Latest)' = {} /\ Name' = Name /\ file'[Name'].records = <<>>
    BY <1>1, <1>3, <1>8
  <2> QED BY <2>1, <2>2 DEF IsCopy
<1>10. 0 < Length + RecordSize
  BY Array, <1>6 DEF Create
<1> QED BY <1>1, <1>3, <1>4, <1>5, <1>6, <1>8, <1>9, <1>10 DEF WriteOK

LEMMA StepWriteRecord ==
    ASSUME TypeOK, ScanOK, WriteOK, WriteRecord
    PROVE  WriteOK'
<1> DEFINE x == Start + offset
           kept == Kept(Start, Latest)
<1>1. /\ Name' = Name /\ Start' = Start /\ Length' = Length
      /\ driver' = driver /\ pc' = "write" /\ pc = "write"
  BY ArrayStays DEF WriteRecord, inputs, search
<1>2. /\ Name \in Names /\ Start \in Nat /\ Length \in Nat \ {0}
      /\ offset \in Nat /\ RecordSize \in Nat \ {0}
      /\ driver \in Drivers /\ file[Name].records \in Seq(Entry)
  BY Array DEF WriteRecord, TypeOK, Content
<1>3. /\ offset < Length /\ ~eofFound /\ result
      /\ offset' = offset + RecordSize
  BY DEF WriteRecord
<1>4. Latest' = x
  BY <1>1, <1>2, <1>3 DEF Latest
<1>5. x \in Nat /\ <<Name, x>> \in Entry
  BY <1>2 DEF Entry
<1>6. file'[Name].present
  <2>1. file[Name].present
    BY <1>1 DEF WriteOK
  <2>2. file' \in {file, Append1(<<Name, x>>), Append1(Torn)}
    BY DEF WriteRecord
  <2> QED BY <2>1, <2>2, <1>5, AppendType, FileTypes
<1>7. ASSUME result'
      PROVE  /\ Length > 0 /\ offset' < Length + RecordSize
             /\ offset' % RecordSize = 0
             /\ IsCopy(Name, file'[Name].records, Kept(Start, x))
             /\ eofFound' => offset' > 0 /\ driver.record[x] = "eof"
             /\ \A i \in Kept(Start, x) :
                   driver.record[i] = "data" \/ (eofFound' /\ i = x)
  <2>1. /\ offset % RecordSize = 0
        /\ IsCopy(Name, file[Name].records, kept)
        /\ \A i \in kept : driver.record[i] = "data"
    BY <1>1, <1>3 DEF WriteOK
  <2>2. Kept(Start, x) =
          kept \cup (IF driver.record[x] = "empty" THEN {} ELSE {x})
    BY <1>2, <2>1, KeptGrows DEF Latest
  <2>3. \/ Record = "empty" /\ file' = file
        \/ Record \in {"data", "eof"} /\ file' = Append1(<<Name, x>>)
    BY <1>7 DEF WriteRecord
  <2>4. Record = driver.record[x]
    BY DEF Record
  <2>5. eofFound' <=> Record \in {"eof", "badEof"}
    BY DEF WriteRecord
  <2>6. kept \in SUBSET Nat /\ IsFiniteSet(kept) /\ \A i \in kept : i < x
    <3>1. Latest \in Int /\ Latest < x
      BY <1>2 DEF Latest
    <3>2. kept \subseteq Start .. Latest /\ IsFiniteSet(kept)
      BY <3>1, <1>2, KeptFinite
    <3> HIDE DEF kept, x
    <3> QED BY <3>1, <3>2, <1>2, <1>5
  <2>7. IsCopy(Name, file'[Name].records, Kept(Start, x))
    <3> HIDE DEF kept, x
    <3>1. CASE Record = "empty" /\ file' = file
      BY <3>1, <2>1, <2>2, <2>4
    <3>2. CASE /\ Record \in {"data", "eof"}
               /\ file' = Append1(<<Name, x>>)
      <4>1. file'[Name].records = Append(file[Name].records, <<Name, x>>)
        BY <3>2, <1>5, AppendType
      <4>2. Kept(Start, x) = kept \cup {x}
        BY <3>2, <2>2, <2>4
      <4>3. IsCopy(Name, Append(file[Name].records, <<Name, x>>),
                   kept \cup {x})
        BY <2>1, <2>6, <1>2, <1>5, CopyGrows
      <4> QED BY <4>1, <4>2, <4>3
    <3> QED BY <2>3, <3>1, <3>2
  <2>8. offset' % RecordSize = 0
    BY <1>2, <1>3, <2>1, NextMultiple
  <2> HIDE DEF kept, x
  <2>9. eofFound' => driver.record[x] = "eof"
    BY <2>3, <2>4, <2>5
  <2>10. \A i \in Kept(Start, x) :
            driver.record[i] = "data" \/ (eofFound' /\ i = x)
    BY <2>1, <2>2, <2>3, <2>4, <2>5
  <2> QED BY <1>2, <1>3, <2>7, <2>8, <2>9, <2>10
<1> HIDE DEF x
<1>8. Kept(Start, Latest)' = Kept(Start, x)
  BY <1>1, <1>4 DEF Kept
<1>9. IsCopy(Name, file[Name].records, Kept(Start, Latest))'
        <=> IsCopy(Name, file'[Name].records, Kept(Start, x))
  BY <1>1, <1>8 DEF IsCopy
<1> QED BY <1>1, <1>4, <1>6, <1>7, <1>8, <1>9 DEF WriteOK

LEMMA StepWrite ==
    ASSUME TypeOK, ScanOK, WriteOK, [Next]_vars
    PROVE  WriteOK'
<1>1. CASE Create
  BY <1>1, StepCreate
<1>2. CASE WriteRecord
  BY <1>2, StepWriteRecord
<1>3. CASE FinishRecords \/ Ended \/ UNCHANGED vars
  <2>1. /\ UNCHANGED <<driver, offsets, output, offset, eofFound, file>>
        /\ pc' \in {"write", "close"} => pc \in {"write", "close"}
        /\ result' => result /\ (pc' = "close" => pc = "close" \/ eofFound)
    <3>1. CASE FinishRecords
      <4>1. result' = (result /\ eofFound)
        BY <3>1 DEF FinishRecords
      <4>2. result' => result /\ eofFound
        BY <4>1, Zenon
      <4> QED BY <3>1, <4>2 DEF FinishRecords, inputs, search
    <3>2. CASE Ended \/ UNCHANGED vars
      BY <3>2 DEF Ended, vars, inputs, search, writing
    <3> QED BY <1>3, <3>1, <3>2
  <2>2. Name' = Name /\ Start' = Start /\ Length' = Length
    BY <2>1, ArrayStays
  <2>3. Latest' = Latest
    BY <2>1, <2>2 DEF Latest
  <2>4. Kept(Start, Latest)' = Kept(Start, Latest)
    BY <2>1, <2>2, <2>3 DEF Kept
  <2>5. IsCopy(Name, file[Name].records, Kept(Start, Latest))'
          <=> IsCopy(Name, file[Name].records, Kept(Start, Latest))
    BY <2>1, <2>2, <2>4 DEF IsCopy
  <2> QED BY <2>1, <2>2, <2>3, <2>4, <2>5 DEF WriteOK
<1>4. CASE pc' \notin {"write", "close"}
  BY <1>4 DEF WriteOK
<1> QED BY <1>1, <1>2, <1>3, <1>4 DEF Next, TryNextTarget, OpenDriver,
        NoDriver, NoDataSection, ReadSymbols, ScanSymbol, FinishScan,
        ReadFails, ReadData, CannotCreate, Close, Release
\* Which files are whole depends on the driver and the file alone.
LEMMA WholeStays ==
    ASSUME driver' = driver, NEW name, file'[name] = file[name]
    PROVE  Whole(name)' <=> Whole(name)
BY DEF Whole, IsWhole, SymbolOffset, SectionOffset, IsFileOffset

\* A file that is closed with success is whole.
LEMMA ClosedIsWhole ==
    ASSUME TypeOK, ScanOK, WriteOK, pc = "close", result
    PROVE  Whole(Name)
<1>1. /\ Name \in Names
      /\ Start \in Nat /\ Start = SymbolOffset(Name)
      /\ Length \in Nat \ {0} /\ Start + Length <= driver.size
      /\ Name = "firmware" => Start + Length = SymbolOffset("loader")
      /\ \E i \in DOMAIN driver.symbols : driver.symbols[i].name = Name
  BY Array
<1>2. /\ offset < Length + RecordSize /\ offset % RecordSize = 0
      /\ IsCopy(Name, file[Name].records, Kept(Start, Latest))
      /\ eofFound /\ offset > 0 /\ driver.record[Latest] = "eof"
      /\ \A i \in Kept(Start, Latest) :
            driver.record[i] = "data" \/ i = Latest
      /\ file[Name].present
  BY DEF WriteOK
<1>3. /\ RecordSize \in Nat \ {0} /\ offset \in Nat /\ driver \in Drivers
      /\ driver.size \in Nat /\ DOMAIN driver.record = 0 .. driver.size - 1
  BY DEF TypeOK
<1>4. RecordSize <= offset
  <2>1. PICK k \in Nat : offset = RecordSize * k
    BY <1>2, <1>3, AsMultiple
  <2>2. k >= 1
    BY <2>1, <1>2, <1>3
  <2>3. RecordSize * k >= RecordSize
    BY <2>2, <1>3
  <2> QED BY <2>1, <2>3
<1>5. /\ Latest \in Nat /\ Start <= Latest /\ Latest < Start + Length
      /\ Latest - Start = offset - RecordSize
  BY <1>1, <1>2, <1>3, <1>4 DEF Latest
<1>6. (Latest - Start) % RecordSize = 0
  <2>1. PICK k \in Nat : offset = RecordSize * k
    BY <1>2, <1>3, AsMultiple
  <2>2. k >= 1 /\ k - 1 \in Nat
    BY <2>1, <1>2, <1>3
  <2>3. offset - RecordSize = RecordSize * (k - 1)
    BY <2>1, <1>3
  <2>4. (RecordSize * (k - 1)) % RecordSize = 0
    BY <2>2, <1>3, Multiple
  <2> QED BY <1>5, <2>3, <2>4, Zenon
<1> DEFINE start == SymbolOffset(Name)
           inArray == {i \in start .. Latest : (i - start) % RecordSize = 0}
           kept == {i \in inArray : driver.record[i] # "empty"}
<1>7. kept = Kept(Start, Latest)
  BY <1>1 DEF Kept
<1>8. Latest \in DOMAIN driver.record /\ Latest \in inArray
  BY <1>1, <1>3, <1>5, <1>6, Latest \in start .. Latest
<1>9. \A i \in kept \ {Latest} : driver.record[i] = "data"
  BY <1>2, <1>7
<1>10. /\ Len(file[Name].records) = Cardinality(kept)
       /\ \A n \in 1 .. Len(file[Name].records) :
             \E i \in kept : /\ file[Name].records[n] = <<Name, i>>
                             /\ Cardinality({j \in kept : j <= i}) = n
  <2> HIDE DEF kept
  <2> QED BY <1>2, <1>7 DEF IsCopy
<1>11. Name = "firmware" => Latest < SymbolOffset("loader")
  BY <1>1, <1>5
<1> HIDE DEF Name, Latest, Start, Length
<1>12. \E last \in DOMAIN driver.record :
          LET array == {i \in start .. last : (i - start) % RecordSize = 0}
              valid == {i \in array : driver.record[i] # "empty"}
          IN  /\ last \in array /\ driver.record[last] = "eof"
              /\ Name = "firmware" => last < SymbolOffset("loader")
              /\ \A i \in valid \ {last} : driver.record[i] = "data"
              /\ Len(file[Name].records) = Cardinality(valid)
              /\ \A n \in 1 .. Len(file[Name].records) :
                    \E i \in valid :
                       /\ file[Name].records[n] = <<Name, i>>
                       /\ Cardinality({j \in valid : j <= i}) = n
  <2> Latest \in DOMAIN driver.record
    BY <1>8
  <2> WITNESS Latest \in DOMAIN driver.record
  <2> QED BY <1>2, <1>8, <1>9, <1>10, <1>11, Zenon
<1> QED BY <1>1, <1>2, <1>12, Zenon DEF Whole, IsWhole
LEMMA NameOf ==
    ASSUME TypeOK
    PROVE  /\ \/ output = 1 /\ Name = "firmware"
              \/ output = 2 /\ Name = "loader"
           /\ file \in [Names -> Content]
BY DEF TypeOK, Name, Outputs

\* The step leaves the files alone.
LEMMA FilesKept ==
    ASSUME TypeOK, FilesOK, [Next]_vars, ~Create, ~WriteRecord, ~Close
    PROVE  FilesOK'
<1>1. /\ UNCHANGED <<driver, removable, before, output, file, exit>>
      /\ pc' \in {"open", "section", "scan", "read"} =>
            pc \in {"open", "section", "scan", "read"}
      /\ pc' \in {"write", "close"} => pc \in {"write", "close"}
      /\ pc' = "create" => pc \in {"read", "create"}
      /\ pc' \notin {"write", "close", "release", "ended"} =>
            pc \notin {"write", "close", "release", "ended"}
      /\ pc' \notin {"release", "ended"} => pc \notin {"release", "ended"}
      /\ pc' \in {"release", "ended"} =>
            pc \in {"open", "section", "scan", "read", "create", "release",
                    "ended"}
  BY DEF Next, TryNextTarget, OpenDriver, NoDriver, NoDataSection,
     ReadSymbols, ScanSymbol, FinishScan, ReadFails, ReadData,
     CannotCreate, FinishRecords, Release, Ended, vars, inputs, search, writing
<1>2. /\ Whole("firmware")' <=> Whole("firmware")
      /\ Whole("loader")' <=> Whole("loader")
  BY <1>1, WholeStays
<1>3. pc' \in {"release", "ended"} => LeftOver
  <2>1. CASE pc \in {"release", "ended"}
    BY <2>1 DEF FilesOK
  <2>2. CASE pc \in {"open", "section", "scan", "read", "create"}
    <3>1. exit = "failure"
      BY <2>2 DEF FilesOK
    <3>2. \/ file = before
          \/ Whole("firmware") /\ file["loader"] = before["loader"]
      BY <2>2, NameOf DEF FilesOK
    <3> QED BY <3>1, <3>2 DEF LeftOver, Names
  <2> QED BY <1>1, <2>1, <2>2
<1>4. LeftOver' <=> LeftOver
  BY <1>1, <1>2 DEF LeftOver, Names
<1> QED BY <1>1, <1>2, <1>3, <1>4 DEF FilesOK

\* The step changes the file in work only.
LEMMA FileChanged ==
    ASSUME TypeOK, FilesOK, Create \/ WriteRecord
    PROVE  FilesOK'
<1>1. /\ UNCHANGED <<driver, removable, before, output, exit>>
      /\ pc' \in {"write", "close"}
      /\ pc \in {"create", "write"}
  BY DEF Create, WriteRecord, inputs
<1>2. \A name \in Names \ {Name} : file'[name] = file[name]
  <2>1. file' \in [Names -> Content]
           => \A name \in Names \ {Name} : file'[name] = file[name]
    BY NameOf DEF Create, WriteRecord, Append1
  <2> QED BY <2>1, NameOf DEF Create, WriteRecord, Append1
<1>3. output = 1 => file'["loader"] = file["loader"]
  BY <1>2, NameOf DEF Names
<1>4. output = 2 => (Whole("firmware")' <=> Whole("firmware"))
  BY <1>1, <1>2, NameOf, WholeStays DEF Names
<1> QED BY <1>1, <1>3, <1>4 DEF FilesOK

LEMMA FilesClosed ==
    ASSUME TypeOK, ScanOK, WriteOK, FilesOK, Close
    PROVE  FilesOK'
<1>1. /\ UNCHANGED <<driver, removable, before>>
      /\ pc = "close"
  BY DEF Close, inputs
<1>2. exit = "failure" /\ (output = 2 => Whole("firmware"))
      /\ (output = 1 => file["loader"] = before["loader"])
  BY <1>1 DEF FilesOK
<1>3. CASE result'
  <2>1. result /\ file' = file
    BY <1>3 DEF Close
  <2>2. Whole(Name)
    BY <1>1, <2>1, ClosedIsWhole
  <2>3. /\ Whole("firmware")' <=> Whole("firmware")
        /\ Whole("loader")' <=> Whole("loader")
    BY <1>1, <2>1, WholeStays
  <2>4. CASE output = 1
    <3>1. pc' = "create" /\ output' = 2 /\ exit' = "failure"
      BY <1>3, <2>4 DEF Close
    <3> QED BY <1>1, <1>2, <2>1, <2>2, <2>3, <2>4, <3>1, NameOf DEF FilesOK
  <2>5. CASE output = 2
    <3>1. pc' = "release" /\ output' = 2
      BY <1>3, <2>5 DEF Close
    <3>2. Whole("firmware")' /\ Whole("loader")'
      BY <1>2, <2>2, <2>3, <2>5, NameOf
    <3>3. LeftOver'
      BY <3>2 DEF LeftOver, Names
    <3> QED BY <3>1, <3>2, <3>3 DEF FilesOK
  <2> QED BY <2>4, <2>5, NameOf
<1>4. CASE ~result'
  <2>1. pc' = "release" /\ output' = output /\ exit' = "failure"
    BY <1>4 DEF Close
  <2>2. /\ removable => file' = [file EXCEPT ![Name] = Absent]
        /\ \E e \in Entry : ~removable => file' \in {file, Append1(e)}
    BY <1>4, FileTypes DEF Close
  <2>3. \A name \in Names \ {Name} : file'[name] = file[name]
    BY <2>2, NameOf, AppendType DEF Names
  <2>4. removable => file'[Name] = Absent
    BY <2>2, NameOf DEF Names
  <2>5. output = 2 => Whole("firmware")'
    BY <1>1, <1>2, <2>3, NameOf, WholeStays DEF Names
  <2>6. output = 1 => file'["loader"] = before["loader"]
    BY <1>2, <2>3, NameOf DEF Names
  <2>7. LeftOver'
    BY <1>1, <2>1, <2>4, <2>5, <2>6, NameOf DEF LeftOver, Names
  <2> QED BY <2>1, <2>5, <2>7 DEF FilesOK
<1> QED BY <1>3, <1>4

LEMMA StepInv == IInv /\ [Next]_vars => IInv'
<1> SUFFICES ASSUME IInv, [Next]_vars PROVE IInv'
  OBVIOUS
<1>1. TypeOK /\ HeldOK /\ ScanOK /\ WriteOK /\ FilesOK
  BY DEF IInv
<1>2. FilesOK'
  BY <1>1, FilesKept, FileChanged, FilesClosed
<1> QED BY <1>1, <1>2, StepType, StepHeld, StepScan, StepWrite DEF IInv

LEMMA Invariance == Spec => []IInv
BY InitInv, StepInv, PTL DEF Spec

-----------------------------------------------------------------------------
\* Wherever the extraction fails, the handle of the library, the stream, the
\* array of symbols and the copy of the section are given back
\* (tools/dsoextractfw.c, the exits of main, findFirmwareOffsets,
\* extractFirmware and writeHexFile).
THEOREM NothingStaysHeld == Spec => []NothingHeld
BY Invariance, PTL DEF IInv, HeldOK

\* For every driver, size of record and failure: success leaves two whole
\* files, a failure leaves none that is part of an array if the program may
\* remove it, and a loader is only replaced next to a whole firmware
\* (writeHexFile and extractFirmware, tools/dsoextractfw.c).
THEOREM OutputIsNeverPartial == Spec => []NoPartialOutput
<1>1. IInv => NoPartialOutput
  BY DEF IInv, FilesOK, LeftOver, NoPartialOutput, Whole, TypeOK
<1> QED BY <1>1, Invariance, PTL
=============================================================================
