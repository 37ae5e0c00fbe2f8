-------------------------- MODULE FirmwareExtractor --------------------------
(***************************************************************************)
(* tools/dsoextractfw.c: the firmware and the loader of an instrument are  *)
(* found by their symbols in the .data section of a Windows driver, as     *)
(* arrays of fixed-size records, and written to two Intel HEX files.       *)
(*                                                                         *)
(* The driver, the library that reads it and the file system may fail at   *)
(* any call.  A record is told apart only as far as writeHexFile does: it  *)
(* is "empty", "data", "eof", "bad" (not a valid record), or "badEof" (an  *)
(* end that is not valid, because it has an address).                      *)
(***************************************************************************)
EXTENDS Integers, Sequences, FiniteSets

CONSTANTS
    RecordSize,  \* RECORD_SIZE
    Targets,     \* the number of object formats that are tried
    Drivers      \* [symbols, filepos, size, record]: a file that may be given

Kinds == {"empty", "data", "eof", "bad", "badEof"}

ASSUME DriverAssumption ==
    /\ RecordSize \in Nat \ {0}
    /\ Targets \in Nat
    /\ \A d \in Drivers : /\ d.symbols \in Seq([name : STRING, value : Nat])
                          /\ d.filepos \in Nat /\ d.size \in Nat
                          /\ d.record \in [0 .. d.size - 1 -> Kinds]

Names == {"firmware", "loader"}
Outputs == <<"firmware", "loader">>

Absent == [present |-> FALSE, records |-> <<>>]
Old == [present |-> TRUE, records |-> <<<<"old", 0>>>>]
Torn == <<"torn", 0>>   \* a record of which only a part reached the file

VARIABLES
    pc,
    driver,      \* the file given
    removable,   \* the output directory permits the removal of a file
    target,      \* openDriver: index
    handles,     \* bfd handles that are open
    symbols,     \* findFirmwareOffsets: the array is allocated
    index,       \* symbols that were looked at
    found,       \* firmwareFound and loaderFound
    offsets,     \* SFirmwareOffsets_t
    data,        \* the copy of the section is allocated
    output,      \* the output in work: an index of Outputs
    stream,      \* writeHexFile: the file is open
    offset,      \* writeHexFile: of the next record, from the array's start
    eofFound, result,
    file,        \* the output files
    before,      \* the output files when the program started
    exit

search == <<symbols, index, found, offsets>>
writing == <<output, stream, offset, eofFound, result, file>>
inputs == <<driver, removable, before>>
vars == <<pc, inputs, target, handles, search, data, writing, exit>>

Init == /\ pc = "open"
        /\ driver \in Drivers
        /\ removable \in BOOLEAN
        /\ before \in [Names -> {Absent, Old}]
        /\ file = before
        /\ target = 0 /\ handles = 0
        /\ symbols = FALSE /\ index = 0
        /\ found = [name \in Names |-> FALSE]
        /\ offsets = [name \in Names |-> 0]
        /\ data = FALSE
        /\ output = 1 /\ stream = FALSE /\ offset = 0
        /\ eofFound = FALSE /\ result = FALSE
        /\ exit = "failure"

-----------------------------------------------------------------------------
(* openDriver                                                              *)

\* bfd_openr fails, or the file is not an object of that format and closed.
TryNextTarget == /\ pc = "open" /\ target < Targets
                 /\ target' = target + 1
                 /\ UNCHANGED <<pc, inputs, handles, search, data, writing, exit>>

OpenDriver == /\ pc = "open" /\ target < Targets
              /\ handles' = handles + 1
              /\ pc' = "section"
              /\ UNCHANGED <<inputs, target, search, data, writing, exit>>

NoDriver == /\ pc = "open" /\ target = Targets
            /\ pc' = "ended"
            /\ UNCHANGED <<inputs, target, handles, search, data, writing, exit>>

-----------------------------------------------------------------------------
(* findFirmwareOffsets                                                     *)

NoDataSection == /\ pc = "section"
                 /\ pc' = "release"
                 /\ UNCHANGED <<inputs, target, handles, search, data, writing,
                                exit>>

\* Without memory for the symbols, or without symbols, none is looked at.
ReadSymbols == /\ pc = "section"
               /\ \/ symbols' = TRUE /\ index' \in {0, Len(driver.symbols)}
                  \/ symbols' = FALSE /\ index' = Len(driver.symbols)
               /\ pc' = "scan"
               /\ UNCHANGED <<inputs, target, handles, found, offsets, data,
                              writing, exit>>

\* normalizeSymbolOffset: the offsets in the section that value can mean, the
\* first one taken: a file offset, then one in the section.
IsFileOffset(value) == /\ value >= driver.filepos
                       /\ value - driver.filepos < driver.size
IsOffset(value) == IsFileOffset(value) \/ value < driver.size
SectionOffset(value) ==
    IF IsFileOffset(value) THEN value - driver.filepos ELSE value

\* A later symbol of the same name replaces an earlier one.
ScanSymbol ==
    /\ pc = "scan" /\ index < Len(driver.symbols)
    /\ index' = index + 1
    /\ LET symbol == driver.symbols[index']
       IN  \/ /\ symbol.name \in DOMAIN found
              /\ found' = [found EXCEPT ![symbol.name] = IsOffset(symbol.value)]
              /\ offsets' = IF IsOffset(symbol.value)
                            THEN [offsets EXCEPT ![symbol.name] =
                                     SectionOffset(symbol.value)]
                            ELSE offsets
           \/ symbol.name \notin DOMAIN found /\ UNCHANGED <<found, offsets>>
    /\ UNCHANGED <<pc, inputs, target, handles, symbols, data, writing, exit>>

Located == /\ found.firmware /\ found.loader
           /\ offsets.firmware < offsets.loader
           /\ offsets.loader < driver.size

\* MUTANT of FinishScan: the symbols are given back only when both are found.
FinishScanLeaks ==
    /\ pc = "scan" /\ index = Len(driver.symbols)
    /\ symbols' = (symbols /\ ~Located)
    /\ pc' = IF Located THEN "read" ELSE "release"
    /\ UNCHANGED <<inputs, target, handles, index, found, offsets, data,
                   writing, exit>>

FinishScan == /\ pc = "scan" /\ index = Len(driver.symbols)
              /\ symbols' = FALSE
              /\ pc' = IF Located THEN "read" ELSE "release"
              /\ UNCHANGED <<inputs, target, handles, index, found, offsets,
                             data, writing, exit>>

-----------------------------------------------------------------------------
(* extractFirmware                                                         *)

\* The buffer cannot be allocated; or the section cannot be read, or an
\* output path is too long.
ReadFails == /\ pc = "read"
             /\ data' \in BOOLEAN
             /\ pc' = "release"
             /\ UNCHANGED <<inputs, target, handles, search, writing, exit>>

ReadData == /\ pc = "read"
            /\ data' = TRUE
            /\ pc' = "create"
            /\ UNCHANGED <<inputs, target, handles, search, writing, exit>>

Name == Outputs[output]
Start == IF Name = "firmware" THEN offsets.firmware ELSE offsets.loader
Length == IF Name = "firmware" THEN offsets.loader - offsets.firmware
                               ELSE driver.size - offsets.loader

\* writeHexFile: fopen may fail whatever there is, and leaves it alone.
CannotCreate == /\ pc = "create"
                /\ pc' = "release"
                /\ UNCHANGED <<inputs, target, handles, search, data, writing,
                               exit>>

\* fopen truncates what is there; a new file needs the directory.
Create == /\ pc = "create" /\ (removable \/ file[Name].present)
          /\ stream' = TRUE
          /\ file' = [file EXCEPT ![Name] = [present |-> TRUE, records |-> <<>>]]
          /\ offset' = 0 /\ eofFound' = FALSE
          /\ result' = (Length > 0 /\ Length % RecordSize = 0)
          /\ pc' = IF result' THEN "write" ELSE "close"
          /\ UNCHANGED <<inputs, target, handles, search, data, output, exit>>

Record == driver.record[Start + offset]
Append1(kind) == [file EXCEPT ![Name].records = Append(@, kind)]

\* One iteration; what writeHexRecord prints may stop anywhere.
WriteRecord ==
    /\ pc = "write" /\ offset < Length /\ ~eofFound /\ result
    /\ offset' = offset + RecordSize
    /\ \/ Record = "empty" /\ UNCHANGED <<file, result>>
       \/ Record \in {"bad", "badEof"} /\ result' = FALSE /\ UNCHANGED file
       \/ /\ Record \in {"data", "eof"}
          /\ \/ file' = Append1(<<Name, Start + offset>>) /\ UNCHANGED result
             \/ file' = Append1(Torn) /\ result' = FALSE
    /\ eofFound' = (Record \in {"eof", "badEof"})
    /\ UNCHANGED <<pc, inputs, target, handles, search, data, output, stream,
                   exit>>

\* MUTANT of FinishRecords: an array without its end is taken for complete.
FinishRecordsWithoutEof ==
    /\ pc = "write" /\ (offset >= Length \/ eofFound \/ ~result)
    /\ pc' = "close"
    /\ UNCHANGED <<inputs, target, handles, search, data, writing, exit>>

FinishRecords ==
    /\ pc = "write" /\ (offset >= Length \/ eofFound \/ ~result)
    /\ result' = (result /\ eofFound)
    /\ pc' = "close"
    /\ UNCHANGED <<inputs, target, handles, search, data, output, stream,
                   offset, eofFound, file, exit>>

\* fclose may find that buffered text cannot be written.
Close ==
    /\ pc = "close"
    /\ stream' = FALSE
    /\ \E flushed \in BOOLEAN :
          /\ result' = (result /\ flushed)
          /\ file' = IF ~result' /\ removable
                     THEN [file EXCEPT ![Name] = Absent]
                     ELSE IF ~flushed THEN Append1(Torn) ELSE file
    /\ pc' = IF result' /\ output = 1 THEN "create" ELSE "release"
    /\ output' = IF result' /\ output = 1 THEN 2 ELSE output
    /\ exit' = IF result' /\ output = 2 THEN "success" ELSE "failure"
    /\ UNCHANGED <<inputs, target, handles, search, data, offset, eofFound>>

Release == /\ pc = "release"
           /\ data' = FALSE
           /\ handles' = handles - 1
           /\ pc' = "ended"
           /\ UNCHANGED <<inputs, target, search, writing, exit>>

\* The program has ended.
Ended == pc = "ended" /\ UNCHANGED vars

Next == \/ TryNextTarget \/ OpenDriver \/ NoDriver
        \/ NoDataSection \/ ReadSymbols \/ ScanSymbol \/ FinishScan
        \/ ReadFails \/ ReadData
        \/ CannotCreate \/ Create \/ WriteRecord \/ FinishRecords \/ Close
        \/ Release \/ Ended

Spec == Init /\ [][Next]_vars

-----------------------------------------------------------------------------
(* Properties.                                                             *)

\* The offset the driver gives for a name: that of its last symbol.
SymbolOffset(name) ==
    LET last == CHOOSE i \in DOMAIN driver.symbols :
                   /\ driver.symbols[i].name = name
                   /\ \A j \in DOMAIN driver.symbols :
                         driver.symbols[j].name = name => j <= i
    IN  SectionOffset(driver.symbols[last].value)

\* content holds the records of the array of name, from its symbol to its
\* first end, all valid ones and no other.
IsWhole(name, content) ==
    /\ content.present
    /\ \E i \in DOMAIN driver.symbols : driver.symbols[i].name = name
    /\ \E last \in DOMAIN driver.record :
          LET start == SymbolOffset(name)
              inArray == {i \in start .. last : (i - start) % RecordSize = 0}
              kept == {i \in inArray : driver.record[i] # "empty"}
          IN  /\ last \in inArray /\ driver.record[last] = "eof"
              /\ name = "firmware" => last < SymbolOffset("loader")
              /\ \A i \in kept \ {last} : driver.record[i] = "data"
              /\ Len(content.records) = Cardinality(kept)
              /\ \A n \in 1 .. Len(content.records) :
                    \E i \in kept : /\ content.records[n] = <<name, i>>
                                    /\ Cardinality({j \in kept : j <= i}) = n

\* Success means that both files are whole.  After a failure a file is whole,
\* or what it was, or gone, wherever the failure was, if the program may
\* remove it; and the loader is only replaced next to a new firmware.
NoPartialOutput ==
    pc = "ended" =>
        LET Whole(name) == IsWhole(name, file[name])
        IN  /\ exit = "success" => Whole("firmware") /\ Whole("loader")
            /\ removable => \A name \in DOMAIN file :
                  file[name] \in {before[name], Absent} \/ Whole(name)
            /\ file["loader"] # before["loader"] => Whole("firmware")

\* Whatever fails, each allocation, handle and stream is given back once.
NothingHeld ==
    /\ handles = (IF pc \in {"open", "ended"} THEN 0 ELSE 1)
    /\ stream <=> pc \in {"write", "close"}
    /\ pc # "scan" => ~symbols
    /\ pc = "ended" => ~data
=============================================================================
